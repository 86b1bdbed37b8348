---------------------------- MODULE KernelProofs ----------------------------
(***************************************************************************)
(* Theorems about Kernel for every number of processes, every quantum and  *)
(* every width of its counters: its invariants, that it implements         *)
(* Lifecycle, that its ready queues are first in, first out, and, with the *)
(* history variables of KernelTimed, how long a process waits and sleeps.  *)
(***************************************************************************)
EXTENDS KernelTimed, SequenceTheorems, TLAPS

-----------------------------------------------------------------------------
(* What the operations of the queues do to the set of their elements.      *)

\* Taking the head of a queue that holds nothing twice takes it from the set.
LEMMA TailFacts ==
  ASSUME NEW S, NEW s \in Seq(S), s # <<>>
  PROVE  /\ Head(s) \in S /\ Head(s) \in ToSet(s)
         /\ Tail(s) \in Seq(S) /\ Len(Tail(s)) = Len(s) - 1
         /\ IsInjective(s) => /\ ToSet(Tail(s)) = ToSet(s) \ {Head(s)}
                              /\ IsInjective(Tail(s))
<1>1. /\ Len(s) \in Nat /\ Len(s) >= 1 /\ DOMAIN s = 1..Len(s)
      /\ Head(s) = s[1] /\ s[1] \in S
  BY EmptySeq, LenProperties, HeadTailProperties, ElementOfSeq
<1>2. /\ Tail(s) \in Seq(S) /\ Len(Tail(s)) = Len(s) - 1
      /\ \A i \in 1..(Len(s) - 1) : Tail(s)[i] = s[i + 1]
  BY HeadTailProperties
<1>3. DOMAIN Tail(s) = 1..(Len(s) - 1)
  BY <1>2, LenProperties
<1>4. Head(s) \in ToSet(s)
  BY <1>1 DEF ToSet
<1>5. ASSUME IsInjective(s)
      PROVE  ToSet(Tail(s)) = ToSet(s) \ {Head(s)} /\ IsInjective(Tail(s))
  <2>1. \A i, j \in 1..Len(s) : s[i] = s[j] => i = j
    BY <1>1, <1>5 DEF IsInjective
  <2>2. ASSUME NEW x \in ToSet(Tail(s))
        PROVE  x \in ToSet(s) \ {Head(s)}
    <3>1. PICK i \in 1..(Len(s) - 1) : x = s[i + 1]
      BY <2>2, <1>2, <1>3 DEF ToSet
    <3>2. i + 1 \in 1..Len(s) /\ i + 1 # 1
      BY <1>1
    <3> QED BY <3>1, <3>2, <2>1, <1>1 DEF ToSet
  <2>3. ASSUME NEW x \in ToSet(s) \ {Head(s)}
        PROVE  x \in ToSet(Tail(s))
    <3>1. PICK i \in 1..Len(s) : x = s[i]
      BY <2>3, <1>1 DEF ToSet
    <3>2. i - 1 \in 1..(Len(s) - 1) /\ (i - 1) + 1 = i
      BY <2>3, <3>1, <1>1
    <3> QED BY <3>1, <3>2, <1>2, <1>3 DEF ToSet
  <2>4. IsInjective(Tail(s))
    BY <2>1, <1>1, <1>2, <1>3 DEF IsInjective
  <2> QED BY <2>2, <2>3, <2>4
<1> QED BY <1>1, <1>2, <1>4, <1>5

\* Appending an element adds it to the set.
LEMMA AppendFacts ==
  ASSUME NEW S, NEW s \in Seq(S), NEW e \in S
  PROVE  /\ Append(s, e) \in Seq(S) /\ Len(Append(s, e)) = Len(s) + 1
         /\ ToSet(Append(s, e)) = ToSet(s) \cup {e}
         /\ IsInjective(s) /\ e \notin ToSet(s) => IsInjective(Append(s, e))
<1> DEFINE t == Append(s, e)
<1>1. /\ t \in Seq(S) /\ Len(t) = Len(s) + 1 /\ Len(s) \in Nat
      /\ \A i \in 1..Len(s) : t[i] = s[i]
      /\ t[Len(s) + 1] = e
  BY AppendProperties, LenProperties
<1>2. DOMAIN t = 1..(Len(s) + 1) /\ DOMAIN s = 1..Len(s)
  BY <1>1, LenProperties
<1> HIDE DEF t
<1>3. ASSUME NEW x \in ToSet(t)
      PROVE  x \in ToSet(s) \cup {e}
  BY <1>1, <1>2, <1>3 DEF ToSet
<1>4. ASSUME NEW x \in ToSet(s) \cup {e}
      PROVE  x \in ToSet(t)
  <2>1. CASE x = e
    BY <2>1, <1>1, <1>2 DEF ToSet
  <2>2. CASE x \in ToSet(s)
    <3>1. PICK i \in 1..Len(s) : x = s[i]
      BY <2>2, <1>2 DEF ToSet
    <3>2. i \in DOMAIN t /\ t[i] = x
      BY <3>1, <1>1, <1>2
    <3> QED BY <3>2 DEF ToSet
  <2> QED BY <1>4, <2>1, <2>2
<1>5. ASSUME IsInjective(s), e \notin ToSet(s)
      PROVE  IsInjective(t)
  BY <1>1, <1>2, <1>5 DEF IsInjective, ToSet
<1> QED BY <1>1, <1>3, <1>4, <1>5 DEF t

\* Inserting an element moves the ones from its place on behind it.
LEMMA InsertElements ==
  ASSUME NEW S, NEW s \in Seq(S), NEW e \in S, NEW k \in 1..(Len(s) + 1)
  PROVE  LET t == InsertAt(s, k, e)
         IN /\ t \in Seq(S) /\ Len(t) = Len(s) + 1
            /\ \A i \in 1..(k - 1) : t[i] = s[i]
            /\ t[k] = e
            /\ \A i \in (k + 1)..(Len(s) + 1) : t[i] = s[i - 1]
<1> DEFINE a == SubSeq(s, 1, k - 1)
           b == SubSeq(s, k, Len(s))
           t == InsertAt(s, k, e)
<1>1. Len(s) \in Nat /\ DOMAIN s = 1..Len(s)
  BY LenProperties
<1>2. /\ a \in Seq(S) /\ Len(a) = k - 1
      /\ \A i \in 1..(k - 1) : a[i] = s[i]
  BY <1>1, SubSeqProperties
<1>3. /\ b \in Seq(S) /\ Len(b) = Len(s) - k + 1
      /\ \A i \in 1..(Len(s) - k + 1) : b[i] = s[k + i - 1]
  BY <1>1, SubSeqProperties
<1>4. t = (a \o <<e>>) \o b
  BY DEF InsertAt
<1> HIDE DEF a, b, t
<1>5. /\ a \o <<e>> \in Seq(S) /\ Len(a \o <<e>>) = k
      /\ \A i \in 1..(k - 1) : (a \o <<e>>)[i] = s[i]
      /\ (a \o <<e>>)[k] = e
  BY <1>1, <1>2, ConcatProperties
<1>6. /\ t \in Seq(S) /\ Len(t) = Len(s) + 1
      /\ \A i \in 1..(k - 1) : t[i] = s[i]
      /\ t[k] = e
      /\ \A i \in (k + 1)..(Len(s) + 1) : t[i] = s[i - 1]
  <2> DEFINE c == a \o <<e>>
  <2>1. /\ c \in Seq(S) /\ Len(c) = k
        /\ \A i \in 1..(k - 1) : c[i] = s[i]
        /\ c[k] = e
    BY <1>5
  <2> HIDE DEF c
  <2>2. /\ c \o b \in Seq(S) /\ Len(c \o b) = Len(c) + Len(b)
        /\ \A i \in 1..(Len(c) + Len(b)) :
             (c \o b)[i] = IF i <= Len(c) THEN c[i] ELSE b[i - Len(c)]
    BY <2>1, <1>3, ConcatProperties
  <2>3. t = c \o b
    BY <1>4 DEF c
  <2>4. Len(c) + Len(b) = Len(s) + 1
    BY <2>1, <1>1, <1>3
  <2>5. ASSUME NEW i \in (k + 1)..(Len(s) + 1)
        PROVE  t[i] = s[i - 1]
    <3>1. t[i] = b[i - k]
      BY <2>1, <2>2, <2>3, <2>4, <1>1
    <3>2. i - k \in 1..(Len(s) - k + 1) /\ k + (i - k) - 1 = i - 1
      BY <1>1
    <3> QED BY <3>1, <3>2, <1>3
  <2>6. \A i \in 1..k : t[i] = c[i]
    BY <2>1, <2>2, <2>3, <2>4, <1>1
  <2> QED BY <2>1, <2>2, <2>3, <2>4, <2>5, <2>6, <1>1
<1> QED BY <1>6 DEF t

\* It adds the element to the set, too.
LEMMA InsertFacts ==
  ASSUME NEW S, NEW s \in Seq(S), NEW e \in S, NEW k \in 1..(Len(s) + 1)
  PROVE  /\ InsertAt(s, k, e) \in Seq(S) /\ Len(InsertAt(s, k, e)) = Len(s) + 1
         /\ ToSet(InsertAt(s, k, e)) = ToSet(s) \cup {e}
         /\ IsInjective(s) /\ e \notin ToSet(s) => IsInjective(InsertAt(s, k, e))
<1> DEFINE t == InsertAt(s, k, e)
<1>1. Len(s) \in Nat /\ DOMAIN s = 1..Len(s)
  BY LenProperties
<1>2. /\ t \in Seq(S) /\ Len(t) = Len(s) + 1
      /\ \A i \in 1..(k - 1) : t[i] = s[i]
      /\ t[k] = e
      /\ \A i \in (k + 1)..(Len(s) + 1) : t[i] = s[i - 1]
  BY InsertElements
<1> HIDE DEF t
<1>3. DOMAIN t = 1..(Len(s) + 1)
  BY <1>2, LenProperties
<1>4. ASSUME NEW x \in ToSet(t)
      PROVE  x \in ToSet(s) \cup {e}
  <2>1. PICK i \in 1..(Len(s) + 1) : x = t[i]
    BY <1>3, <1>4 DEF ToSet
  <2>2. CASE i < k
    BY <2>1, <2>2, <1>1, <1>2, SMTT(40) DEF ToSet
  <2>3. CASE i > k
    <3>1. i - 1 \in DOMAIN s /\ x = s[i - 1]
      BY <2>1, <2>3, <1>1, <1>2
    <3> QED BY <3>1 DEF ToSet
  <2>4. CASE i = k
    BY <2>1, <2>4, <1>2
  <2> QED BY <2>2, <2>3, <2>4, <1>1
<1>5. ASSUME NEW x \in ToSet(s) \cup {e}
      PROVE  x \in ToSet(t)
  <2>1. CASE x = e
    BY <2>1, <1>1, <1>2, <1>3 DEF ToSet
  <2>2. CASE x \in ToSet(s)
    <3>1. PICK i \in 1..Len(s) : x = s[i]
      BY <2>2, <1>1 DEF ToSet
    <3>2. CASE i < k
      BY <3>1, <3>2, <1>1, <1>2, <1>3 DEF ToSet
    <3>3. CASE i >= k
      <4>1. i + 1 \in DOMAIN t /\ t[i + 1] = x
        BY <3>1, <3>3, <1>1, <1>2, <1>3
      <4> QED BY <4>1 DEF ToSet
    <3> QED BY <3>2, <3>3, <1>1
  <2> QED BY <1>5, <2>1, <2>2
<1>6. ASSUME IsInjective(s), e \notin ToSet(s)
       PROVE  IsInjective(t)
  <2>1. \A i, j \in 1..Len(s) : s[i] = s[j] => i = j
    BY <1>1, <1>6 DEF IsInjective
  <2>2. \A i \in 1..Len(s) : s[i] # e
    BY <1>1, <1>6 DEF ToSet
  <2>3. SUFFICES ASSUME NEW i \in 1..(Len(s) + 1), NEW j \in 1..(Len(s) + 1),
                        t[i] = t[j]
                 PROVE  i = j
    BY <1>3 DEF IsInjective
  <2>4. CASE i < k /\ j < k
    BY <2>1, <2>3, <2>4, <1>1, <1>2
  <2>5. CASE i > k /\ j > k
    <3>1. i - 1 \in 1..Len(s) /\ j - 1 \in 1..Len(s) /\ s[i - 1] = s[j - 1]
      BY <2>3, <2>5, <1>1, <1>2
    <3> QED BY <3>1, <2>1
  <2>6. CASE i < k /\ j > k
    <3>1. i \in 1..Len(s) /\ j - 1 \in 1..Len(s) /\ s[i] = s[j - 1] /\ i # j - 1
      BY <2>3, <2>6, <1>1, <1>2
    <3> QED BY <3>1, <2>1
  <2>7. CASE i > k /\ j < k
    <3>1. i - 1 \in 1..Len(s) /\ j \in 1..Len(s) /\ s[i - 1] = s[j] /\ i - 1 # j
      BY <2>3, <2>7, <1>1, <1>2
    <3> QED BY <3>1, <2>1
  <2>8. CASE i = k \/ j = k
    BY <2>2, <2>3, <2>8, <1>1, <1>2
  <2> QED BY <2>4, <2>5, <2>6, <2>7, <2>8, <1>1
<1> QED BY <1>2, <1>4, <1>5, <1>6 DEF t

-----------------------------------------------------------------------------
(* The scheduler.                                                          *)

\* One element less at one level is one less in all.
LEMMA SumByOne ==
  ASSUME NEW a, NEW b, NEW m \in Levels,
         \A k \in Levels : Len(a[k]) \in Nat,
         Len(b[m]) = Len(a[m]) - 1,
         \A k \in Levels \ {m} : Len(b[k]) = Len(a[k])
  PROVE  ReadyTotal(b) = ReadyTotal(a) - 1
<1>1. Levels = {0, 1, 2, 3}
  BY DEF Levels, N_PRIOS
<1>2. /\ Len(a[0]) \in Nat /\ Len(a[1]) \in Nat /\ Len(a[2]) \in Nat
      /\ Len(a[3]) \in Nat
  BY <1>1
<1>3. CASE m = 0
  <2>1. Len(b[0]) = Len(a[0]) - 1
    BY <1>3
  <2>2. Len(b[1]) = Len(a[1]) /\ Len(b[2]) = Len(a[2]) /\ Len(b[3]) = Len(a[3])
    BY <1>3, <1>1
  <2> QED BY <2>1, <2>2, <1>2 DEF ReadyTotal
<1>4. CASE m = 1
  <2>1. Len(b[1]) = Len(a[1]) - 1
    BY <1>4
  <2>2. Len(b[0]) = Len(a[0]) /\ Len(b[2]) = Len(a[2]) /\ Len(b[3]) = Len(a[3])
    BY <1>4, <1>1
  <2> QED BY <2>1, <2>2, <1>2 DEF ReadyTotal
<1>5. CASE m = 2
  <2>1. Len(b[2]) = Len(a[2]) - 1
    BY <1>5
  <2>2. Len(b[0]) = Len(a[0]) /\ Len(b[1]) = Len(a[1]) /\ Len(b[3]) = Len(a[3])
    BY <1>5, <1>1
  <2> QED BY <2>1, <2>2, <1>2 DEF ReadyTotal
<1>6. CASE m = 3
  <2>1. Len(b[3]) = Len(a[3]) - 1
    BY <1>6
  <2>2. Len(b[0]) = Len(a[0]) /\ Len(b[1]) = Len(a[1]) /\ Len(b[2]) = Len(a[2])
    BY <1>6, <1>1
  <2> QED BY <2>1, <2>2, <1>2 DEF ReadyTotal
<1> QED BY <1>1, <1>3, <1>4, <1>5, <1>6

\* Ready queues, states and priorities between _schedule and _dispatch, when
\* no process has the CPU: each ready process is in the queue of its level,
\* and idle() is one of them.
Prepared(rdy, st, pr) ==
  /\ rdy \in [Levels -> Seq(PCBs)]
  /\ st \in [PCBs -> States]
  /\ pr \in [PCBs -> Levels]
  /\ \A l \in Levels : IsInjective(rdy[l])
  /\ \A p \in PCBs, l \in Levels :
       p \in ToSet(rdy[l]) <=> st[p] = "READY" /\ pr[p] = l
  /\ \A p \in PCBs : st[p] # "RUNNING"
  /\ st[Idle] = "READY" /\ pr[Idle] = PRIO_USER_LOW

\* What _dispatch makes of them: one of the ready processes has the CPU.
Dispatched(st, pr) ==
  /\ halted' = FALSE
  /\ quantum' = QUANTUM_DEFAULT
  /\ current' \in PCBs
  /\ st[current'] = "READY"
  /\ ready' \in [Levels -> Seq(PCBs)]
  /\ state' \in [PCBs -> States]
  /\ \A p \in PCBs : state'[p] = IF p = current' THEN "RUNNING" ELSE st[p]
  /\ \A l \in Levels : IsInjective(ready'[l])
  /\ \A p \in PCBs, l \in Levels :
       p \in ToSet(ready'[l]) <=> state'[p] = "READY" /\ pr[p] = l

\* _dispatch finds a process, and moves it from its queue to the CPU.
LEMMA DispatchFacts ==
  ASSUME NEW rdy, NEW st, NEW pr, Prepared(rdy, st, pr), Dispatch(rdy, st)
  PROVE  Dispatched(st, pr) /\ ReadyTotal(ready') = ReadyTotal(rdy) - 1
<1> USE DEF Levels, N_PRIOS, PRIO_USER_LOW
<1>1. Idle \in PCBs
  BY NProcsAssumption DEF PCBs, N_PCBS, Idle
<1>2. rdy[3] # <<>>
  <2>1. Idle \in ToSet(rdy[3])
    BY <1>1 DEF Prepared
  <2>2. SUFFICES ASSUME rdy[3] = <<>> PROVE FALSE
    OBVIOUS
  <2>3. DOMAIN rdy[3] = {}
    BY <2>2
  <2> QED BY <2>1, <2>3 DEF ToSet
<1>3. PICK l \in Levels :
        /\ rdy[l] # <<>>
        /\ current' = Head(rdy[l])
        /\ ready' = Dequeue(rdy, l)
        /\ state' = [st EXCEPT ![Head(rdy[l])] = "RUNNING"]
        /\ quantum' = QUANTUM_DEFAULT
        /\ halted' = FALSE
  BY <1>2 DEF Dispatch
<1> DEFINE h == Head(rdy[l])
<1>4. /\ rdy[l] \in Seq(PCBs) /\ IsInjective(rdy[l])
      /\ rdy \in [Levels -> Seq(PCBs)]
      /\ st \in [PCBs -> States]
  BY DEF Prepared
<1>5. /\ h \in PCBs /\ h \in ToSet(rdy[l])
      /\ Tail(rdy[l]) \in Seq(PCBs) /\ Len(Tail(rdy[l])) = Len(rdy[l]) - 1
      /\ ToSet(Tail(rdy[l])) = ToSet(rdy[l]) \ {h}
      /\ IsInjective(Tail(rdy[l]))
  BY <1>3, <1>4, TailFacts
<1>6. st[h] = "READY" /\ pr[h] = l
  BY <1>5 DEF Prepared
<1>7. ready' = [rdy EXCEPT ![l] = Tail(rdy[l])]
  BY <1>3 DEF Dequeue
<1>8. /\ ready' \in [Levels -> Seq(PCBs)]
      /\ state' \in [PCBs -> States]
  BY <1>3, <1>4, <1>5, <1>7 DEF States
<1>9. \A p \in PCBs : state'[p] = IF p = current' THEN "RUNNING" ELSE st[p]
  BY <1>3, <1>4
<1>10. \A k \in Levels : IsInjective(ready'[k])
  BY <1>4, <1>5, <1>7 DEF Prepared
<1>11. ASSUME NEW p \in PCBs, NEW k \in Levels
       PROVE  p \in ToSet(ready'[k]) <=> state'[p] = "READY" /\ pr[p] = k
  <2>1. p \in ToSet(rdy[k]) <=> st[p] = "READY" /\ pr[p] = k
    BY DEF Prepared
  <2>2. ready'[k] = IF k = l THEN Tail(rdy[l]) ELSE rdy[k]
    BY <1>4, <1>7
  <2>3. CASE k = l
    BY <2>1, <2>2, <2>3, <1>3, <1>5, <1>9
  <2>4. CASE k # l
    BY <2>1, <2>2, <2>4, <1>3, <1>6, <1>9
  <2> QED BY <2>3, <2>4
<1>12. ReadyTotal(ready') = ReadyTotal(rdy) - 1
  <2>1. \A k \in Levels : Len(rdy[k]) \in Nat
    BY <1>4, LenProperties
  <2>2. Len(ready'[l]) = Len(rdy[l]) - 1
    BY <1>4, <1>5, <1>7
  <2>3. \A k \in Levels \ {l} : Len(ready'[k]) = Len(rdy[k])
    BY <1>4, <1>7
  <2> QED BY <2>1, <2>2, <2>3, SumByOne
<1> QED BY <1>3, <1>5, <1>6, <1>8, <1>9, <1>10, <1>11, <1>12 DEF Dispatched

\* _schedule puts a process that is in no ready queue at the end of one.
LEMMA EnqueueFacts ==
  ASSUME NEW rdy \in [Levels -> Seq(PCBs)], NEW p \in PCBs, NEW n, n \in Nat,
         \A l \in Levels : IsInjective(rdy[l]) /\ p \notin ToSet(rdy[l])
  PROVE  /\ LegalPrio(n) \in Levels
         /\ n \in Levels => LegalPrio(n) = n
         /\ Enqueue(rdy, p, n) \in [Levels -> Seq(PCBs)]
         /\ \A l \in Levels : IsInjective(Enqueue(rdy, p, n)[l])
         /\ ToSet(Enqueue(rdy, p, n)[LegalPrio(n)])
              = ToSet(rdy[LegalPrio(n)]) \cup {p}
         /\ \A l \in Levels \ {LegalPrio(n)} : Enqueue(rdy, p, n)[l] = rdy[l]
         /\ ReadyTotal(Enqueue(rdy, p, n)) = ReadyTotal(rdy) + 1
<1> DEFINE m == LegalPrio(n)
           new == Enqueue(rdy, p, n)
<1>1. m \in Levels /\ (n \in Levels => m = n)
  BY DEF LegalPrio, Levels, N_PRIOS, PRIO_USER_LOW
<1>2. new = [rdy EXCEPT ![m] = Append(rdy[m], p)]
  BY DEF Enqueue
<1> HIDE DEF m, new
<1>3. /\ Append(rdy[m], p) \in Seq(PCBs)
      /\ Len(Append(rdy[m], p)) = Len(rdy[m]) + 1
      /\ ToSet(Append(rdy[m], p)) = ToSet(rdy[m]) \cup {p}
      /\ IsInjective(Append(rdy[m], p))
  BY <1>1, AppendFacts
<1>4. new \in [Levels -> Seq(PCBs)]
  BY <1>2, <1>3
<1>5. \A l \in Levels : new[l] = IF l = m THEN Append(rdy[m], p) ELSE rdy[l]
  BY <1>2
<1>6. ReadyTotal(new) = ReadyTotal(rdy) + 1
  <2>1. \A k \in Levels : Len(new[k]) \in Nat
    BY <1>4, LenProperties
  <2>2. Len(rdy[m]) = Len(new[m]) - 1
    <3>1. rdy[m] \in Seq(PCBs) /\ Len(rdy[m]) \in Nat
      BY <1>1, LenProperties
    <3>2. Len(new[m]) = Len(rdy[m]) + 1
      BY <1>1, <1>3, <1>5
    <3> QED BY <3>1, <3>2
  <2>3. \A k \in Levels \ {m} : Len(rdy[k]) = Len(new[k])
    BY <1>5
  <2>4. ReadyTotal(rdy) = ReadyTotal(new) - 1
    BY <2>1, <2>2, <2>3, <1>1, SumByOne
  <2>5. ReadyTotal(new) \in Int
    BY <2>1 DEF ReadyTotal, Levels, N_PRIOS
  <2> QED BY <2>4, <2>5
<1>7. /\ \A l \in Levels : IsInjective(new[l])
      /\ ToSet(new[m]) = ToSet(rdy[m]) \cup {p}
      /\ \A l \in Levels \ {m} : new[l] = rdy[l]
  BY <1>1, <1>3, <1>5
<1> QED BY <1>1, <1>4, <1>6, <1>7 DEF m, new

-----------------------------------------------------------------------------
(* The inductive invariant.  Placement needs the other parts: that a free  *)
(* PCB can be taken with every free stack (Counts), that the process  *)
(* which exits has a stack to give back (StackOwnership), and that         *)
(* _dispatch always finds a process (IdleReady).                           *)

\* idle() can always be given the CPU.
IdleReady ==
  /\ ~halted
  /\ state[Idle] \in {"READY", "RUNNING"}
  /\ prio[Idle] = PRIO_USER_LOW

\* The free PCBs are counted right, and there is one more of them than of the
\* free stacks: a stack is never left without a PCB.
Counts ==
  /\ ActiveCount
  /\ Len(free_pcbs) = Len(free_stacks) + 1

\* Every PCB but the running one takes a queue node.
QnodeCount ==
  Len(free_pcbs) + Len(sleeping) + ReadyTotal(ready) = N_PCBS - 1

Inv ==
  /\ TypeOK
  /\ Placement
  /\ StackOwnership
  /\ Counts
  /\ QnodeCount
  /\ IdleReady

\* What the proofs use of the constants.
LEMMA ConstantFacts ==
  /\ N_PROCS \in Nat /\ N_PROCS >= 4
  /\ N_PCBS = N_PROCS + 1 /\ N_STACKS = N_PROCS
  /\ Idle \in PCBs /\ Idle = 1
  /\ NULL \notin Stacks
  /\ Levels = {0, 1, 2, 3} /\ PRIO_USER_LOW = 3
BY NProcsAssumption
   DEF N_PCBS, N_STACKS, PCBs, Idle, NULL, Stacks, Levels, N_PRIOS, PRIO_USER_LOW

\* The ready queues together hold a natural number of elements.
LEMMA TotalIsNat ==
  ASSUME NEW a, \A l \in Levels : Len(a[l]) \in Nat
  PROVE  ReadyTotal(a) \in Nat
<1> DEFINE w == Len(a[0])
           x == Len(a[1])
           y == Len(a[2])
           z == Len(a[3])
<1>1. w \in Nat /\ x \in Nat /\ y \in Nat /\ z \in Nat
  BY ConstantFacts
<1>2. ReadyTotal(a) = w + x + y + z
  BY DEF ReadyTotal
<1> HIDE DEF w, x, y, z
<1> QED BY <1>1, <1>2

\* So does every list.
LEMMA LengthsAreNat ==
  Inv => /\ Len(free_pcbs) \in Nat /\ Len(free_stacks) \in Nat
         /\ Len(sleeping) \in Nat /\ ReadyTotal(ready) \in Nat
<1> SUFFICES ASSUME Inv
             PROVE  /\ Len(free_pcbs) \in Nat /\ Len(free_stacks) \in Nat
                    /\ Len(sleeping) \in Nat /\ ReadyTotal(ready) \in Nat
  OBVIOUS
<1>1. /\ free_pcbs \in Seq(PCBs) /\ free_stacks \in Seq(Stacks)
      /\ sleeping \in Seq(PCBs) /\ \A l \in Levels : ready[l] \in Seq(PCBs)
  BY DEF Inv, TypeOK
<1>2. \A l \in Levels : Len(ready[l]) \in Nat
  BY <1>1, LenProperties
<1>3. ReadyTotal(ready) \in Nat
  BY <1>2, TotalIsNat
<1> QED BY <1>1, <1>3, LenProperties

\* The pid of a cleared PCB is of the type of a pid.
LEMMA ZeroIsAPid == 0 \in PidValues
<1>1. ToInt16(0) = 0 /\ 0 \in 0..(N_PIDS - 1)
  BY ModulusAssumption DEF ToInt16
<1> QED BY <1>1 DEF PidValues

\* A process that exits or goes to sleep leaves a process to dispatch.
LEMMA AfterLeaving ==
  ASSUME Inv, current # Idle, NEW x \in {"FREE", "SLEEPING"}, NEW n \in Levels
  PROVE  Prepared(ready, [state EXCEPT ![current] = x], [prio EXCEPT ![current] = n])
<1> DEFINE st == [state EXCEPT ![current] = x]
           pr == [prio EXCEPT ![current] = n]
<1>1. /\ current \in PCBs
      /\ ready \in [Levels -> Seq(PCBs)]
      /\ state \in [PCBs -> States] /\ prio \in [PCBs -> Levels]
  BY DEF Inv, TypeOK
<1>2. st \in [PCBs -> States] /\ pr \in [PCBs -> Levels]
  BY <1>1 DEF States
<1>3. ASSUME NEW p \in PCBs, NEW l \in Levels
      PROVE  p \in ToSet(ready[l]) <=> st[p] = "READY" /\ pr[p] = l
  <2>1. /\ p \in ToSet(ready[l]) <=> state[p] = "READY" /\ prio[p] = l
        /\ state[p] = "RUNNING" <=> p = current
    BY DEF Inv, Placement
  <2>2. CASE p = current
    BY <2>1, <2>2, <1>1
  <2>3. CASE p # current
    BY <2>1, <2>3, <1>1
  <2> QED BY <2>2, <2>3
<1>4. \A p \in PCBs : st[p] # "RUNNING"
  BY <1>1 DEF Inv, Placement
<1>5. \A l \in Levels : IsInjective(ready[l])
  BY DEF Inv, Placement
<1>6. st[Idle] = "READY" /\ pr[Idle] = PRIO_USER_LOW
  <2>1. state[Idle] # "RUNNING"
    BY ConstantFacts DEF Inv, Placement
  <2> QED BY <2>1, <1>1, ConstantFacts DEF Inv, IdleReady
<1> QED BY <1>1, <1>2, <1>3, <1>4, <1>5, <1>6 DEF Prepared

\* So does one that is put back in its ready queue, with the priority it had.
LEMMA AfterPreempting ==
  ASSUME Inv
  PROVE  /\ Prepared(Enqueue(ready, current, prio[current]),
                     [state EXCEPT ![current] = "READY"], prio)
         /\ [prio EXCEPT ![current] = LegalPrio(prio[current])] = prio
         /\ ReadyTotal(Enqueue(ready, current, prio[current]))
              = ReadyTotal(ready) + 1
<1> DEFINE st == [state EXCEPT ![current] = "READY"]
           n == prio[current]
           rdy == Enqueue(ready, current, n)
<1>1. /\ current \in PCBs
      /\ ready \in [Levels -> Seq(PCBs)]
      /\ state \in [PCBs -> States] /\ prio \in [PCBs -> Levels]
  BY DEF Inv, TypeOK
<1>2. n \in Levels /\ n \in Nat
  BY <1>1 DEF Levels, N_PRIOS
<1>3. \A l \in Levels : IsInjective(ready[l]) /\ current \notin ToSet(ready[l])
  BY <1>1 DEF Inv, Placement
<1> HIDE DEF n
<1>4. /\ LegalPrio(n) = n
      /\ rdy \in [Levels -> Seq(PCBs)]
      /\ \A l \in Levels :
           /\ IsInjective(rdy[l])
           /\ ToSet(rdy[l]) = IF l = n THEN ToSet(ready[l]) \cup {current}
                              ELSE ToSet(ready[l])
      /\ ReadyTotal(rdy) = ReadyTotal(ready) + 1
  <2>1. LegalPrio(n) = n
    BY <1>2 DEF LegalPrio, Levels, N_PRIOS
  <2>2. rdy \in [Levels -> Seq(PCBs)] /\ \A l \in Levels : IsInjective(rdy[l])
    BY <1>1, <1>2, <1>3, EnqueueFacts
  <2>3. ToSet(rdy[LegalPrio(n)]) = ToSet(ready[LegalPrio(n)]) \cup {current}
    BY <1>1, <1>2, <1>3, EnqueueFacts
  <2>4. \A l \in Levels \ {LegalPrio(n)} : rdy[l] = ready[l]
    BY <1>1 DEF Enqueue
  <2>5. ReadyTotal(rdy) = ReadyTotal(ready) + 1
    BY <1>1, <1>2, <1>3, EnqueueFacts
  <2> HIDE DEF rdy
  <2> QED BY <2>1, <2>2, <2>3, <2>4, <2>5
<1> HIDE DEF rdy
<1>5. ASSUME NEW p \in PCBs, NEW l \in Levels
      PROVE  p \in ToSet(rdy[l]) <=> st[p] = "READY" /\ prio[p] = l
  <2>1. /\ p \in ToSet(ready[l]) <=> state[p] = "READY" /\ prio[p] = l
        /\ state[p] = "RUNNING" <=> p = current
    BY DEF Inv, Placement
  <2>2. CASE p = current
    BY <2>1, <2>2, <1>1, <1>4 DEF n
  <2>3. CASE p # current
    BY <2>1, <2>3, <1>1, <1>4
  <2> QED BY <2>2, <2>3
<1>6. st \in [PCBs -> States] /\ \A p \in PCBs : st[p] # "RUNNING"
  BY <1>1 DEF Inv, Placement, States
<1>7. st[Idle] = "READY" /\ prio[Idle] = PRIO_USER_LOW
  <2>1. state[Idle] = "RUNNING" <=> Idle = current
    BY ConstantFacts DEF Inv, Placement
  <2> QED BY <2>1, <1>1, ConstantFacts DEF Inv, IdleReady
<1>8. Prepared(rdy, st, prio)
  BY <1>1, <1>4, <1>5, <1>6, <1>7 DEF Prepared
<1> QED BY <1>1, <1>4, <1>8 DEF rdy, n

-----------------------------------------------------------------------------
(* The invariant holds at the start, and every step keeps it.              *)

\* The elements of the free lists as _init leaves them.
LEMMA RangeFacts ==
  ASSUME NEW n \in Nat, NEW S, \A i \in 1..n : i + 3 \in S
  PROVE  LET s == [i \in 1..n |-> i + 3]
         IN s \in Seq(S) /\ Len(s) = n /\ ToSet(s) = 4..(n + 3) /\ IsInjective(s)
<1> DEFINE s == [i \in 1..n |-> i + 3]
<1>1. s \in [1..n -> S] /\ DOMAIN s = 1..n
  OBVIOUS
<1>2. s \in Seq(S)
  BY <1>1, SeqDef
<1>3. Len(s) = n
  BY <1>1, <1>2, LenProperties
<1>4. ToSet(s) = 4..(n + 3)
  <2>1. ASSUME NEW x \in 4..(n + 3) PROVE x \in ToSet(s)
    <3>1. x - 3 \in 1..n /\ s[x - 3] = x
      OBVIOUS
    <3> QED BY <3>1, <1>1 DEF ToSet
  <2>2. ASSUME NEW x \in ToSet(s) PROVE x \in 4..(n + 3)
    BY <2>2, <1>1 DEF ToSet
  <2> QED BY <2>1, <2>2
<1>5. IsInjective(s)
  BY <1>1 DEF IsInjective
<1> QED BY <1>2, <1>3, <1>4, <1>5

\* The state that _init leaves behind.
LEMMA InitInv == Init => Inv
<1> SUFFICES ASSUME Init PROVE Inv
  OBVIOUS
<1> USE ConstantFacts
<1>1. /\ free_pcbs \in Seq(PCBs) /\ Len(free_pcbs) = N_PCBS - 4
      /\ ToSet(free_pcbs) = 4..(N_PCBS - 1) /\ IsInjective(free_pcbs)
  <2>1. N_PCBS - 4 \in Nat /\ (\A i \in 1..(N_PCBS - 4) : i + 3 \in PCBs)
    BY DEF PCBs
  <2> QED BY <2>1, RangeFacts, SMTT(40) DEF Init
<1>2. /\ free_stacks \in Seq(Stacks) /\ Len(free_stacks) = N_STACKS - 4
      /\ ToSet(free_stacks) = 4..(N_STACKS - 1) /\ IsInjective(free_stacks)
  <2>1. N_STACKS - 4 \in Nat /\ (\A i \in 1..(N_STACKS - 4) : i + 3 \in Stacks)
    BY DEF Stacks
  <2>2. /\ free_stacks \in Seq(Stacks) /\ Len(free_stacks) = N_STACKS - 4
        /\ ToSet(free_stacks) = 4..((N_STACKS - 4) + 3) /\ IsInjective(free_stacks)
    BY <2>1, RangeFacts DEF Init
  <2> QED BY <2>1, <2>2
<1>3. /\ ready \in [Levels -> Seq(PCBs)]
      /\ Len(ready[0]) = 0 /\ Len(ready[1]) = 1 /\ Len(ready[2]) = 1
      /\ Len(ready[3]) = 1
      /\ ToSet(ready[0]) = {} /\ ToSet(ready[1]) = {2} /\ ToSet(ready[2]) = {3}
      /\ ToSet(ready[3]) = {1}
  <2>1. ready[0] = <<>> /\ ready[1] = <<2>> /\ ready[2] = <<3>> /\ ready[3] = <<1>>
    BY DEF Init
  <2>2. 1 \in PCBs /\ 2 \in PCBs /\ 3 \in PCBs
    BY DEF PCBs
  <2>3. ready \in [Levels -> Seq(PCBs)]
    BY <2>1, <2>2 DEF Init
  <2> QED BY <2>1, <2>3 DEF ToSet
<1>4. TypeOK
  <2>1. /\ state \in [PCBs -> States] /\ prio \in [PCBs -> Levels]
        /\ current \in PCBs
    BY DEF Init, PCBs, States, Levels, N_PRIOS
  <2>2. pid \in [PCBs -> PidValues] /\ next_pid \in 0..(N_PIDS - 1)
    <3>1. \A i \in 0..5 : ToInt16(i) = i /\ i \in 0..(N_PIDS - 1)
      BY ModulusAssumption DEF ToInt16
    <3>2. \A i \in 0..4 : i \in PidValues
      <4> TAKE i \in 0..4
      <4>1. ToInt16(i) = i /\ i \in 0..(N_PIDS - 1)
        BY <3>1
      <4> QED BY <4>1 DEF PidValues
    <3>3. \A p \in PCBs : (IF p < 4 THEN p + 1 ELSE 0) \in 0..4
      BY DEF PCBs
    <3> QED BY <3>1, <3>2, <3>3 DEF Init
  <2>3. wakeup \in [PCBs -> Times] /\ system_time \in Times
    BY ModulusAssumption DEF Init, Times
  <2>4. stack \in [PCBs -> Stacks \cup {NULL}]
    BY DEF Init, PCBs, Stacks
  <2>5. /\ quantum \in 1..QUANTUM_DEFAULT /\ system_active \in Nat
        /\ isr \in {"none", "wake"}
    BY QuantumAssumption DEF Init
  <2>6. halted \in BOOLEAN
    BY DEF Init
  <2>7. sleeping \in Seq(PCBs)
    BY EmptySeq DEF Init
  <2> QED
    BY <1>1, <1>2, <1>3, <2>1, <2>2, <2>3, <2>4, <2>5, <2>6, <2>7 DEF TypeOK
<1>5. Placement
  <2>1. ToSet(sleeping) = {} /\ IsInjective(sleeping)
    BY DEF Init, ToSet, IsInjective
  <2>2. \A l \in Levels : IsInjective(ready[l])
    BY DEF Init, IsInjective
  <2>3. ASSUME NEW p \in PCBs
        PROVE  /\ state[p] = "FREE" <=> p \in ToSet(free_pcbs)
               /\ state[p] = "SLEEPING" <=> p \in ToSet(sleeping)
               /\ state[p] = "RUNNING" <=> p = current
               /\ \A l \in Levels :
                    p \in ToSet(ready[l]) <=> state[p] = "READY" /\ prio[p] = l
    <3>1. CASE p < 4
      <4>1. p \in {0, 1, 2, 3}
        BY <3>1 DEF PCBs
      <4>2. p \notin ToSet(free_pcbs) /\ p \notin ToSet(sleeping)
        BY <3>1, <1>1, <2>1 DEF PCBs
      <4>3. state[p] = IF p = 0 THEN "RUNNING" ELSE "READY"
        BY <4>1, <3>1 DEF Init
      <4>4. /\ p = 1 => prio[p] = 3
            /\ p = 2 => prio[p] = 1
            /\ p = 3 => prio[p] = 2
        BY <4>1 DEF Init
      <4>5. current = 0
        BY DEF Init
      <4>6. \A l \in Levels :
              p \in ToSet(ready[l]) <=> state[p] = "READY" /\ prio[p] = l
        <5>1. CASE p = 0
          BY <5>1, <4>3, <1>3
        <5>2. CASE p = 1
          BY <5>2, <4>3, <4>4, <1>3
        <5>3. CASE p = 2
          BY <5>3, <4>3, <4>4, <1>3
        <5>4. CASE p = 3
          BY <5>4, <4>3, <4>4, <1>3
        <5> QED BY <4>1, <5>1, <5>2, <5>3, <5>4
      <4> QED BY <4>2, <4>3, <4>5, <4>6
    <3>2. CASE p >= 4
      BY <3>2, <1>1, <1>3, <2>1 DEF Init, PCBs
    <3> QED BY <3>1, <3>2 DEF PCBs
  <2> QED BY <1>1, <2>1, <2>2, <2>3 DEF Placement
<1>6. StackOwnership
  <2>1. \A p \in PCBs : stack[p] = IF p < 4 THEN p ELSE NULL
    BY DEF Init
  <2>2. \A s \in Stacks : s \in PCBs /\ s # NULL
    BY DEF Stacks, PCBs
  <2>3. \A p \in PCBs : p \in Live <=> stack[p] # NULL
    BY DEF Init, Live, PCBs, NULL
  <2>4. \A s \in Stacks :
          s \in ToSet(free_stacks) <=> \A p \in PCBs : stack[p] # s
    BY <1>2, <2>1, <2>2 DEF Stacks, PCBs
  <2> QED BY <1>2, <2>1, <2>3, <2>4 DEF StackOwnership
<1>7. Counts /\ QnodeCount
  BY <1>1, <1>2, <1>3 DEF Init, Counts, ActiveCount, QnodeCount, ReadyTotal
<1>8. IdleReady
  BY DEF Init, IdleReady, PCBs
<1> QED BY <1>4, <1>5, <1>6, <1>7, <1>8 DEF Inv

\* exit() gives back the PCB and the stack, and another process runs.
LEMMA ExitStep == Inv /\ Exit => Inv'
<1> SUFFICES ASSUME Inv, Exit PROVE Inv'
  OBVIOUS
<1> USE ConstantFacts
<1> DEFINE st == [state EXCEPT ![current] = "FREE"]
<1>1. /\ current \in PCBs /\ current # Idle
      /\ state \in [PCBs -> States] /\ prio \in [PCBs -> Levels]
      /\ stack \in [PCBs -> Stacks \cup {NULL}]
      /\ state[current] = "RUNNING"
  BY DEF Exit, UserMode, Inv, TypeOK, Placement
<1>2. Dispatched(st, prio') /\ ReadyTotal(ready') = ReadyTotal(ready) - 1
  <2>1. prio' = [prio EXCEPT ![current] = 0]
    BY DEF Exit, ClearFields
  <2>2. Prepared(ready, st, prio')
    BY <1>1, <2>1, AfterLeaving
  <2> QED BY <2>2, DispatchFacts DEF Exit
<1>3. /\ free_pcbs' \in Seq(PCBs) /\ Len(free_pcbs') = Len(free_pcbs) + 1
      /\ ToSet(free_pcbs') = ToSet(free_pcbs) \cup {current}
      /\ IsInjective(free_pcbs')
  <2>1. free_pcbs \in Seq(PCBs) /\ IsInjective(free_pcbs)
    BY DEF Inv, TypeOK, Placement
  <2>2. current \notin ToSet(free_pcbs)
    BY <1>1 DEF Inv, Placement
  <2> QED BY <1>1, <2>1, <2>2, AppendFacts DEF Exit
<1>4. stack[current] \in Stacks
  BY <1>1 DEF Inv, StackOwnership, Live
<1>5. /\ free_stacks' \in Seq(Stacks) /\ Len(free_stacks') = Len(free_stacks) + 1
      /\ ToSet(free_stacks') = ToSet(free_stacks) \cup {stack[current]}
      /\ IsInjective(free_stacks')
  <2>1. free_stacks \in Seq(Stacks) /\ IsInjective(free_stacks)
    BY DEF Inv, TypeOK, StackOwnership
  <2>2. stack[current] \notin ToSet(free_stacks)
    BY <1>1, <1>4 DEF Inv, StackOwnership
  <2>3. free_stacks' = Append(free_stacks, stack[current])
    BY <1>4 DEF Exit, StackDealloc
  <2> QED BY <1>4, <2>1, <2>2, <2>3, AppendFacts
<1>6. \A p \in PCBs : st[p] = IF p = current THEN "FREE" ELSE state[p]
  BY <1>1
<1>7. stack' = [stack EXCEPT ![current] = NULL] /\ UNCHANGED sleeping
  BY DEF Exit, ClearFields
<1> HIDE DEF st
<1>8. /\ Len(free_pcbs) \in Nat /\ Len(free_stacks) \in Nat
      /\ Len(sleeping) \in Nat /\ ReadyTotal(ready) \in Nat
      /\ system_active' = N_PCBS - Len(free_pcbs) - 1
      /\ Len(free_pcbs) = Len(free_stacks) + 1
      /\ Len(free_pcbs) + Len(sleeping) + ReadyTotal(ready) = N_PCBS - 1
  BY LengthsAreNat DEF Exit, Inv, Counts, ActiveCount, QnodeCount
<1>9. system_active' \in Nat
  BY <1>8
<1>10. TypeOK'
  <2>1. /\ prio' \in [PCBs -> Levels] /\ wakeup' \in [PCBs -> Times]
        /\ stack' \in [PCBs -> Stacks \cup {NULL}]
    BY <1>1, ModulusAssumption DEF Exit, ClearFields, Inv, TypeOK, Times
  <2>2. pid' \in [PCBs -> PidValues]
    BY <1>1, ZeroIsAPid DEF Exit, ClearFields, Inv, TypeOK
  <2>3. /\ quantum' \in 1..QUANTUM_DEFAULT /\ next_pid' \in 0..(N_PIDS - 1)
        /\ system_time' \in Times /\ isr' \in {"none", "wake"}
        /\ sleeping' \in Seq(PCBs)
    BY <1>2, QuantumAssumption DEF Dispatched, Exit, Inv, TypeOK
  <2>4. halted' \in BOOLEAN
    BY <1>2 DEF Dispatched
  <2> QED BY <1>2, <1>3, <1>5, <1>9, <2>1, <2>2, <2>3, <2>4 DEF TypeOK, Dispatched
<1>11. Placement'
  <2>1. ASSUME NEW p \in PCBs
        PROVE  /\ state'[p] = "FREE" <=> p \in ToSet(free_pcbs')
               /\ state'[p] = "SLEEPING" <=> p \in ToSet(sleeping')
               /\ state'[p] = "RUNNING" <=> p = current'
    <3>1. /\ state[p] = "FREE" <=> p \in ToSet(free_pcbs)
          /\ state[p] = "SLEEPING" <=> p \in ToSet(sleeping)
          /\ state[p] = "RUNNING" <=> p = current
      BY DEF Inv, Placement
    <3>2. /\ state'[p] = IF p = current' THEN "RUNNING" ELSE st[p]
          /\ st[current'] = "READY"
      BY <1>2 DEF Dispatched
    <3> QED BY <3>1, <3>2, <1>1, <1>3, <1>6, <1>7
  <2>2. IsInjective(sleeping')
    BY <1>7 DEF Inv, Placement
  <2> QED BY <1>2, <1>3, <2>1, <2>2 DEF Placement, Dispatched
<1>12. StackOwnership'
  <2>1. \A p \in PCBs : stack'[p] = IF p = current THEN NULL ELSE stack[p]
    BY <1>1, <1>7
  <2>2. \A p, q \in PCBs : stack[p] = stack[q] /\ stack[p] # NULL => p = q
    BY DEF Inv, StackOwnership
  <2>3. ASSUME NEW s \in Stacks
        PROVE  s \in ToSet(free_stacks') <=> \A p \in PCBs : stack'[p] # s
    <3>1. s \in ToSet(free_stacks) <=> \A p \in PCBs : stack[p] # s
      BY DEF Inv, StackOwnership
    <3>2. CASE s = stack[current]
      BY <3>2, <1>1, <1>4, <1>5, <2>1, <2>2
    <3>3. CASE s # stack[current]
      BY <3>1, <3>3, <1>1, <1>5, <2>1
    <3> QED BY <3>2, <3>3
  <2>4. ASSUME NEW p \in PCBs
        PROVE  state'[p] # "FREE" <=> stack'[p] # NULL
    <3>1. state[p] # "FREE" <=> stack[p] # NULL
      BY DEF Inv, StackOwnership, Live
    <3>2. /\ state'[p] = IF p = current' THEN "RUNNING" ELSE st[p]
          /\ st[current'] = "READY"
      BY <1>2 DEF Dispatched
    <3> QED BY <3>1, <3>2, <2>1, <1>1, <1>6
  <2> QED BY <1>5, <2>1, <2>2, <2>3, <2>4 DEF StackOwnership, Live
<1>13. Counts' /\ QnodeCount'
  BY <1>2, <1>3, <1>5, <1>7, <1>8 DEF Counts, ActiveCount, QnodeCount
<1>14. IdleReady'
  <2>1. state[Idle] = "READY" /\ prio'[Idle] = PRIO_USER_LOW
    BY <1>1 DEF Inv, IdleReady, Placement, Exit, ClearFields
  <2>2. st[Idle] = "READY"
    BY <2>1, <1>1, <1>6
  <2> QED BY <1>2, <2>1, <2>2 DEF IdleReady, Dispatched
<1> QED BY <1>10, <1>11, <1>12, <1>13, <1>14 DEF Inv

\* Yielding and preemption: the current process is put back and dispatched.
LEMMA RescheduleStep ==
  ASSUME Inv,
         Dispatch(Enqueue(ready, current, prio[current]),
                  [state EXCEPT ![current] = "READY"]),
         prio' = [prio EXCEPT ![current] = LegalPrio(prio[current])],
         UNCHANGED <<pools, sleeping, pid, wakeup, stack, next_pid,
                     system_active, system_time>>,
         isr' \in {"none", "wake"}
  PROVE  Inv'
<1> USE ConstantFacts
<1> DEFINE st == [state EXCEPT ![current] = "READY"]
<1>1. /\ current \in PCBs /\ state \in [PCBs -> States]
      /\ state[current] = "RUNNING"
  BY DEF Inv, TypeOK, Placement
<1>2. /\ Dispatched(st, prio)
      /\ ReadyTotal(ready')
           = ReadyTotal(Enqueue(ready, current, prio[current])) - 1
  <2>1. Prepared(Enqueue(ready, current, prio[current]), st, prio)
    BY AfterPreempting
  <2> QED BY <2>1, DispatchFacts
<1>3. prio' = prio /\ ReadyTotal(ready') = ReadyTotal(ready)
  BY <1>2, AfterPreempting, LengthsAreNat
<1>4. \A p \in PCBs : st[p] = IF p = current THEN "READY" ELSE state[p]
  BY <1>1
<1> HIDE DEF st
<1>5. /\ free_pcbs' = free_pcbs /\ free_stacks' = free_stacks
      /\ sleeping' = sleeping /\ pid' = pid /\ wakeup' = wakeup /\ stack' = stack
      /\ next_pid' = next_pid /\ system_active' = system_active
      /\ system_time' = system_time
  BY DEF pools
<1>6. ASSUME NEW p \in PCBs
      PROVE  /\ state'[p] = "FREE" <=> state[p] = "FREE"
             /\ state'[p] = "SLEEPING" <=> state[p] = "SLEEPING"
             /\ state'[p] = "RUNNING" <=> p = current'
  <2>1. /\ state'[p] = IF p = current' THEN "RUNNING" ELSE st[p]
        /\ st[current'] = "READY" /\ current' \in PCBs
    BY <1>2 DEF Dispatched
  <2>2. state[p] = "RUNNING" <=> p = current
    BY DEF Inv, Placement
  <2>3. CASE p = current'
    BY <2>1, <2>2, <2>3, <1>1, <1>4
  <2>4. CASE p # current'
    BY <2>1, <2>2, <2>4, <1>1, <1>4
  <2> QED BY <2>3, <2>4
<1>7. TypeOK'
  <2>1. quantum' \in 1..QUANTUM_DEFAULT
    BY <1>2, QuantumAssumption DEF Dispatched
  <2>2. halted' \in BOOLEAN
    BY <1>2 DEF Dispatched
  <2>3. /\ ready' \in [Levels -> Seq(PCBs)] /\ state' \in [PCBs -> States]
        /\ current' \in PCBs
    BY <1>2 DEF Dispatched
  <2>4. /\ free_pcbs \in Seq(PCBs) /\ free_stacks \in Seq(Stacks)
        /\ sleeping \in Seq(PCBs) /\ prio \in [PCBs -> Levels]
        /\ pid \in [PCBs -> PidValues] /\ wakeup \in [PCBs -> Times]
        /\ stack \in [PCBs -> Stacks \cup {NULL}]
        /\ next_pid \in 0..(N_PIDS - 1) /\ system_active \in Nat
        /\ system_time \in Times
    BY DEF Inv, TypeOK
  <2> QED BY <1>3, <1>5, <2>1, <2>2, <2>3, <2>4 DEF TypeOK
<1>8. Placement'
  BY <1>2, <1>3, <1>5, <1>6 DEF Inv, Placement, Dispatched
<1>9. StackOwnership'
  BY <1>5, <1>6 DEF Inv, StackOwnership, Live
<1>10. Counts' /\ QnodeCount'
  BY <1>3, <1>5 DEF Inv, Counts, ActiveCount, QnodeCount
<1>11. IdleReady'
  <2>1. st[Idle] = "READY"
    BY <1>1, <1>4 DEF Inv, IdleReady, Placement
  <2> QED BY <1>2, <1>3, <2>1 DEF Inv, IdleReady, Dispatched
<1> QED BY <1>7, <1>8, <1>9, <1>10, <1>11 DEF Inv

\* sleep(0) reschedules the caller.
LEMMA YieldStep == Inv /\ Yield => Inv'
<1> SUFFICES ASSUME Inv, Yield PROVE Inv'
  OBVIOUS
<1>1. isr' \in {"none", "wake"}
  BY DEF Yield, Inv, TypeOK
<1> QED BY <1>1, RescheduleStep DEF Yield

\* The end of the clock interrupt, with and without preemption.
LEMMA ClockQuantumStep == Inv /\ ClockQuantum => Inv'
<1> SUFFICES ASSUME Inv, ClockQuantum PROVE Inv'
  OBVIOUS
<1> DEFINE left == (quantum - 1) % 256
<1>1. CASE left < 1
  <2>1. isr' \in {"none", "wake"}
    BY DEF ClockQuantum
  <2> QED BY <1>1, <2>1, RescheduleStep DEF ClockQuantum
<1>2. CASE ~(left < 1)
  <2>1. quantum \in 1..QUANTUM_DEFAULT
    BY DEF Inv, TypeOK
  <2>2. left \in 1..QUANTUM_DEFAULT
    BY <1>2, <2>1, QuantumAssumption
  <2>3. /\ quantum' = left /\ isr' = "none"
        /\ UNCHANGED <<free_pcbs, free_stacks, ready, sleeping, current, state,
                       prio, pid, wakeup, stack, next_pid, system_active,
                       system_time, halted>>
    BY <1>2 DEF ClockQuantum, pools
  <2> HIDE DEF left
  <2>4. TypeOK'
    BY <2>2, <2>3 DEF Inv, TypeOK
  <2>5. Placement'
    BY <2>3 DEF Inv, Placement
  <2>6. StackOwnership'
    BY <2>3 DEF Inv, StackOwnership, Live
  <2>7. Counts' /\ QnodeCount' /\ IdleReady'
    BY <2>3 DEF Inv, Counts, ActiveCount, QnodeCount, IdleReady, ReadyTotal
  <2> QED BY <2>4, <2>5, <2>6, <2>7 DEF Inv
<1> QED BY <1>1, <1>2

\* The beginning of the clock interrupt moves no process.
LEMMA ClockTickStep == Inv /\ ClockTick => Inv'
<1> SUFFICES ASSUME Inv, ClockTick PROVE Inv'
  OBVIOUS
<1>1. /\ isr' = "wake"
      /\ UNCHANGED <<free_pcbs, free_stacks, ready, sleeping, current, state,
                     prio, pid, wakeup, stack, quantum, next_pid, system_active,
                     halted>>
  BY DEF ClockTick, pools, queues, fields
<1>2. system_time' \in Times
  BY ModulusAssumption DEF ClockTick, Inv, TypeOK, Times
<1>3. TypeOK'
  BY <1>1, <1>2 DEF Inv, TypeOK
<1>4. Placement'
  BY <1>1 DEF Inv, Placement
<1>5. StackOwnership'
  BY <1>1 DEF Inv, StackOwnership, Live
<1>6. Counts' /\ QnodeCount' /\ IdleReady'
  BY <1>1 DEF Inv, Counts, ActiveCount, QnodeCount, IdleReady, ReadyTotal
<1> QED BY <1>3, <1>4, <1>5, <1>6 DEF Inv

\* The caller of sleep() goes to the sleep queue, and another process runs.
LEMMA SleepStep ==
  ASSUME Inv, NEW t \in SleepTimes, Sleep(t)
  PROVE  Inv'
<1> USE ConstantFacts
<1> DEFINE st == [state EXCEPT ![current] = "SLEEPING"]
           key == (system_time + t) % N_TIMES
<1>1. /\ current \in PCBs /\ current # Idle
      /\ state \in [PCBs -> States] /\ prio \in [PCBs -> Levels]
      /\ state[current] = "RUNNING"
  BY DEF Sleep, UserMode, Inv, TypeOK, Placement
<1>2. Dispatched(st, prio) /\ ReadyTotal(ready') = ReadyTotal(ready) - 1
  <2>1. prio = [prio EXCEPT ![current] = prio[current]] /\ prio[current] \in Levels
    BY <1>1
  <2>2. Prepared(ready, st, prio)
    BY <1>1, <2>1, AfterLeaving
  <2> QED BY <2>2, DispatchFacts DEF Sleep
<1>3. /\ sleeping' \in Seq(PCBs) /\ Len(sleeping') = Len(sleeping) + 1
      /\ ToSet(sleeping') = ToSet(sleeping) \cup {current}
      /\ IsInjective(sleeping')
  <2>1. PICK i \in 1..(Len(sleeping) + 1) : sleeping' = InsertAt(sleeping, i, current)
    BY DEF Sleep
  <2>2. sleeping \in Seq(PCBs) /\ IsInjective(sleeping)
    BY DEF Inv, TypeOK, Placement
  <2>3. current \notin ToSet(sleeping)
    BY <1>1 DEF Inv, Placement
  <2> QED BY <1>1, <2>1, <2>2, <2>3, InsertFacts
<1>4. \A p \in PCBs : st[p] = IF p = current THEN "SLEEPING" ELSE state[p]
  BY <1>1
<1> HIDE DEF st
<1>5. /\ free_pcbs' = free_pcbs /\ free_stacks' = free_stacks
      /\ prio' = prio /\ pid' = pid /\ stack' = stack
      /\ next_pid' = next_pid /\ system_active' = system_active
      /\ system_time' = system_time /\ isr' = isr
      /\ wakeup' = [wakeup EXCEPT ![current] = key]
  BY DEF Sleep, pools
<1>6. key \in Times
  BY ModulusAssumption, InputAssumption DEF Inv, TypeOK, Times
<1> HIDE DEF key
<1>7. ASSUME NEW p \in PCBs
      PROVE  /\ state'[p] = "FREE" <=> state[p] = "FREE"
             /\ state'[p] = "SLEEPING" <=> p \in ToSet(sleeping')
             /\ state'[p] = "RUNNING" <=> p = current'
  <2>1. /\ state'[p] = IF p = current' THEN "RUNNING" ELSE st[p]
        /\ st[current'] = "READY" /\ current' \in PCBs
    BY <1>2 DEF Dispatched
  <2>2. /\ state[p] = "RUNNING" <=> p = current
        /\ state[p] = "SLEEPING" <=> p \in ToSet(sleeping)
    BY DEF Inv, Placement
  <2>3. CASE p = current'
    BY <2>1, <2>2, <2>3, <1>1, <1>3, <1>4
  <2>4. CASE p # current'
    BY <2>1, <2>2, <2>4, <1>1, <1>3, <1>4
  <2> QED BY <2>3, <2>4
<1>8. TypeOK'
  <2>1. quantum' \in 1..QUANTUM_DEFAULT
    BY <1>2, QuantumAssumption DEF Dispatched
  <2>2. halted' \in BOOLEAN
    BY <1>2 DEF Dispatched
  <2>3. /\ ready' \in [Levels -> Seq(PCBs)] /\ state' \in [PCBs -> States]
        /\ current' \in PCBs
    BY <1>2 DEF Dispatched
  <2>4. /\ free_pcbs \in Seq(PCBs) /\ free_stacks \in Seq(Stacks)
        /\ prio \in [PCBs -> Levels] /\ pid \in [PCBs -> PidValues]
        /\ wakeup \in [PCBs -> Times]
        /\ stack \in [PCBs -> Stacks \cup {NULL}]
        /\ next_pid \in 0..(N_PIDS - 1) /\ system_active \in Nat
        /\ system_time \in Times /\ isr \in {"none", "wake"}
    BY DEF Inv, TypeOK
  <2>5. wakeup' \in [PCBs -> Times]
    BY <1>5, <1>6, <2>4
  <2> QED BY <1>3, <1>5, <2>1, <2>2, <2>3, <2>4, <2>5 DEF TypeOK
<1>9. Placement'
  <2>1. \A p \in PCBs : state'[p] = "FREE" <=> p \in ToSet(free_pcbs')
    BY <1>5, <1>7 DEF Inv, Placement
  <2>2. IsInjective(free_pcbs')
    BY <1>5 DEF Inv, Placement
  <2> QED BY <1>2, <1>3, <1>5, <1>7, <2>1, <2>2 DEF Placement, Dispatched
<1>10. StackOwnership'
  BY <1>5, <1>7 DEF Inv, StackOwnership, Live
<1>11. Counts' /\ QnodeCount'
  BY <1>2, <1>3, <1>5, LengthsAreNat DEF Inv, Counts, ActiveCount, QnodeCount
<1>12. IdleReady'
  <2>1. st[Idle] = "READY"
    BY <1>1, <1>4 DEF Inv, IdleReady, Placement
  <2> QED BY <1>2, <1>5, <2>1 DEF Inv, IdleReady, Dispatched
<1> QED BY <1>8, <1>9, <1>10, <1>11, <1>12 DEF Inv

\* A sleeper that is due goes to its ready queue.
LEMMA ClockWakeStep == Inv /\ ClockWake => Inv'
<1> SUFFICES ASSUME Inv, ClockWake PROVE Inv'
  OBVIOUS
<1> USE ConstantFacts
<1> DEFINE p == Head(sleeping)
<1>1. /\ p \in PCBs /\ p \in ToSet(sleeping)
      /\ sleeping' \in Seq(PCBs) /\ Len(sleeping') = Len(sleeping) - 1
      /\ ToSet(sleeping') = ToSet(sleeping) \ {p}
      /\ IsInjective(sleeping')
  <2>1. sleeping \in Seq(PCBs) /\ sleeping # <<>> /\ IsInjective(sleeping)
    BY DEF Inv, TypeOK, Placement, ClockWake, HeadIsDue
  <2> QED BY <2>1, TailFacts DEF ClockWake
<1>2. /\ sleeping' = Tail(sleeping)
      /\ ready' = Enqueue(ready, p, prio[p])
      /\ prio' = [prio EXCEPT ![p] = LegalPrio(prio[p])]
      /\ state' = [state EXCEPT ![p] = "READY"]
      /\ UNCHANGED <<free_pcbs, free_stacks, current, pid, wakeup, stack, quantum,
                     next_pid, system_active, system_time, isr, halted>>
  BY DEF ClockWake, pools
<1> HIDE DEF p
<1>3. /\ state[p] = "SLEEPING" /\ state \in [PCBs -> States]
      /\ prio \in [PCBs -> Levels] /\ prio[p] \in Levels /\ prio[p] \in Nat
  BY <1>1, SMTT(40) DEF Inv, TypeOK, Placement, Levels, N_PRIOS
<1>4. prio' = prio /\ LegalPrio(prio[p]) = prio[p]
  BY <1>1, <1>2, <1>3 DEF LegalPrio, Levels, N_PRIOS
<1>5. /\ ready \in [Levels -> Seq(PCBs)]
      /\ \A l \in Levels : IsInjective(ready[l]) /\ p \notin ToSet(ready[l])
  BY <1>1, <1>3 DEF Inv, TypeOK, Placement
<1>6. ready' \in [Levels -> Seq(PCBs)] /\ \A l \in Levels : IsInjective(ready'[l])
  BY <1>1, <1>2, <1>3, <1>5, EnqueueFacts
<1>7. ToSet(ready'[prio[p]]) = ToSet(ready[prio[p]]) \cup {p}
  <2>1. ready'[prio[p]] = Append(ready[prio[p]], p)
    BY <1>2, <1>3, <1>4, <1>5 DEF Enqueue
  <2>2. ready[prio[p]] \in Seq(PCBs)
    BY <1>3, <1>5
  <2> QED BY <2>1, <2>2, <1>1, AppendFacts
<1>8. \A l \in Levels \ {prio[p]} : ready'[l] = ready[l]
  BY <1>2, <1>4, <1>5 DEF Enqueue
<1>9. ReadyTotal(ready') = ReadyTotal(ready) + 1
  BY <1>1, <1>2, <1>3, <1>5, EnqueueFacts
<1>10. TypeOK'
  <2>1. state' \in [PCBs -> States]
    BY <1>1, <1>2, <1>3 DEF States
  <2> QED BY <1>1, <1>2, <1>4, <1>6, <2>1 DEF Inv, TypeOK
<1>11. ASSUME NEW q \in PCBs
       PROVE  /\ state'[q] = "FREE" <=> q \in ToSet(free_pcbs')
              /\ state'[q] = "SLEEPING" <=> q \in ToSet(sleeping')
              /\ state'[q] = "RUNNING" <=> q = current'
              /\ \A l \in Levels :
                   q \in ToSet(ready'[l]) <=> state'[q] = "READY" /\ prio'[q] = l
  <2>1. /\ state[q] = "FREE" <=> q \in ToSet(free_pcbs)
        /\ state[q] = "SLEEPING" <=> q \in ToSet(sleeping)
        /\ state[q] = "RUNNING" <=> q = current
        /\ \A l \in Levels :
             q \in ToSet(ready[l]) <=> state[q] = "READY" /\ prio[q] = l
    BY DEF Inv, Placement
  <2>2. state'[q] = IF q = p THEN "READY" ELSE state[q]
    BY <1>1, <1>2, <1>3
  <2>3. CASE q = p
    BY <2>1, <2>2, <2>3, <1>1, <1>2, <1>3, <1>4, <1>7, <1>8, SMTT(40)
  <2>4. CASE q # p
    BY <2>1, <2>2, <2>4, <1>1, <1>2, <1>4, <1>7, <1>8
  <2> QED BY <2>3, <2>4
<1>12. Placement'
  <2>1. IsInjective(free_pcbs')
    BY <1>2 DEF Inv, Placement
  <2> QED BY <1>1, <1>6, <1>11, <2>1 DEF Placement
<1>13. StackOwnership'
  <2>1. \A q \in PCBs : state'[q] = "FREE" <=> state[q] = "FREE"
    BY <1>1, <1>2, <1>3
  <2> QED BY <1>2, <2>1 DEF Inv, StackOwnership, Live
<1>14. Counts' /\ QnodeCount'
  BY <1>1, <1>2, <1>9, LengthsAreNat DEF Inv, Counts, ActiveCount, QnodeCount
<1>15. IdleReady'
  BY <1>1, <1>2, <1>3, <1>4 DEF Inv, IdleReady
<1> QED BY <1>10, <1>12, <1>13, <1>14, <1>15 DEF Inv

\* A new process takes a PCB and a stack that nothing else has; a creation
\* that fails gives the PCB back.
LEMMA SpawnStep ==
  ASSUME Inv, NEW pr \in SpawnPrios, Spawn(pr)
  PROVE  Inv'
<1> USE ConstantFacts
<1> DEFINE new == Head(free_pcbs)
           s == Head(free_stacks)
           given == pr % 256
\* The PCBs never run out, so _pcb_alloc never counts one it did not give.
<1>1. free_pcbs # <<>> /\ free_pcbs \in Seq(PCBs) /\ IsInjective(free_pcbs)
  <2>1. Len(free_pcbs) = Len(free_stacks) + 1 /\ Len(free_stacks) \in Nat
    BY LengthsAreNat DEF Inv, Counts, ActiveCount
  <2> QED BY <2>1, EmptySeq DEF Inv, TypeOK, Placement
<1>2. /\ new \in PCBs /\ new \in ToSet(free_pcbs)
      /\ Tail(free_pcbs) \in Seq(PCBs) /\ Len(Tail(free_pcbs)) = Len(free_pcbs) - 1
      /\ ToSet(Tail(free_pcbs)) = ToSet(free_pcbs) \ {new}
      /\ IsInjective(Tail(free_pcbs))
  BY <1>1, TailFacts
<1>3. UNCHANGED <<sleeping, current, quantum, system_time, isr, halted>>
  BY DEF Spawn
<1>4. CASE free_stacks = <<>>
  <2>1. /\ free_pcbs' = Append(Tail(free_pcbs), new)
        /\ UNCHANGED <<free_stacks, state, prio, pid, wakeup, stack, ready,
                       next_pid, system_active>>
    BY <1>1, <1>4 DEF Spawn, CreateProcess
  <2> HIDE DEF new
  <2>2. /\ free_pcbs' \in Seq(PCBs) /\ Len(free_pcbs') = Len(free_pcbs)
        /\ ToSet(free_pcbs') = ToSet(free_pcbs)
        /\ IsInjective(free_pcbs')
    <3> DEFINE rest == Tail(free_pcbs)
    <3>1. /\ rest \in Seq(PCBs) /\ IsInjective(rest) /\ new \in PCBs
          /\ new \notin ToSet(rest) /\ ToSet(rest) \cup {new} = ToSet(free_pcbs)
      BY <1>2 DEF new
    <3>2. Len(free_pcbs) \in Nat /\ Len(rest) + 1 = Len(free_pcbs)
      BY <1>1, <1>2, LenProperties
    <3>3. free_pcbs' = Append(rest, new)
      BY <2>1
    <3> HIDE DEF rest
    <3>4. /\ Append(rest, new) \in Seq(PCBs)
          /\ Len(Append(rest, new)) = Len(rest) + 1
          /\ ToSet(Append(rest, new)) = ToSet(rest) \cup {new}
          /\ IsInjective(Append(rest, new))
      BY <3>1, AppendFacts
    <3> QED BY <3>1, <3>2, <3>3, <3>4
  <2>3. TypeOK'
    BY <1>3, <2>1, <2>2 DEF Inv, TypeOK
  <2>4. Placement'
    BY <1>3, <2>1, <2>2 DEF Inv, Placement
  <2>5. StackOwnership'
    BY <2>1 DEF Inv, StackOwnership, Live
  <2>6. Counts' /\ QnodeCount' /\ IdleReady'
    BY <1>3, <2>1, <2>2 DEF Inv, Counts, ActiveCount, QnodeCount, IdleReady, ReadyTotal
  <2> QED BY <2>3, <2>4, <2>5, <2>6 DEF Inv
<1>5. CASE free_stacks # <<>>
  <2>1. /\ free_pcbs' = Tail(free_pcbs)
        /\ free_stacks' = Tail(free_stacks)
        /\ system_active' = system_active + 1
        /\ stack' = [stack EXCEPT ![new] = s]
        /\ pid' = [pid EXCEPT ![new] = ToInt16(next_pid)]
        /\ next_pid' = (next_pid + 1) % N_PIDS
        /\ prio' = [prio EXCEPT ![new] = LegalPrio(given)]
        /\ wakeup' = [wakeup EXCEPT ![new] = 0]
        /\ state' = [state EXCEPT ![new] = "READY"]
        /\ ready' = Enqueue(ready, new, given)
    BY <1>1, <1>5 DEF Spawn, CreateProcess
  <2>2. /\ s \in Stacks /\ s \in ToSet(free_stacks)
        /\ free_stacks' \in Seq(Stacks) /\ Len(free_stacks') = Len(free_stacks) - 1
        /\ ToSet(free_stacks') = ToSet(free_stacks) \ {s}
        /\ IsInjective(free_stacks')
    <3>1. free_stacks \in Seq(Stacks) /\ IsInjective(free_stacks)
      BY DEF Inv, TypeOK, StackOwnership
    <3> QED BY <1>5, <2>1, <3>1, TailFacts
  <2>3. given \in Nat /\ LegalPrio(given) \in Levels
    BY InputAssumption DEF LegalPrio, Levels, N_PRIOS, PRIO_USER_LOW
  <2> HIDE DEF new, s, given
  <2>4. /\ state[new] = "FREE" /\ new # current /\ new # Idle
        /\ state \in [PCBs -> States] /\ prio \in [PCBs -> Levels]
        /\ stack \in [PCBs -> Stacks \cup {NULL}]
    BY <1>2 DEF Inv, Placement, TypeOK, IdleReady
  <2>5. /\ ready \in [Levels -> Seq(PCBs)]
        /\ \A l \in Levels : IsInjective(ready[l]) /\ new \notin ToSet(ready[l])
    BY <1>2, <2>4 DEF Inv, TypeOK, Placement
  <2>6. ready' \in [Levels -> Seq(PCBs)] /\ \A l \in Levels : IsInjective(ready'[l])
    BY <1>2, <2>1, <2>3, <2>5, EnqueueFacts
  <2>7. ToSet(ready'[LegalPrio(given)]) = ToSet(ready[LegalPrio(given)]) \cup {new}
    <3> DEFINE m == LegalPrio(given)
    <3>1. ready'[m] = Append(ready[m], new)
      BY <2>1, <2>3, <2>5 DEF Enqueue
    <3>2. ready[m] \in Seq(PCBs)
      BY <2>3, <2>5
    <3> QED BY <3>1, <3>2, <1>2, AppendFacts
  <2>8. \A l \in Levels \ {LegalPrio(given)} : ready'[l] = ready[l]
    BY <2>1, <2>5 DEF Enqueue
  <2>9. ReadyTotal(ready') = ReadyTotal(ready) + 1
    <3> HIDE ConstantFacts
    <3>1. ReadyTotal(Enqueue(ready, new, given)) = ReadyTotal(ready) + 1
      BY <1>2, <2>3, <2>5, EnqueueFacts
    <3> QED BY <3>1, <2>1
  <2>10. TypeOK'
    <3>1. state' \in [PCBs -> States] /\ prio' \in [PCBs -> Levels]
      BY <1>2, <2>1, <2>3, <2>4 DEF States
    <3>2. pid' \in [PCBs -> PidValues] /\ next_pid' \in 0..(N_PIDS - 1)
      <4>1. next_pid \in 0..(N_PIDS - 1) /\ pid \in [PCBs -> PidValues]
        BY DEF Inv, TypeOK
      <4>2. ToInt16(next_pid) \in PidValues
        BY <4>1 DEF PidValues
      <4> QED BY <4>1, <4>2, <1>2, <2>1, ModulusAssumption
    <3>3. wakeup' \in [PCBs -> Times] /\ stack' \in [PCBs -> Stacks \cup {NULL}]
      <4>1. wakeup \in [PCBs -> Times] /\ 0 \in Times
        BY ModulusAssumption DEF Inv, TypeOK, Times
      <4>2. wakeup' \in [PCBs -> Times]
        BY <4>1, <1>2, <2>1
      <4>3. stack' \in [PCBs -> Stacks \cup {NULL}]
        BY <1>2, <2>1, <2>2, <2>4
      <4> QED BY <4>2, <4>3
    <3>4. system_active' \in Nat
      BY <2>1 DEF Inv, TypeOK
    <3> QED BY <1>2, <1>3, <2>1, <2>2, <2>6, <3>1, <3>2, <3>3, <3>4 DEF Inv, TypeOK
  <2>11. ASSUME NEW q \in PCBs
         PROVE  /\ state'[q] = "FREE" <=> q \in ToSet(free_pcbs')
                /\ state'[q] = "SLEEPING" <=> q \in ToSet(sleeping')
                /\ state'[q] = "RUNNING" <=> q = current'
                /\ \A l \in Levels :
                     q \in ToSet(ready'[l]) <=> state'[q] = "READY" /\ prio'[q] = l
    <3>1. /\ state[q] = "FREE" <=> q \in ToSet(free_pcbs)
          /\ state[q] = "SLEEPING" <=> q \in ToSet(sleeping)
          /\ state[q] = "RUNNING" <=> q = current
          /\ \A l \in Levels :
               q \in ToSet(ready[l]) <=> state[q] = "READY" /\ prio[q] = l
      BY DEF Inv, Placement
    <3>2. /\ state'[q] = IF q = new THEN "READY" ELSE state[q]
          /\ prio'[q] = IF q = new THEN LegalPrio(given) ELSE prio[q]
      BY <1>2, <2>1, <2>4
    <3>3. CASE q = new
      BY <3>1, <3>2, <3>3, <1>2, <1>3, <2>1, <2>3, <2>4, <2>7, <2>8
    <3>4. CASE q # new
      BY <3>1, <3>2, <3>4, <1>2, <1>3, <2>1, <2>3, <2>7, <2>8, SMTT(40)
    <3> QED BY <3>3, <3>4
  <2>12. Placement'
    <3>1. IsInjective(sleeping')
      BY <1>3 DEF Inv, Placement
    <3> QED BY <1>2, <2>1, <2>6, <2>11, <3>1 DEF Placement
  <2>13. StackOwnership'
    <3>1. \A q \in PCBs : stack'[q] = IF q = new THEN s ELSE stack[q]
      BY <1>2, <2>1, <2>4
    <3>2. \A q \in PCBs : stack[q] # s
      BY <2>2 DEF Inv, StackOwnership
    <3>3. stack[new] = NULL
      BY <1>2, <2>4 DEF Inv, StackOwnership, Live
    <3>4. ASSUME NEW x \in Stacks
          PROVE  x \in ToSet(free_stacks') <=> \A q \in PCBs : stack'[q] # x
      <4>1. x \in ToSet(free_stacks) <=> \A q \in PCBs : stack[q] # x
        BY DEF Inv, StackOwnership
      <4>2. CASE x = s
        BY <4>2, <1>2, <2>2, <3>1
      <4>3. CASE x # s
        BY <4>1, <4>3, <2>2, <3>1, <3>3
      <4> QED BY <4>2, <4>3
    <3>5. \A q \in PCBs : state'[q] # "FREE" <=> stack'[q] # NULL
      BY <1>2, <2>1, <2>2, <2>4, <3>1 DEF Inv, StackOwnership, Live
    <3>6. \A p, q \in PCBs : stack'[p] = stack'[q] /\ stack'[p] # NULL => p = q
      BY <3>1, <3>2 DEF Inv, StackOwnership
    <3> QED BY <2>2, <3>4, <3>5, <3>6 DEF StackOwnership, Live
  <2>14. Counts' /\ QnodeCount'
    <3>1. /\ Len(free_pcbs) \in Nat /\ Len(free_stacks) \in Nat
          /\ Len(sleeping) \in Nat /\ ReadyTotal(ready) \in Nat
          /\ system_active = N_PCBS - Len(free_pcbs)
          /\ Len(free_pcbs) = Len(free_stacks) + 1
          /\ Len(free_pcbs) + Len(sleeping) + ReadyTotal(ready) = N_PCBS - 1
      BY LengthsAreNat DEF Inv, Counts, ActiveCount, QnodeCount
    <3>2. /\ Len(free_pcbs') = Len(free_pcbs) - 1
          /\ Len(free_stacks') = Len(free_stacks) - 1
          /\ sleeping' = sleeping /\ system_active' = system_active + 1
          /\ ReadyTotal(ready') = ReadyTotal(ready) + 1
      BY <1>2, <1>3, <2>1, <2>2, <2>9
    <3> QED BY <3>1, <3>2 DEF Counts, ActiveCount, QnodeCount
  <2>15. IdleReady'
    BY <1>3, <2>1, <2>4 DEF Inv, IdleReady
  <2> QED BY <2>10, <2>12, <2>13, <2>14, <2>15 DEF Inv
<1> QED BY <1>4, <1>5

\* A step that changes nothing.
LEMMA StutterStep == Inv /\ UNCHANGED vars => Inv'
<1> SUFFICES ASSUME Inv, UNCHANGED vars PROVE Inv'
  OBVIOUS
<1> USE DEF vars, pools, queues, fields
<1>1. TypeOK' /\ Placement'
  BY DEF Inv, TypeOK, Placement
<1>2. StackOwnership' /\ Counts' /\ QnodeCount' /\ IdleReady'
  BY DEF Inv, StackOwnership, Live, Counts, ActiveCount, QnodeCount, IdleReady, ReadyTotal
<1> QED BY <1>1, <1>2 DEF Inv

\* The invariant is inductive.
LEMMA NextInv == Inv /\ [Next]_vars => Inv'
<1> SUFFICES ASSUME Inv, [Next]_vars PROVE Inv'
  OBVIOUS
<1>1. CASE Exit
  BY <1>1, ExitStep
<1>2. ASSUME NEW pr \in SpawnPrios, Spawn(pr) PROVE Inv'
  BY <1>2, SpawnStep
<1>3. CASE Yield
  BY <1>3, YieldStep
<1>4. ASSUME NEW t \in SleepTimes, Sleep(t) PROVE Inv'
  BY <1>4, SleepStep
<1>5. CASE ClockTick
  BY <1>5, ClockTickStep
<1>6. CASE ClockWake
  BY <1>6, ClockWakeStep
<1>7. CASE ClockQuantum
  BY <1>7, ClockQuantumStep
<1>8. CASE UNCHANGED vars
  BY <1>8, StutterStep
<1> QED BY <1>1, <1>2, <1>3, <1>4, <1>5, <1>6, <1>7, <1>8 DEF Next

\* The invariant holds in every reachable state.
THEOREM InvHolds == Spec => []Inv
BY InitInv, NextInv, PTL DEF Spec

-----------------------------------------------------------------------------
(* What follows from it.                                                   *)

\* Every variable keeps its type: no list ever holds a value that is not a
\* PCB or a stack, no counter leaves its range.
THEOREM TypeCorrect == Spec => []TypeOK
<1>1. Inv => TypeOK
  BY DEF Inv
<1> QED BY <1>1, InvHolds, PTL

\* Every PCB is in exactly one place, the one its state names.
THEOREM PlacementHolds == Spec => []Placement
<1>1. Inv => Placement
  BY DEF Inv
<1> QED BY <1>1, InvHolds, PTL

\* No two processes share a stack, and no stack is lost.
THEOREM StackOwnershipHolds == Spec => []StackOwnership
<1>1. Inv => StackOwnership
  BY DEF Inv
<1> QED BY <1>1, InvHolds, PTL

\* _system_active counts the allocated PCBs, and one is always free.
THEOREM ActiveCountHolds == Spec => []ActiveCount
<1>1. Inv => ActiveCount
  BY DEF Inv, Counts
<1> QED BY <1>1, InvHolds, PTL

\* The pool of queue nodes never runs out.
THEOREM QnodesSufficeHolds == Spec => []QnodesSuffice
<1>1. Inv => QnodesSuffice
  <2>1. SUFFICES ASSUME Inv PROVE QnodesSuffice
    OBVIOUS
  <2>2. /\ Len(free_pcbs) = Len(free_stacks) + 1
        /\ Len(free_pcbs) + Len(sleeping) + ReadyTotal(ready) = N_PCBS - 1
    BY <2>1 DEF Inv, Counts, ActiveCount, QnodeCount
  <2>3. /\ Len(free_pcbs) \in Nat /\ Len(free_stacks) \in Nat
        /\ Len(sleeping) \in Nat /\ ReadyTotal(ready) \in Nat
    BY <2>1, LengthsAreNat
  <2> QED BY <2>2, <2>3, ConstantFacts
          DEF QnodesSuffice, QnodesInUse, N_QNODES, N_QUEUES, UnusedQueues
<1> QED BY <1>1, InvHolds, PTL

\* _dispatch always finds a process: the kernel never panics.
THEOREM NoPanicHolds == Spec => []NoPanic
<1>1. Inv => NoPanic
  BY ConstantFacts DEF Inv, IdleReady, Placement, NoPanic
<1> QED BY <1>1, InvHolds, PTL

-----------------------------------------------------------------------------
(* What the kernel does in a step.                                         *)

\* _dispatch chooses the head of a queue behind which no queue of a higher
\* priority holds anybody, so no process that is ready has a higher priority.
LEMMA DispatchChoosesBest ==
  ASSUME NEW rdy, NEW st, NEW pr, Prepared(rdy, st, pr), Dispatch(rdy, st)
  PROVE  /\ current' \in PCBs
         /\ st[current'] = "READY"
         /\ \A q \in PCBs : st[q] = "READY" => pr[current'] <= pr[q]
         /\ state' = [st EXCEPT ![current'] = "RUNNING"]
<1> USE DEF Levels, N_PRIOS
<1>1. Dispatched(st, pr)
  BY DispatchFacts
<1>2. PICK l \in Levels :
        /\ rdy[l] # <<>>
        /\ \A k \in 0..(l - 1) : rdy[k] = <<>>
        /\ current' = Head(rdy[l])
        /\ state' = [st EXCEPT ![Head(rdy[l])] = "RUNNING"]
  BY <1>1 DEF Dispatch, Dispatched
<1>3. pr[current'] = l
  <2>1. rdy[l] \in Seq(PCBs)
    BY DEF Prepared
  <2>2. Head(rdy[l]) \in ToSet(rdy[l])
    BY <1>2, <2>1, TailFacts
  <2> QED BY <1>1, <1>2, <2>2 DEF Prepared, Dispatched
<1>4. ASSUME NEW q \in PCBs, st[q] = "READY"
      PROVE  l <= pr[q]
  <2>1. pr[q] \in Levels /\ q \in ToSet(rdy[pr[q]])
    BY <1>4 DEF Prepared
  <2>2. rdy[pr[q]] # <<>>
    <3>1. SUFFICES ASSUME rdy[pr[q]] = <<>> PROVE FALSE
      OBVIOUS
    <3>2. DOMAIN rdy[pr[q]] = {}
      BY <3>1
    <3> QED BY <2>1, <3>2 DEF ToSet
  <2> QED BY <1>2, <2>1, <2>2
<1> QED BY <1>1, <1>2, <1>3, <1>4 DEF Dispatched

-----------------------------------------------------------------------------
(* Lifecycle.                                                              *)

\* A step in which the current process becomes x and another one is dispatched
\* is a HandOver of Lifecycle.
LEMMA DispatchHandsOver ==
  ASSUME Inv, NEW x, NEW rdy, NEW pr,
         Prepared(rdy, [state EXCEPT ![current] = x], pr),
         Dispatch(rdy, [state EXCEPT ![current] = x]),
         \A q \in PCBs : q = current \/ pr[q] = prio[q],
         x # "READY" \/ pr = prio
  PROVE  current' \in PCBs /\ Life!HandOver(x, current')
<1> DEFINE st == [state EXCEPT ![current] = x]
<1>1. current \in PCBs /\ state \in [PCBs -> States] /\ st[current] = x
  BY DEF Inv, TypeOK
<1>2. /\ current' \in PCBs /\ st[current'] = "READY"
      /\ \A q \in PCBs : st[q] = "READY" => pr[current'] <= pr[q]
      /\ state' = [st EXCEPT ![current'] = "RUNNING"]
  BY DispatchChoosesBest
<1>3. \A q \in PCBs : st[q] = "READY" => pr[q] = prio[q]
  BY <1>1
<1>4. current' \in Life!Best(st)
  BY <1>2, <1>3 DEF Life!Best
<1> QED BY <1>2, <1>4 DEF Life!HandOver

\* The state that _init leaves behind is one that Lifecycle starts in.
LEMMA InitLives == Init => Life!LifeInit
<1> SUFFICES ASSUME Init PROVE Life!LifeInit
  OBVIOUS
<1> USE ConstantFacts DEF Init
<1>1. current = 0 /\ 0 \in PCBs /\ 0 # Idle
  BY DEF PCBs
<1>2. /\ state \in [PCBs -> {"FREE", "READY", "RUNNING"}]
      /\ \A p \in PCBs : state[p] = "RUNNING" <=> p = current
      /\ state[Idle] = "READY"
  BY <1>1 DEF PCBs
<1>3. \A p \in PCBs : prio[p] = IF p = Idle THEN 3 ELSE IF p \in {2, 3} THEN p - 1 ELSE 0
  OBVIOUS
<1>4. prio \in [PCBs -> 0..3] /\ prio[Idle] = 3
  BY <1>3
<1>5. \A p \in PCBs : state[p] = "FREE" => prio[p] = 0
  BY <1>3 DEF PCBs
<1> QED BY <1>1, <1>2, <1>4, <1>5 DEF Life!LifeInit

\* Every step of the kernel is one of Lifecycle, or none for the processes.
LEMMA NextLives == Inv /\ [Next]_vars => [Life!LifeNext]_(Life!lifeVars)
<1> SUFFICES ASSUME Inv, [Next]_vars PROVE [Life!LifeNext]_(Life!lifeVars)
  OBVIOUS
<1> USE ConstantFacts
<1>1. /\ current \in PCBs /\ state \in [PCBs -> States] /\ prio \in [PCBs -> Levels]
      /\ state[current] = "RUNNING"
  BY DEF Inv, TypeOK, Placement
<1>2. CASE Exit
  <2>1. /\ current # Idle /\ prio' = [prio EXCEPT ![current] = 0]
        /\ Dispatch(ready, [state EXCEPT ![current] = "FREE"])
    BY <1>2 DEF Exit, UserMode, ClearFields
  <2>2. Prepared(ready, [state EXCEPT ![current] = "FREE"], prio')
    BY <2>1, AfterLeaving
  <2>3. \A q \in PCBs : q = current \/ prio'[q] = prio[q]
    BY <2>1, <1>1
  <2>4. current' \in PCBs /\ Life!HandOver("FREE", current')
    BY <2>1, <2>2, <2>3, DispatchHandsOver
  <2>5. Life!Leave(current')
    BY <2>1, <2>4 DEF Life!Leave
  <2> QED BY <2>4, <2>5 DEF Life!LifeNext
<1>3. ASSUME NEW pr \in SpawnPrios, Spawn(pr)
      PROVE  [Life!LifeNext]_(Life!lifeVars)
  <2>1. CASE free_pcbs = <<>> \/ free_stacks = <<>>
    BY <1>3, <2>1 DEF Spawn, Life!lifeVars
  <2>2. CASE ~(free_pcbs = <<>> \/ free_stacks = <<>>)
    <3> DEFINE new == Head(free_pcbs)
               n == LegalPrio(pr % 256)
    <3>1. /\ current # Idle /\ current' = current
          /\ prio' = [prio EXCEPT ![new] = n]
          /\ state' = [state EXCEPT ![new] = "READY"]
      BY <1>3, <2>2 DEF Spawn, UserMode
    <3>2. new \in PCBs /\ state[new] = "FREE"
      <4>1. free_pcbs \in Seq(PCBs)
        BY DEF Inv, TypeOK
      <4>2. new \in PCBs /\ new \in ToSet(free_pcbs)
        BY <2>2, <4>1, TailFacts
      <4> QED BY <4>2 DEF Inv, Placement
    <3>3. n \in 0..PRIO_USER_LOW
      <4>1. pr % 256 \in Nat
        BY InputAssumption
      <4> QED BY <4>1 DEF LegalPrio, N_PRIOS
    <3>4. Life!Create(new, n)
      BY <3>1, <3>2 DEF Life!Create
    <3> QED BY <3>2, <3>3, <3>4 DEF Life!LifeNext
  <2> QED BY <2>1, <2>2
<1>4. CASE Yield \/ (ClockQuantum /\ (quantum - 1) % 256 < 1)
  <2>1. /\ Dispatch(Enqueue(ready, current, prio[current]),
                    [state EXCEPT ![current] = "READY"])
        /\ prio' = [prio EXCEPT ![current] = LegalPrio(prio[current])]
    BY <1>4 DEF Yield, ClockQuantum
  <2>2. /\ Prepared(Enqueue(ready, current, prio[current]),
                    [state EXCEPT ![current] = "READY"], prio)
        /\ prio' = prio
    BY <2>1, AfterPreempting
  <2>3. current' \in PCBs /\ Life!HandOver("READY", current')
    BY <2>1, <2>2, DispatchHandsOver
  <2>4. Life!Preempt(current')
    BY <2>2, <2>3 DEF Life!Preempt
  <2> QED BY <2>3, <2>4 DEF Life!LifeNext
<1>5. ASSUME NEW t \in SleepTimes, Sleep(t)
      PROVE  [Life!LifeNext]_(Life!lifeVars)
  <2>1. /\ current # Idle /\ prio' = prio
        /\ Dispatch(ready, [state EXCEPT ![current] = "SLEEPING"])
    BY <1>5 DEF Sleep, UserMode
  <2>2. Prepared(ready, [state EXCEPT ![current] = "SLEEPING"], prio)
    <3>1. /\ [prio EXCEPT ![current] = prio[current]] = prio
          /\ prio[current] \in Levels
      BY <1>1
    <3>2. Prepared(ready, [state EXCEPT ![current] = "SLEEPING"],
                   [prio EXCEPT ![current] = prio[current]])
      BY <2>1, <3>1, AfterLeaving
    <3> QED BY <3>1, <3>2
  <2>3. current' \in PCBs /\ Life!HandOver("SLEEPING", current')
    BY <2>1, <2>2, DispatchHandsOver
  <2>4. Life!GoToSleep(current')
    BY <2>1, <2>3 DEF Life!GoToSleep
  <2> QED BY <2>3, <2>4 DEF Life!LifeNext
<1>6. CASE ClockWake
  <2> DEFINE p == Head(sleeping)
  <2>1. /\ sleeping # <<>> /\ current' = current
        /\ state' = [state EXCEPT ![p] = "READY"]
        /\ prio' = [prio EXCEPT ![p] = LegalPrio(prio[p])]
    BY <1>6 DEF ClockWake, HeadIsDue
  <2>2. p \in PCBs /\ state[p] = "SLEEPING"
    <3>1. sleeping \in Seq(PCBs)
      BY DEF Inv, TypeOK
    <3>2. p \in PCBs /\ p \in ToSet(sleeping)
      BY <2>1, <3>1, TailFacts
    <3> QED BY <3>2 DEF Inv, Placement
  <2>3. prio' = prio
    <3>1. prio[p] \in {0, 1, 2, 3}
      BY <1>1, <2>2
    <3>2. LegalPrio(prio[p]) = prio[p]
      BY <3>1 DEF LegalPrio, N_PRIOS
    <3> QED BY <2>1, <3>2, <1>1
  <2>4. Life!Wake(p)
    BY <2>1, <2>2, <2>3 DEF Life!Wake
  <2> QED BY <2>2, <2>4 DEF Life!LifeNext
<1>7. CASE ClockTick \/ (ClockQuantum /\ ~((quantum - 1) % 256 < 1)) \/ UNCHANGED vars
  BY <1>7 DEF ClockTick, ClockQuantum, vars, fields, Life!lifeVars
<1> QED BY <1>2, <1>3, <1>4, <1>5, <1>6, <1>7 DEF Next

\* Spec => Lives: the kernel implements Lifecycle, whatever is created, fails to
\* be created, exits, sleeps, is woken or is preempted, for every number of
\* processes and every quantum (scheduler.c:79-131, syscall.c:118-207,
\* clock.c:78-112).
THEOREM ImplementsLifecycle == Spec => Lives
<1>1. Spec => []Inv
  BY InvHolds
<1>2. Init => Life!LifeInit
  BY InitLives
<1>3. Inv /\ [Next]_vars => [Life!LifeNext]_(Life!lifeVars)
  BY NextLives
<1> QED BY <1>1, <1>2, <1>3, PTL DEF Spec, Lives, Life!LifeSpec


-----------------------------------------------------------------------------
(* The ready queues are first in, first out.                               *)

\* A sequence whose elements another one begins with is a prefix of it, and
\* still is when both lose their first element.
LEMMA PrefixByElements ==
  ASSUME NEW S, NEW s \in Seq(S), NEW t \in Seq(S), Len(s) <= Len(t),
         \A i \in 1..Len(s) : t[i] = s[i]
  PROVE  /\ IsPrefix(s, t)
         /\ s # <<>> => /\ t # <<>> /\ Head(t) = Head(s)
                        /\ IsPrefix(Tail(s), Tail(t))
<1>1. ASSUME NEW a \in Seq(S), NEW b \in Seq(S), Len(a) <= Len(b),
             \A i \in 1..Len(a) : b[i] = a[i]
      PROVE  IsPrefix(a, b)
  <2> DEFINE c == SubSeq(b, 1, Len(a))
  <2>1. Len(a) \in Nat /\ Len(b) \in Nat /\ \A i \in 1..Len(a) : b[i] \in S
    BY <1>1, LenProperties, ElementOfSeq
  <2>2. c \in Seq(S) /\ Len(c) = Len(a) /\ \A i \in 1..Len(a) : c[i] = b[i]
    BY <2>1, SubSeqProperties
  <2> HIDE DEF c
  <2>3. c = a
    BY <1>1, <2>2, SeqEqual
  <2>4. SubSeq(a, 1, Len(a)) = a
    BY SubSeqFull
  <2> QED BY <1>1, <2>3, <2>4 DEF IsPrefix, c
<1>2. ASSUME s # <<>>
      PROVE  t # <<>> /\ Head(t) = Head(s) /\ IsPrefix(Tail(s), Tail(t))
  <2> DEFINE n == Len(s)
             m == Len(t)
             x == Tail(s)
             y == Tail(t)
  <2>1. n \in Nat /\ m \in Nat /\ n >= 1 /\ n <= m /\ t # <<>>
    BY <1>2, EmptySeq, LenProperties
  <2>2. x \in Seq(S) /\ Len(x) = n - 1 /\ \A i \in 1..Len(x) : x[i] = s[i + 1]
    BY <1>2, HeadTailProperties
  <2>3. y \in Seq(S) /\ Len(y) = m - 1 /\ \A i \in 1..Len(y) : y[i] = t[i + 1]
    BY <2>1, HeadTailProperties
  <2>4. \A i \in 1..n : t[i] = s[i]
    OBVIOUS
  <2>5. Head(t) = t[1] /\ Head(s) = s[1]
    OBVIOUS
  <2> HIDE DEF n, m, x, y
  <2>6. Len(x) <= Len(y) /\ \A i \in 1..Len(x) : i \in 1..Len(y) /\ i + 1 \in 1..n
    BY <2>1, <2>2, <2>3
  <2>7. \A i \in 1..Len(x) : y[i] = x[i]
    BY <2>2, <2>3, <2>4, <2>6, Zenon
  <2>8. IsPrefix(x, y)
    BY <1>1, <2>2, <2>3, <2>6, <2>7
  <2>9. 1 \in 1..n
    BY <2>1
  <2> QED BY <2>1, <2>4, <2>5, <2>8, <2>9, Zenon DEF x, y
<1> QED BY <1>1, <1>2

\* A sequence is a prefix of itself, and of itself with an element at the end.
LEMMA PrefixFacts ==
  ASSUME NEW S, NEW s \in Seq(S), NEW t \in Seq(S),
         t = s \/ \E e \in S : t = Append(s, e)
  PROVE  /\ IsPrefix(<<>>, t) /\ IsPrefix(s, t)
         /\ s # <<>> => /\ t # <<>> /\ Head(t) = Head(s)
                        /\ IsPrefix(Tail(s), Tail(t))
<1>1. Len(s) <= Len(t) /\ \A i \in 1..Len(s) : t[i] = s[i]
  BY AppendProperties, LenProperties
<1>2. IsPrefix(<<>>, t)
  <2>1. <<>> \in Seq(S) /\ Len(<<>>) = 0
    BY EmptySeq
  <2>2. Len(<<>>) <= Len(t) /\ \A i \in 1..Len(<<>>) : t[i] = <<>>[i]
    BY <2>1, LenProperties
  <2> QED BY <2>1, <2>2, PrefixByElements
<1> QED BY <1>1, <1>2, PrefixByElements

\* What ReadyFifo says of the queue of level l in a step.
FifoStep(l) ==
  \/ IsPrefix(ready[l], ready'[l])
  \/ /\ IsPrefix(Tail(ready[l]), ready'[l])
     /\ current' = Head(ready[l])
     /\ state'[current'] = "RUNNING"
     /\ \A k \in 0..(l - 1) : ready[k] = <<>> /\ ready'[k] = <<>>

\* rdy is ready, or ready with something new at the end of some queues.
Extends(rdy) ==
  \A l \in Levels :
    /\ rdy[l] \in Seq(PCBs)
    /\ rdy[l] = ready[l] \/ \E e \in PCBs : rdy[l] = Append(ready[l], e)

\* What gets an element is not empty.
LEMMA AppendNotEmpty ==
  ASSUME NEW S, NEW s \in Seq(S), NEW e \in S
  PROVE  Append(s, e) # <<>>
BY AppendProperties

\* A dispatch takes the head of one queue, if there was one before.
LEMMA DispatchFifo ==
  ASSUME Inv, NEW rdy, NEW st \in [PCBs -> States], NEW pr,
         rdy \in [Levels -> Seq(PCBs)], Extends(rdy),
         Prepared(rdy, st, pr), Dispatch(rdy, st), NEW l \in Levels
  PROVE  FifoStep(l)
<1>1. Dispatched(st, pr)
  BY DispatchFacts
<1>2. PICK m \in Levels :
        /\ rdy[m] # <<>>
        /\ \A k \in 0..(m - 1) : rdy[k] = <<>>
        /\ current' = Head(rdy[m])
        /\ ready' = Dequeue(rdy, m)
        /\ state' = [st EXCEPT ![Head(rdy[m])] = "RUNNING"]
  BY <1>1 DEF Dispatch, Dispatched
<1>3. ready[l] \in Seq(PCBs) /\ rdy[l] \in Seq(PCBs)
  BY DEF Inv, TypeOK, Extends
<1>4. CASE l # m
  <2>1. ready'[l] = rdy[l]
    BY <1>2, <1>4 DEF Dequeue
  <2> QED BY <1>3, <2>1, PrefixFacts DEF Extends, FifoStep
<1>5. CASE l = m
  <2>1. ready'[l] = Tail(rdy[l])
    BY <1>2, <1>5 DEF Dequeue
  <2>2. CASE ready[l] = <<>>
    <3>1. ready'[l] \in Seq(PCBs)
      BY <1>2, <1>3, <1>5, <2>1, HeadTailProperties
    <3> QED BY <2>2, <3>1, PrefixFacts DEF FifoStep
  <2>3. CASE ready[l] # <<>>
    <3>1. Head(rdy[l]) = Head(ready[l]) /\ IsPrefix(Tail(ready[l]), Tail(rdy[l]))
      BY <1>3, <2>3, PrefixFacts DEF Extends
    <3>2. current' = Head(ready[l])
      BY <1>2, <1>5, <3>1
    <3>3. state'[current'] = "RUNNING"
      BY <1>1, <1>2 DEF Dispatched
    <3>4. ASSUME NEW k \in 0..(l - 1)
          PROVE  ready[k] = <<>> /\ ready'[k] = <<>>
      <4>1. k \in Levels /\ k # m /\ rdy[k] = <<>>
        BY <1>2, <1>5, ConstantFacts
      <4>2. ready'[k] = <<>>
        BY <1>2, <4>1 DEF Dequeue
      <4>3. ready[k] \in Seq(PCBs)
        BY <4>1 DEF Inv, TypeOK
      <4>4. ASSUME NEW e \in PCBs
            PROVE  Append(ready[k], e) # <<>>
        BY <4>3, AppendNotEmpty
      <4> QED BY <4>1, <4>2, <4>4 DEF Extends
    <3> QED BY <2>1, <3>1, <3>2, <3>3, <3>4 DEF FifoStep
  <2> QED BY <2>2, <2>3
<1> QED BY <1>4, <1>5

\* An insert at the end of a queue extends the ready queues.
LEMMA EnqueueExtends ==
  ASSUME ready \in [Levels -> Seq(PCBs)], NEW p \in PCBs, NEW n
  PROVE  Extends(Enqueue(ready, p, n)) /\ Extends(ready)
<1>1. ASSUME NEW l \in Levels
      PROVE  /\ Append(ready[l], p) \in Seq(PCBs) /\ ready[l] \in Seq(PCBs)
             /\ \/ Enqueue(ready, p, n)[l] = ready[l]
                \/ Enqueue(ready, p, n)[l] = Append(ready[l], p)
  BY <1>1, AppendProperties DEF Enqueue
<1> QED BY <1>1 DEF Extends

\* Every step treats the queue of every level as ReadyFifo says.
LEMMA NextFifo == Inv /\ [Next]_vars => \A l \in Levels : FifoStep(l)
<1> SUFFICES ASSUME Inv, [Next]_vars, NEW l \in Levels PROVE FifoStep(l)
  OBVIOUS
<1>1. /\ ready \in [Levels -> Seq(PCBs)] /\ current \in PCBs
      /\ state \in [PCBs -> States] /\ prio \in [PCBs -> Levels]
      /\ ready[l] \in Seq(PCBs)
  BY DEF Inv, TypeOK
<1>2. ASSUME Extends(ready') PROVE FifoStep(l)
  BY <1>1, <1>2, PrefixFacts DEF Extends, FifoStep
<1>3. CASE ready' = ready
  <2>1. Extends(ready)
    BY <1>1, EnqueueExtends
  <2> QED BY <1>2, <1>3, <2>1 DEF Extends
<1>4. CASE Exit
  <2>1. /\ current # Idle /\ prio' = [prio EXCEPT ![current] = 0] /\ 0 \in Levels
        /\ Dispatch(ready, [state EXCEPT ![current] = "FREE"])
    BY <1>4, ConstantFacts DEF Exit, UserMode, ClearFields
  <2>2. Prepared(ready, [state EXCEPT ![current] = "FREE"], [prio EXCEPT ![current] = 0])
    BY <2>1, AfterLeaving
  <2>3. [state EXCEPT ![current] = "FREE"] \in [PCBs -> States]
    BY <1>1 DEF States
  <2> QED BY <1>1, <2>1, <2>2, <2>3, DispatchFifo, EnqueueExtends
<1>5. ASSUME NEW t \in SleepTimes, Sleep(t) PROVE FifoStep(l)
  <2>1. current # Idle /\ Dispatch(ready, [state EXCEPT ![current] = "SLEEPING"])
    BY <1>5 DEF Sleep, UserMode
  <2>2. Prepared(ready, [state EXCEPT ![current] = "SLEEPING"],
                 [prio EXCEPT ![current] = prio[current]])
    BY <1>1, <2>1, AfterLeaving
  <2>3. [state EXCEPT ![current] = "SLEEPING"] \in [PCBs -> States]
    BY <1>1 DEF States
  <2> QED BY <1>1, <2>1, <2>2, <2>3, DispatchFifo, EnqueueExtends
<1>6. CASE Yield \/ (ClockQuantum /\ (quantum - 1) % 256 < 1)
  <2> DEFINE rdy == Enqueue(ready, current, prio[current])
             st == [state EXCEPT ![current] = "READY"]
  <2>1. Dispatch(rdy, st)
    BY <1>6 DEF Yield, ClockQuantum
  <2>2. Prepared(rdy, st, prio)
    BY AfterPreempting
  <2>3. Extends(rdy) /\ rdy \in [Levels -> Seq(PCBs)]
    BY <1>1, EnqueueExtends, AppendProperties DEF Enqueue
  <2>4. st \in [PCBs -> States]
    BY <1>1 DEF States
  <2> QED BY <2>1, <2>2, <2>3, <2>4, DispatchFifo
<1>7. ASSUME NEW pr \in SpawnPrios, Spawn(pr) PROVE FifoStep(l)
  <2>1. CASE free_pcbs = <<>> \/ free_stacks = <<>>
    BY <1>3, <1>7, <2>1 DEF Spawn
  <2>2. CASE ~(free_pcbs = <<>> \/ free_stacks = <<>>)
    <3>1. Head(free_pcbs) \in PCBs
      BY <2>2, TailFacts DEF Inv, TypeOK
    <3>2. ready' = Enqueue(ready, Head(free_pcbs), pr % 256)
      BY <1>7, <2>2 DEF Spawn
    <3> QED BY <1>1, <1>2, <3>1, <3>2, EnqueueExtends
  <2> QED BY <2>1, <2>2
<1>8. CASE ClockWake
  <2>1. /\ sleeping # <<>>
        /\ ready' = Enqueue(ready, Head(sleeping), prio[Head(sleeping)])
    BY <1>8 DEF ClockWake, HeadIsDue
  <2>2. Head(sleeping) \in PCBs
    BY <2>1, TailFacts DEF Inv, TypeOK
  <2> QED BY <1>1, <1>2, <2>1, <2>2, EnqueueExtends
<1>9. CASE ClockTick \/ (ClockQuantum /\ ~((quantum - 1) % 256 < 1)) \/ UNCHANGED vars
  BY <1>3, <1>9 DEF ClockTick, ClockQuantum, vars, queues
<1> QED BY <1>4, <1>5, <1>6, <1>7, <1>8, <1>9 DEF Next

\* Spec => ReadyFifo: for every number of processes, a process leaves a ready
\* queue only from its head, for the CPU, and when every queue of a higher
\* priority is empty; nobody is overtaken in a queue (scheduler.c:79-131).
THEOREM ReadyFifoHolds == Spec => ReadyFifo
<1>1. Spec => []Inv
  BY InvHolds
<1>2. Inv /\ [Next]_vars => [\A l \in Levels : FifoStep(l)]_vars
  BY NextFifo
<1>3. Inv /\ [Next]_vars =>
      [\A l \in Levels :
       \/ IsPrefix(ready[l], ready'[l])
       \/ /\ IsPrefix(Tail(ready[l]), ready'[l])
          /\ current' = Head(ready[l])
          /\ state'[current'] = "RUNNING"
          /\ \A k \in 0..(l - 1) : ready[k] = <<>> /\ ready'[k] = <<>>]_vars
  BY <1>2 DEF FifoStep
<1> QED BY <1>1, <1>3, PTL DEF Spec, ReadyFifo

-----------------------------------------------------------------------------
(* Waiting for the CPU: what a process of level 0 has waited and what those *)
(* before it in the queue may still take is never more than a quantum for   *)
(* every place it had.                                                      *)

\* The ticks that the present process has left, also while one is handled.
Remaining == IF isr = "wake" THEN quantum - 1 ELSE quantum

TimesOK == age \in [PCBs -> Nat] /\ target \in [PCBs -> Nat]

WaitInv ==
  \A i \in 1..Len(ready[0]) :
    age[ready[0][i]] + (i - 1) * QUANTUM_DEFAULT + Remaining
      <= target[ready[0][i]] * QUANTUM_DEFAULT

\* What a step but a tick does to the queue of level 0: somebody may come behind it, and
\* when the CPU is given away, its head leaves.
Joined(r) ==
  r \in Seq(PCBs)
  /\ (r = ready[0] \/ \E p \in PCBs : state[p] # "READY" /\ r = Append(ready[0], p))
Served(r) ==
  \/ ready'[0] = r /\ Remaining' = Remaining
  \/ r = <<>> /\ ready'[0] = <<>>
  \/ r # <<>> /\ ready'[0] = Tail(r) /\ Remaining' = QUANTUM_DEFAULT
QueueStep == \E r : Joined(r) /\ Served(r)

LEMMA DispatchServes ==
  ASSUME NEW rdy \in [Levels -> Seq(PCBs)], NEW st, Dispatch(rdy, st), isr' = "none"
  PROVE  Served(rdy[0])
<1>1. 0 \in Levels /\ \A l \in Levels : l = 0 \/ (l # 0 /\ 0 \in 0..(l - 1))
  BY DEF Levels, N_PRIOS
<1>2. CASE \E l \in Levels : rdy[l] # <<>>
  <2>1. PICK l \in Levels :
          /\ rdy[l] # <<>> /\ \A k \in 0..(l - 1) : rdy[k] = <<>>
          /\ ready' = Dequeue(rdy, l) /\ quantum' = QUANTUM_DEFAULT
    BY <1>2 DEF Dispatch
  <2>2. CASE l = 0
    <3>1. ready'[0] = Tail(rdy[0])
      BY <1>1, <2>1, <2>2 DEF Dequeue
    <3>2. Remaining' = QUANTUM_DEFAULT
      BY <2>1 DEF Remaining
    <3> QED BY <2>1, <2>2, <3>1, <3>2 DEF Served
  <2>3. CASE l # 0
    <3>1. rdy[0] = <<>> /\ ready'[0] = rdy[0]
      BY <1>1, <2>1, <2>3 DEF Dequeue
    <3> QED BY <3>1 DEF Served
  <2> QED BY <2>2, <2>3
<1>3. CASE ~ \E l \in Levels : rdy[l] # <<>>
  <2>1. rdy[0] = <<>> /\ ready' = rdy
    BY <1>1, <1>3 DEF Dispatch
  <2> QED BY <2>1 DEF Served
<1> QED BY <1>2, <1>3

\* The queue of level 0 once p is put at the end of a level.
LEMMA EnqueueJoins ==
  ASSUME Inv, NEW p \in PCBs, state[p] # "READY", NEW n
  PROVE  /\ Enqueue(ready, p, n) \in [Levels -> Seq(PCBs)] /\ Joined(Enqueue(ready, p, n)[0])
         /\ ready \in [Levels -> Seq(PCBs)] /\ Joined(ready[0])
<1>1. ready \in [Levels -> Seq(PCBs)] /\ 0 \in Levels
  BY DEF Inv, TypeOK, Levels, N_PRIOS
<1>2. ready[0] \in Seq(PCBs) /\ Append(ready[0], p) \in Seq(PCBs)
  BY <1>1, AppendProperties
<1>3. \A l \in Levels : Append(ready[l], p) \in Seq(PCBs)
  BY <1>1, AppendProperties
<1>4. Enqueue(ready, p, n) \in [Levels -> Seq(PCBs)]
  BY <1>1, <1>3 DEF Enqueue
<1>5. Enqueue(ready, p, n)[0] = ready[0] \/ Enqueue(ready, p, n)[0] = Append(ready[0], p)
  BY <1>1 DEF Enqueue
<1> QED BY <1>1, <1>2, <1>4, <1>5 DEF Joined

LEMMA NextServes ==
  ASSUME Inv, [Next]_vars, ~ClockTick
  PROVE  QueueStep
<1>1. /\ current \in PCBs /\ state[current] = "RUNNING" /\ quantum \in 1..QUANTUM_DEFAULT
      /\ free_pcbs \in Seq(PCBs) /\ sleeping \in Seq(PCBs) /\ QUANTUM_DEFAULT \in 1..255
  BY QuantumAssumption DEF Inv, TypeOK, Placement
<1>2. Joined(ready[0]) /\ ready \in [Levels -> Seq(PCBs)]
  BY <1>1, EnqueueJoins
<1>3. CASE Exit
  <2>1. Served(ready[0])
    BY <1>2, <1>3, DispatchServes DEF Exit, UserMode
  <2> QED BY <1>2, <2>1 DEF QueueStep
<1>4. ASSUME NEW pr \in SpawnPrios, Spawn(pr) PROVE QueueStep
  <2>1. Remaining' = Remaining
    BY <1>4 DEF Spawn, Remaining
  <2>2. CASE free_pcbs = <<>> \/ free_stacks = <<>>
    <3>1. Served(ready[0])
      BY <1>4, <2>1, <2>2 DEF Spawn, Served
    <3> QED BY <1>2, <3>1 DEF QueueStep
  <2>3. CASE ~(free_pcbs = <<>> \/ free_stacks = <<>>)
    <3> DEFINE new == Head(free_pcbs)
    <3>1. new \in PCBs /\ state[new] # "READY"
      <4>1. new \in PCBs /\ new \in ToSet(free_pcbs)
        BY <1>1, <2>3, TailFacts
      <4> QED BY <4>1 DEF Inv, Placement
    <3>2. ready' = Enqueue(ready, new, pr % 256)
      BY <1>4, <2>3 DEF Spawn
    <3> HIDE DEF new
    <3>3. Joined(Enqueue(ready, new, pr % 256)[0])
      BY <3>1, EnqueueJoins
    <3>4. Served(Enqueue(ready, new, pr % 256)[0])
      BY <2>1, <3>2 DEF Served
    <3> QED BY <3>3, <3>4 DEF QueueStep
  <2> QED BY <2>2, <2>3
<1>5. CASE Yield
  <2> DEFINE rdy == Enqueue(ready, current, prio[current])
  <2>1. rdy \in [Levels -> Seq(PCBs)] /\ Joined(rdy[0])
    BY <1>1, EnqueueJoins
  <2>2. Dispatch(rdy, [state EXCEPT ![current] = "READY"]) /\ isr' = "none"
    BY <1>5 DEF Yield, UserMode
  <2> HIDE DEF rdy
  <2>3. Served(rdy[0])
    BY <2>1, <2>2, DispatchServes
  <2> QED BY <2>1, <2>3 DEF QueueStep
<1>6. ASSUME NEW t \in SleepTimes, Sleep(t) PROVE QueueStep
  <2>1. Served(ready[0])
    BY <1>2, <1>6, DispatchServes DEF Sleep, UserMode
  <2> QED BY <1>2, <2>1 DEF QueueStep
<1>7. CASE ClockWake
  <2> DEFINE p == Head(sleeping)
  <2>1. p \in PCBs /\ state[p] # "READY"
    <3>1. p \in PCBs /\ p \in ToSet(sleeping)
      BY <1>1, <1>7, TailFacts DEF ClockWake, HeadIsDue
    <3> QED BY <3>1 DEF Inv, Placement
  <2>2. ready' = Enqueue(ready, p, prio[p]) /\ Remaining' = Remaining
    BY <1>7 DEF ClockWake, Remaining
  <2> HIDE DEF p
  <2>3. Joined(Enqueue(ready, p, prio[p])[0])
    BY <2>1, EnqueueJoins
  <2>4. Served(Enqueue(ready, p, prio[p])[0])
    BY <2>2 DEF Served
  <2> QED BY <2>3, <2>4 DEF QueueStep
<1>8. CASE ClockQuantum
  <2>1. (quantum - 1) % 256 = quantum - 1
    BY <1>1
  <2>2. CASE quantum - 1 < 1
    <3> DEFINE rdy == Enqueue(ready, current, prio[current])
    <3>1. rdy \in [Levels -> Seq(PCBs)] /\ Joined(rdy[0])
      BY <1>1, EnqueueJoins
    <3>2. Dispatch(rdy, [state EXCEPT ![current] = "READY"]) /\ isr' = "none"
      BY <1>8, <2>1, <2>2 DEF ClockQuantum
    <3> HIDE DEF rdy
    <3>3. Served(rdy[0])
      BY <3>1, <3>2, DispatchServes
    <3> QED BY <3>1, <3>3 DEF QueueStep
  <2>3. CASE ~(quantum - 1 < 1)
    <3>1. Remaining' = Remaining /\ ready' = ready
      BY <1>8, <2>1, <2>3 DEF ClockQuantum, Remaining
    <3>2. Served(ready[0])
      BY <3>1 DEF Served
    <3> QED BY <1>2, <3>2 DEF QueueStep
  <2> QED BY <2>2, <2>3
<1>9. CASE UNCHANGED vars
  <2>1. Served(ready[0])
    BY <1>9 DEF vars, queues, Served, Remaining
  <2> QED BY <1>2, <2>1 DEF QueueStep
<1> QED BY <1>3, <1>4, <1>5, <1>6, <1>7, <1>8, <1>9 DEF Next

\* What Measure does to the processes that are in the queue of level 0 after it.
LEMMA MeasureFacts ==
  ASSUME TimesOK, NEW t \in Nat, Measure(t), ready'[0] \in Seq(PCBs)
  PROVE  /\ TimesOK'
         /\ \A p \in PCBs : state'[p] = "READY" /\ prio'[p] = 0 =>
              IF state[p] = "READY" THEN target'[p] = target[p] /\ age'[p] <= age[p]
              ELSE target'[p] = Len(ready'[0]) /\ age'[p] = 0
<1> DEFINE measured == {p \in Measured(state', prio') :
                          ~(state'[p] = "SLEEPING" /\ Unordered(t))}
           kept == {p \in measured : state'[p] = state[p]}
           entered == measured \ kept
           target1 == [p \in PCBs |->
             CASE p \in kept -> target[p]
               [] p \in entered /\ state'[p] = "SLEEPING" -> t
               [] p \in entered /\ state'[p] = "READY" -> Len(ready'[0])
               [] OTHER -> 0]
<1>1. /\ target' = target1
      /\ age' = [p \in PCBs |-> IF p \in kept /\ target1[p] # 0 THEN age[p] ELSE 0]
  BY DEF Measure
<1>2. Len(ready'[0]) \in Nat
  BY LenProperties
<1>3. target \in [PCBs -> Nat] /\ age \in [PCBs -> Nat]
  BY DEF TimesOK
<1>4. TimesOK'
  <2>1. \A p \in PCBs : target1[p] \in Nat
    BY <1>2, <1>3
  <2> QED BY <1>1, <1>3, <2>1 DEF TimesOK
<1>5. ASSUME NEW p \in PCBs, state'[p] = "READY", prio'[p] = 0
      PROVE  IF state[p] = "READY" THEN target'[p] = target[p] /\ age'[p] <= age[p]
             ELSE target'[p] = Len(ready'[0]) /\ age'[p] = 0
  <2>1. p \in measured
    BY <1>5 DEF Measured
  <2>2. p \in kept <=> state[p] = "READY"
    BY <1>5, <2>1
  <2>3. CASE state[p] = "READY"
    <3>1. target1[p] = target[p]
      BY <1>5, <2>2, <2>3
    <3>2. age'[p] = age[p] \/ age'[p] = 0
      BY <1>1
    <3> QED BY <1>1, <1>3, <2>3, <3>1, <3>2
  <2>4. CASE state[p] # "READY"
    <3>1. target1[p] = Len(ready'[0])
      BY <1>5, <2>1, <2>2, <2>4
    <3> QED BY <1>1, <2>2, <2>4, <3>1
  <2> QED BY <2>3, <2>4
<1> QED BY <1>4, <1>5

\* Every place in the queue is worth a quantum.
LEMMA PlaceFacts ==
  ASSUME NEW i \in Nat, i >= 1
  PROVE  /\ (i - 1) * QUANTUM_DEFAULT \in Nat
         /\ i * QUANTUM_DEFAULT = (i - 1) * QUANTUM_DEFAULT + QUANTUM_DEFAULT
<1>1. QUANTUM_DEFAULT \in Nat
  BY QuantumAssumption
<1>2. PICK k \in Nat : k = i - 1 /\ i = k + 1
  OBVIOUS
<1>3. k * QUANTUM_DEFAULT \in Nat /\ (k + 1) * QUANTUM_DEFAULT = k * QUANTUM_DEFAULT + QUANTUM_DEFAULT
  BY <1>1
<1> QED BY <1>2, <1>3

LEMMA RemainingFacts == Inv => Remaining \in 0..QUANTUM_DEFAULT /\ QUANTUM_DEFAULT \in Nat
  BY QuantumAssumption DEF Inv, TypeOK, Remaining

\* Who is in the queue of level 0.
QueueElements ==
  /\ ready[0] \in Seq(PCBs)
  /\ \A p \in PCBs : state[p] = "READY" /\ prio[p] = 0 <=> \E i \in 1..Len(ready[0]) : ready[0][i] = p

LEMMA ElementsAreReady == Inv => QueueElements
<1> SUFFICES ASSUME Inv PROVE QueueElements
  OBVIOUS
<1>1. 0 \in Levels /\ ready \in [Levels -> Seq(PCBs)]
  BY DEF Inv, TypeOK, Levels, N_PRIOS
<1>2. \A p \in PCBs : p \in ToSet(ready[0]) <=> state[p] = "READY" /\ prio[p] = 0
  BY <1>1 DEF Inv, Placement
<1>3. ready[0] \in Seq(PCBs)
  BY <1>1
<1> QED BY <1>2, <1>3 DEF QueueElements, ToSet

LEMMA ElementsAreReadyNext == (Inv => QueueElements)'
  BY ElementsAreReady, PTL

LEMMA RemainingFactsNext == (Inv => Remaining \in 0..QUANTUM_DEFAULT /\ QUANTUM_DEFAULT \in Nat)'
  BY RemainingFacts, PTL

\* The bound of one process, at place i.
Within(i) ==
  age[ready[0][i]] + (i - 1) * QUANTUM_DEFAULT + Remaining <= target[ready[0][i]] * QUANTUM_DEFAULT

LEMMA MeasuredStep ==
  ASSUME Inv, TimesOK, WaitInv, [Next]_vars, ~ClockTick, NEW t \in Nat, Measure(t)
  PROVE  TimesOK' /\ WaitInv'
<1>1. QueueElements /\ Inv'
  BY ElementsAreReady, NextInv
<1>2. QueueElements' /\ ready'[0] \in Seq(PCBs)
  <2>1. QueueElements'
    BY <1>1, ElementsAreReadyNext
  <2> QED BY <2>1 DEF QueueElements
<1>3. /\ Remaining \in 0..QUANTUM_DEFAULT /\ Remaining' \in 0..QUANTUM_DEFAULT
      /\ QUANTUM_DEFAULT \in Nat
  BY <1>1, RemainingFacts, RemainingFactsNext
<1>4. /\ TimesOK'
      /\ \A p \in PCBs : state'[p] = "READY" /\ prio'[p] = 0 =>
           IF state[p] = "READY" THEN target'[p] = target[p] /\ age'[p] <= age[p]
           ELSE target'[p] = Len(ready'[0]) /\ age'[p] = 0
  BY <1>2, MeasureFacts
<1>5. PICK r : Joined(r) /\ Served(r)
  BY NextServes DEF QueueStep
<1>6. r \in Seq(PCBs) /\ ready[0] \in Seq(PCBs) /\ Len(r) \in Nat /\ Len(ready[0]) \in Nat
      /\ Len(ready'[0]) \in Nat
  BY <1>1, <1>2, <1>5, LenProperties DEF Joined, QueueElements
<1>7. ASSUME NEW i \in 1..Len(ready'[0]) PROVE Within(i)'
  <2> PICK p : p = ready'[0][i]
    OBVIOUS
  <2>1. p \in PCBs /\ state'[p] = "READY" /\ prio'[p] = 0
    <3>1. p \in PCBs
      BY <1>2, ElementOfSeq
    <3> QED BY <1>2, <3>1 DEF QueueElements
  <2>2. i \in Nat /\ i >= 1 /\ age[p] \in Nat /\ age'[p] \in Nat
    BY <1>4, <1>6, <2>1 DEF TimesOK
  <2>3. PICK j \in 1..Len(r) :
          /\ r[j] = p
          /\ \/ j = i /\ Remaining' = Remaining /\ Len(ready'[0]) = Len(r)
             \/ j = i + 1 /\ Remaining' = QUANTUM_DEFAULT /\ Len(ready'[0]) = Len(r) - 1
    <3>1. CASE ready'[0] = r /\ Remaining' = Remaining
      BY <3>1
    <3>2. CASE r = <<>> /\ ready'[0] = <<>>
      BY <1>7, <3>2
    <3>3. CASE r # <<>> /\ ready'[0] = Tail(r) /\ Remaining' = QUANTUM_DEFAULT
      <4>1. Len(Tail(r)) = Len(r) - 1 /\ Tail(r)[i] = r[i + 1]
        BY <1>6, <1>7, <3>3, HeadTailProperties
      <4>2. i + 1 \in 1..Len(r)
        BY <1>6, <1>7, <3>3, <4>1
      <4> QED BY <3>3, <4>1, <4>2
    <3> QED BY <1>5, <3>1, <3>2, <3>3 DEF Served
  <2>4. CASE j \in 1..Len(ready[0]) /\ r[j] = ready[0][j]
    <3>1. state[p] = "READY" /\ ready[0][j] = p
      BY <1>1, <2>1, <2>3, <2>4 DEF QueueElements
    <3>2. target'[p] = target[p] /\ age'[p] <= age[p]
      BY <1>4, <2>1, <3>1
    <3>3. age[p] + (j - 1) * QUANTUM_DEFAULT + Remaining <= target[p] * QUANTUM_DEFAULT
      BY <2>4, <3>1 DEF WaitInv
    <3>4. (i - 1) * QUANTUM_DEFAULT \in Nat
          /\ i * QUANTUM_DEFAULT = (i - 1) * QUANTUM_DEFAULT + QUANTUM_DEFAULT
      BY <2>2, PlaceFacts
    <3>5. age[p] + (i - 1) * QUANTUM_DEFAULT + Remaining' <= target[p] * QUANTUM_DEFAULT
      <4>1. target[p] * QUANTUM_DEFAULT \in Nat
        BY <1>3, <2>1 DEF TimesOK
      <4>2. CASE j = i /\ Remaining' = Remaining
        BY <3>3, <4>2
      <4>3. CASE j = i + 1 /\ Remaining' = QUANTUM_DEFAULT
        <5>1. j - 1 = i
          BY <2>2, <4>3
        <5>2. age[p] + i * QUANTUM_DEFAULT + Remaining <= target[p] * QUANTUM_DEFAULT
          BY <3>3, <5>1
        <5> DEFINE place == (i - 1) * QUANTUM_DEFAULT
                   all == i * QUANTUM_DEFAULT
                   most == target[p] * QUANTUM_DEFAULT
        <5>3. place \in Nat /\ all = place + QUANTUM_DEFAULT /\ most \in Nat
              /\ age[p] + all + Remaining <= most
          BY <3>4, <4>1, <5>2
        <5> HIDE DEF place, all, most
        <5>4. age[p] + place + QUANTUM_DEFAULT <= most
          BY <1>3, <2>2, <5>3
        <5> QED BY <4>3, <5>4 DEF place, most
      <4> QED BY <2>3, <4>2, <4>3
    <3> DEFINE place == (i - 1) * QUANTUM_DEFAULT
               most == target[p] * QUANTUM_DEFAULT
    <3>6. place \in Nat /\ most \in Nat /\ age[p] + place + Remaining' <= most
      BY <1>3, <2>1, <3>4, <3>5 DEF TimesOK
    <3> HIDE DEF place, most
    <3>7. age'[p] + place + Remaining' <= most
      BY <1>3, <2>2, <3>2, <3>6, SMTT(40)
    <3> QED BY <3>2, <3>7 DEF Within, place, most
  <2>5. CASE ~(j \in 1..Len(ready[0]) /\ r[j] = ready[0][j])
    <3>1. PICK q \in PCBs : state[q] # "READY" /\ r = Append(ready[0], q)
      BY <1>5, <2>3, <2>5 DEF Joined
    <3>2. j = Len(r) /\ p = q
      BY <1>6, <2>3, <2>5, <3>1, AppendProperties
    <3>3. target'[p] = Len(ready'[0]) /\ age'[p] = 0
      BY <1>4, <2>1, <3>1, <3>2
    <3>4. i = Len(ready'[0])
      BY <1>6, <2>2, <2>3, <3>2
    <3>5. (i - 1) * QUANTUM_DEFAULT \in Nat
          /\ i * QUANTUM_DEFAULT = (i - 1) * QUANTUM_DEFAULT + QUANTUM_DEFAULT
      BY <2>2, PlaceFacts
    <3> DEFINE place == (i - 1) * QUANTUM_DEFAULT
               all == i * QUANTUM_DEFAULT
    <3>6. place \in Nat /\ all = place + QUANTUM_DEFAULT
      BY <3>5
    <3> HIDE DEF place, all
    <3>7. 0 + place + Remaining' <= all
      BY <1>3, <3>6
    <3>8. 0 + (i - 1) * QUANTUM_DEFAULT + Remaining' <= i * QUANTUM_DEFAULT
      BY <3>7 DEF place, all
    <3> QED BY <3>3, <3>4, <3>8 DEF Within
  <2> QED BY <2>4, <2>5
<1> QED BY <1>4, <1>7 DEF WaitInv, Within

LEMMA MinOfTwo ==
  ASSUME NEW a \in Nat, NEW b \in Nat
  PROVE  Min({a, b}) \in Nat /\ Min({a, b}) <= a
<1>1. \E x \in {a, b} : \A y \in {a, b} : x <= y
  BY a \in Nat, b \in Nat
<1>2. Min({a, b}) \in {a, b} /\ \A y \in {a, b} : Min({a, b}) <= y
  BY <1>1 DEF Min
<1> QED BY <1>2

LEMMA TickStep ==
  ASSUME Inv, TimesOK, WaitInv, TimedTick
  PROVE  TimesOK' /\ WaitInv'
<1>1. QueueElements /\ ready' = ready /\ target' = target
  BY ElementsAreReady DEF TimedTick, ClockTick, queues
<1>2. Remaining = quantum /\ Remaining' = quantum - 1 /\ quantum \in 1..QUANTUM_DEFAULT
      /\ QUANTUM_DEFAULT \in Nat
  BY QuantumAssumption DEF TimedTick, ClockTick, Remaining, Inv, TypeOK
<1>3. \A p \in PCBs : age[p] \in Nat /\ target[p] \in Nat
  BY DEF TimesOK
<1>4. \A p \in PCBs : target[p] * QUANTUM_DEFAULT \in Nat /\ Late(p) \in Nat
  BY <1>2, <1>3 DEF Late
<1>5. \A p \in PCBs : age'[p] \in Nat /\ age'[p] <= age[p] + 1
  <2> SUFFICES ASSUME NEW p \in PCBs PROVE age'[p] \in Nat /\ age'[p] <= age[p] + 1
    OBVIOUS
  <2>1. age'[p] = IF target[p] = 0 THEN 0 ELSE Min({age[p] + 1, Late(p)})
    BY DEF TimedTick
  <2>2. age[p] + 1 \in Nat /\ Late(p) \in Nat
    BY <1>3, <1>4
  <2>3. Min({age[p] + 1, Late(p)}) \in Nat /\ Min({age[p] + 1, Late(p)}) <= age[p] + 1
    BY <2>2, MinOfTwo
  <2> QED BY <1>3, <2>1, <2>3
<1>6. TimesOK'
  <2>1. age' = [p \in PCBs |-> age'[p]]
    BY DEF TimedTick
  <2>2. age' \in [PCBs -> Nat]
    BY <1>5, <2>1
  <2> QED BY <1>1, <2>2 DEF TimesOK
<1>7. ASSUME NEW i \in 1..Len(ready[0]) PROVE Within(i)'
  <2> PICK p : p = ready[0][i]
    OBVIOUS
  <2>1. p \in PCBs /\ i \in Nat /\ i >= 1
    BY <1>1, ElementOfSeq, LenProperties DEF QueueElements
  <2> DEFINE place == (i - 1) * QUANTUM_DEFAULT
             most == target[p] * QUANTUM_DEFAULT
  <2>2. place \in Nat /\ most \in Nat /\ age[p] + place + Remaining <= most
    BY <1>4, <2>1, PlaceFacts DEF WaitInv
  <2> HIDE DEF place, most
  <2>3. age'[p] + place + Remaining' <= most
    BY <1>2, <1>3, <1>5, <2>1, <2>2, SMTT(40)
  <2> QED BY <1>1, <2>3 DEF Within, place, most
<1> QED BY <1>1, <1>6, <1>7 DEF WaitInv, Within

LEMMA TimedNextStep ==
  Inv /\ TimesOK /\ WaitInv /\ [TimedNext]_timedVars => Inv' /\ TimesOK' /\ WaitInv'
<1> SUFFICES ASSUME Inv, TimesOK, WaitInv, [TimedNext]_timedVars
             PROVE  Inv' /\ TimesOK' /\ WaitInv'
  OBVIOUS
<1>1. [Next]_vars
  BY DEF TimedNext, TimedTick, timedVars, Next
<1>2. Inv'
  BY <1>1, NextInv
<1>3. CASE TimedTick
  BY <1>2, <1>3, TickStep
<1>4. CASE UNCHANGED timedVars
  <2>1. ready' = ready /\ quantum' = quantum /\ isr' = isr /\ age' = age /\ target' = target
    BY <1>4 DEF timedVars, vars, queues
  <2> QED BY <1>2, <2>1 DEF TimesOK, WaitInv, Remaining
<1>5. ASSUME TimedNext, ~TimedTick PROVE TimesOK' /\ WaitInv'
  <2>1. PICK t \in SleepTimes \cup {0} : Measure(t) /\ (isr' = isr \/ isr = "wake")
    BY <1>5 DEF TimedNext, Exit, Spawn, Yield, Sleep, ClockWake, ClockQuantum
  <2>2. t \in Nat /\ ~ClockTick
    BY <2>1, InputAssumption, ModulusAssumption DEF ClockTick
  <2> QED BY <1>1, <2>1, <2>2, MeasuredStep
<1> QED BY <1>2, <1>3, <1>4, <1>5

LEMMA TimedInitStep == TimedInit => Inv /\ TimesOK /\ WaitInv
<1> SUFFICES ASSUME TimedInit PROVE Inv /\ TimesOK /\ WaitInv
  OBVIOUS
<1>1. Inv
  BY InitInv DEF TimedInit
<1>2. ready[0] = <<>>
  BY DEF TimedInit, Init, Levels, N_PRIOS
<1>3. Len(ready[0]) = 0
  BY <1>2
<1> QED BY <1>1, <1>3 DEF TimedInit, TimesOK, WaitInv

\* A process that is ready at level 0 is in the queue, at the first place or behind.
LEMMA BoundFollows == Inv /\ TimesOK /\ WaitInv => WaitIsBounded
<1> SUFFICES ASSUME Inv, TimesOK, WaitInv, NEW p \in PCBs, state[p] = "READY", prio[p] = 0
             PROVE  age[p] <= target[p] * QUANTUM_DEFAULT
  BY DEF WaitIsBounded
<1>1. QueueElements
  BY ElementsAreReady
<1>2. PICK i \in 1..Len(ready[0]) : ready[0][i] = p
  BY <1>1 DEF QueueElements
<1>3. i \in Nat /\ i >= 1
  BY <1>1, LenProperties DEF QueueElements
<1>4. /\ Remaining \in 0..QUANTUM_DEFAULT /\ QUANTUM_DEFAULT \in Nat
      /\ age[p] \in Nat /\ target[p] \in Nat
  BY RemainingFacts DEF TimesOK
<1> DEFINE place == (i - 1) * QUANTUM_DEFAULT
           most == target[p] * QUANTUM_DEFAULT
<1>5. place \in Nat /\ most \in Nat /\ age[p] + place + Remaining <= most
  BY <1>2, <1>3, <1>4, PlaceFacts, SMTT(40) DEF WaitInv
<1> HIDE DEF place, most
<1>6. age[p] <= most
  BY <1>4, <1>5
<1> QED BY <1>6 DEF most

\* A ready system process waits for the CPU no longer than one quantum for every
\* place it had in its queue when it became ready, whatever is spawned, sleeps,
\* wakes or is preempted meanwhile (scheduler.c:114-125, clock.c:104-108), for any
\* number of processes, any quantum and any range of the clock.
THEOREM WaitIsBoundedHolds == TimedSpec => []WaitIsBounded
<1>1. TimedInit => Inv /\ TimesOK /\ WaitInv
  BY TimedInitStep
<1>2. Inv /\ TimesOK /\ WaitInv /\ [TimedNext]_timedVars => (Inv /\ TimesOK /\ WaitInv)'
  BY TimedNextStep
<1>3. Inv /\ TimesOK /\ WaitInv => WaitIsBounded
  BY BoundFollows
<1> QED BY <1>1, <1>2, <1>3, PTL DEF TimedSpec

-----------------------------------------------------------------------------
(* Sleeping for as long as asked: the wake-up time of a measured sleeper is *)
(* the time it has left from now, modulo the range of the clock, and the    *)
(* sleepers are in the order of what they have left.  This holds across the *)
(* wrap of the clock; only the comparison in the clock interrupt does not.  *)

Left(p) == target[p] - age[p]

OnTime(p) ==
  /\ target[p] >= 1 /\ target[p] < N_TIMES \div 2
  /\ IF isr = "none" THEN age[p] < target[p] ELSE age[p] <= target[p]
  /\ wakeup[p] = (system_time + Left(p)) % N_TIMES

\* Either nobody's sleep is measured or everybody's is.
AllOnTime ==
  /\ \A i \in DOMAIN sleeping : OnTime(sleeping[i])
  /\ \A i, j \in DOMAIN sleeping : i < j => Left(sleeping[i]) <= Left(sleeping[j])
SleepersOnTime == (\A i \in DOMAIN sleeping : target[sleeping[i]] = 0) \/ AllOnTime

\* What the proofs use of the queue.
SleeperElements ==
  /\ sleeping \in Seq(PCBs) /\ Len(sleeping) \in Nat /\ DOMAIN sleeping = 1..Len(sleeping)
  /\ \A i \in DOMAIN sleeping : sleeping[i] \in PCBs /\ state[sleeping[i]] = "SLEEPING"

LEMMA ElementsSleep == Inv => SleeperElements
<1> SUFFICES ASSUME Inv PROVE SleeperElements
  OBVIOUS
<1>1. sleeping \in Seq(PCBs) /\ Len(sleeping) \in Nat /\ DOMAIN sleeping = 1..Len(sleeping)
  BY LenProperties DEF Inv, TypeOK
<1>2. \A i \in DOMAIN sleeping : sleeping[i] \in PCBs /\ sleeping[i] \in ToSet(sleeping)
  BY <1>1, ElementOfSeq DEF ToSet
<1> QED BY <1>1, <1>2 DEF SleeperElements, Inv, Placement

LEMMA ElementsSleepNext == (Inv => SleeperElements)'
  BY ElementsSleep, PTL

\* What Measure does to the sleepers.
LEMMA MeasureSleepers ==
  ASSUME TimesOK, NEW t \in Nat, Measure(t), NEW p \in PCBs, state'[p] = "SLEEPING"
  PROVE  /\ Unordered(t) => target'[p] = 0
         /\ ~Unordered(t) /\ state[p] = "SLEEPING" =>
              target'[p] = target[p] /\ (target[p] # 0 => age'[p] = age[p])
         /\ ~Unordered(t) /\ state[p] # "SLEEPING" => target'[p] = t /\ age'[p] = 0
<1> DEFINE measured == {q \in Measured(state', prio') :
                          ~(state'[q] = "SLEEPING" /\ Unordered(t))}
           kept == {q \in measured : state'[q] = state[q]}
           entered == measured \ kept
           target1 == [q \in PCBs |->
             CASE q \in kept -> target[q]
               [] q \in entered /\ state'[q] = "SLEEPING" -> t
               [] q \in entered /\ state'[q] = "READY" -> Len(ready'[0])
               [] OTHER -> 0]
<1>1. /\ target' = target1
      /\ age' = [q \in PCBs |-> IF q \in kept /\ target1[q] # 0 THEN age[q] ELSE 0]
  BY DEF Measure
<1>2. p \in Measured(state', prio')
  BY DEF Measured
<1>3. CASE Unordered(t)
  <2>1. p \notin measured
    BY <1>3
  <2>2. target1[p] = 0
    BY <2>1
  <2> QED BY <1>1, <1>3, <2>2
<1>4. CASE ~Unordered(t)
  <2>1. p \in measured /\ (p \in kept <=> state[p] = "SLEEPING")
    BY <1>2, <1>4
  <2>2. target1[p] = IF p \in kept THEN target[p] ELSE t
    BY <2>1
  <2>3. age'[p] = IF p \in kept /\ target1[p] # 0 THEN age[p] ELSE 0
    BY <1>1
  <2> HIDE DEF kept, target1
  <2> QED BY <1>1, <1>4, <2>1, <2>2, <2>3
<1> QED BY <1>3, <1>4

\* A sleeper that nothing happens to stays on time, if it is still so after the handler.
LEMMA StaysOnTime ==
  ASSUME TimesOK, NEW t \in Nat, Measure(t), ~Unordered(t), system_time' = system_time,
         NEW p \in PCBs, state[p] = "SLEEPING", state'[p] = "SLEEPING",
         OnTime(p), wakeup'[p] = wakeup[p], isr' = "none" => age[p] < target[p]
  PROVE  OnTime(p)' /\ Left(p)' = Left(p)
<1>1. age[p] \in Nat /\ target[p] \in Nat /\ target[p] # 0
  BY DEF TimesOK, OnTime
<1>2. target'[p] = target[p] /\ age'[p] = age[p]
  BY <1>1, MeasureSleepers
<1> QED BY <1>1, <1>2 DEF OnTime, Left

\* When the head of the queue is not due, nobody is.
LEMMA NobodyLeft ==
  ASSUME Inv, TimesOK, AllOnTime, isr = "wake" => ~HeadIsDue, NEW i \in DOMAIN sleeping
  PROVE  age[sleeping[i]] < target[sleeping[i]]
<1>1. SleeperElements
  BY ElementsSleep
<1>2. sleeping[i] \in PCBs /\ sleeping[1] \in PCBs /\ 1 \in DOMAIN sleeping /\ i >= 1
      /\ sleeping # <<>> /\ Head(sleeping) = sleeping[1]
  BY <1>1, EmptySeq DEF SleeperElements
<1>3. /\ age[sleeping[i]] \in Nat /\ target[sleeping[i]] \in Nat
      /\ age[sleeping[1]] \in Nat /\ target[sleeping[1]] \in Nat
  BY <1>2 DEF TimesOK
<1>4. Left(sleeping[1]) <= Left(sleeping[i])
  <2>1. CASE i = 1
    BY <1>3, <2>1 DEF Left
  <2>2. CASE i # 1
    <3>1. 1 < i
      BY <1>1, <1>2, <2>2 DEF SleeperElements
    <3> QED BY <1>2, <3>1 DEF AllOnTime
  <2> QED BY <2>1, <2>2
<1>5. CASE isr = "none"
  BY <1>5 DEF AllOnTime, OnTime
<1>6. CASE isr = "wake"
  <2>1. age[sleeping[1]] <= target[sleeping[1]]
        /\ wakeup[sleeping[1]] = (system_time + Left(sleeping[1])) % N_TIMES
    BY <1>2, <1>6 DEF AllOnTime, OnTime
  <2>2. system_time \in 0..(N_TIMES - 1) /\ N_TIMES \in Nat
    BY ModulusAssumption DEF Inv, TypeOK, Times
  <2>3. Left(sleeping[1]) = 0 => wakeup[sleeping[1]] = system_time
    BY <2>1, <2>2
  <2>4. wakeup[sleeping[1]] # system_time
    BY <1>2, <1>6, <2>2 DEF HeadIsDue
  <2>5. age[sleeping[1]] < target[sleeping[1]]
    BY <1>3, <2>1, <2>3, <2>4 DEF Left
  <2> QED BY <1>3, <1>4, <2>5 DEF Left
<1> QED BY <1>5, <1>6 DEF Inv, TypeOK

\* A step that leaves the queue, the clock and the keys of the sleepers alone.
LEMMA SleepersStay ==
  ASSUME Inv, Inv', TimesOK, SleepersOnTime, Measure(0),
         sleeping' = sleeping, system_time' = system_time,
         \A i \in DOMAIN sleeping : wakeup'[sleeping[i]] = wakeup[sleeping[i]],
         isr' = isr \/ ~HeadIsDue
  PROVE  SleepersOnTime'
<1>1. SleeperElements /\ SleeperElements'
  BY ElementsSleep, ElementsSleepNext
<1>2. \A i \in DOMAIN sleeping : /\ sleeping[i] \in PCBs /\ state[sleeping[i]] = "SLEEPING"
                                 /\ state'[sleeping[i]] = "SLEEPING"
  BY <1>1 DEF SleeperElements
<1>3. ~Unordered(0)
  BY DEF Unordered
<1>4. CASE \A i \in DOMAIN sleeping : target[sleeping[i]] = 0
  <2>1. \A i \in DOMAIN sleeping : target'[sleeping[i]] = 0
    BY <1>2, <1>3, <1>4, MeasureSleepers
  <2> QED BY <2>1 DEF SleepersOnTime
<1>5. CASE AllOnTime
  <2>1. ASSUME NEW i \in DOMAIN sleeping
        PROVE  OnTime(sleeping[i])' /\ Left(sleeping[i])' = Left(sleeping[i])
    <3> PICK p : p = sleeping[i]
      OBVIOUS
    <3>1. p \in PCBs /\ state[p] = "SLEEPING" /\ state'[p] = "SLEEPING" /\ OnTime(p)
          /\ wakeup'[p] = wakeup[p]
      BY <1>2, <1>5 DEF AllOnTime
    <3>2. isr' = "none" => age[p] < target[p]
      <4>1. CASE isr = "none"
        BY <3>1, <4>1 DEF OnTime
      <4>2. CASE isr # "none" /\ isr' = "none"
        BY <1>5, <4>2, NobodyLeft
      <4> QED BY <4>1, <4>2
    <3>3. OnTime(p)' /\ Left(p)' = Left(p)
      BY <1>3, <3>1, <3>2, StaysOnTime
    <3> QED BY <3>3 DEF OnTime, Left
  <2>2. \A i \in DOMAIN sleeping : OnTime(sleeping[i])' /\ Left(sleeping[i])' = Left(sleeping[i])
    BY <2>1
  <2>3. AllOnTime'
    BY <1>5, <2>2 DEF AllOnTime, OnTime, Left
  <2> QED BY <2>3 DEF SleepersOnTime
<1> QED BY <1>4, <1>5 DEF SleepersOnTime

\* What is inserted behind all that are not after it and in front of one that is.
LEMMA OrderedInsert ==
  ASSUME NEW n \in Nat, NEW k \in 1..(n + 1), NEW key \in Int,
         NEW w \in [1..n -> Int], NEW v \in [1..(n + 1) -> Int],
         \A i, j \in 1..n : i < j => w[i] <= w[j],
         \A i \in 1..(k - 1) : v[i] = w[i] /\ w[i] <= key,
         v[k] = key /\ (k <= n => key <= w[k]),
         \A i \in (k + 1)..(n + 1) : v[i] = w[i - 1]
  PROVE  \A i, j \in 1..(n + 1) : i < j => v[i] <= v[j]
<1>1. \A i \in 1..(n + 1) : i \in 1..(k - 1) \/ i = k \/ i \in (k + 1)..(n + 1)
  OBVIOUS
<1>2. \A i \in k..n : key <= w[i]
  OBVIOUS
<1> SUFFICES ASSUME NEW i \in 1..(n + 1), NEW j \in 1..(n + 1), i < j PROVE v[i] <= v[j]
  OBVIOUS
<1>3. CASE j \in 1..(k - 1)
  BY <1>3
<1>4. CASE j = k
  BY <1>4
<1>5. CASE j \in (k + 1)..(n + 1)
  <2>1. v[j] = w[j - 1] /\ j - 1 \in 1..n /\ j - 1 \in k..n
    BY <1>5
  <2>2. CASE i \in 1..(k - 1)
    BY <2>1, <2>2
  <2>3. CASE i = k
    BY <1>2, <2>1, <2>3
  <2>4. CASE i \in (k + 1)..(n + 1)
    <3>1. v[i] = w[i - 1] /\ i - 1 \in 1..n /\ i - 1 < j - 1
      BY <2>4
    <3> QED BY <2>1, <3>1
  <2> QED BY <1>1, <2>2, <2>3, <2>4
<1> QED BY <1>1, <1>3, <1>4, <1>5

\* The signed difference of two keys that are less than half a turn from now tells
\* which is later, wherever the clock wraps.
LEMMA LaterFromNow ==
  ASSUME NEW T \in Times, NEW a \in Nat, NEW b \in Nat,
         a < N_TIMES \div 2, b < N_TIMES \div 2
  PROVE  NotBefore((T + a) % N_TIMES, (T + b) % N_TIMES) <=> b <= a
<1>1. PICK N \in Nat : N = N_TIMES /\ N >= 2
  BY ModulusAssumption
<1>2. PICK h \in Nat : h = N_TIMES \div 2 /\ 2 * h <= N
  BY <1>1
<1> DEFINE x == (T + a) % N
           y == (T + b) % N
<1>3. T \in 0..(N - 1)
  BY <1>1 DEF Times
<1>4. /\ x = IF T + a < N THEN T + a ELSE T + a - N
      /\ y = IF T + b < N THEN T + b ELSE T + b - N
  BY <1>1, <1>2, <1>3
<1>5. x \in 0..(N - 1) /\ y \in 0..(N - 1)
  BY <1>1, <1>2, <1>3, <1>4
<1>6. NotBefore(x, y) <=> (x - y) % N < h
  BY <1>1, <1>2 DEF NotBefore
<1> HIDE DEF x, y
<1>7. (x - y) % N = IF y <= x THEN x - y ELSE x - y + N
  BY <1>1, <1>5
<1>8. (x - y) % N < h <=> b <= a
  BY <1>1, <1>2, <1>3, <1>4, <1>5, <1>7
<1> QED BY <1>1, <1>6, <1>8 DEF x, y

LEMMA SleeperEnters ==
  ASSUME Inv, Inv', TimesOK, SleepersOnTime, NEW t \in SleepTimes, Sleep(t), Measure(t)
  PROVE  SleepersOnTime'
<1>1. SleeperElements /\ SleeperElements'
  BY ElementsSleep, ElementsSleepNext
<1>2. /\ t \in Nat /\ t >= 1 /\ N_TIMES \in Nat /\ N_TIMES >= 2 /\ system_time \in Nat
      /\ current \in PCBs /\ state[current] = "RUNNING" /\ wakeup \in [PCBs -> Times]
  BY InputAssumption, ModulusAssumption DEF Sleep, Inv, TypeOK, Placement, Times
<1>3. CASE Unordered(t)
  <2>1. \A i \in DOMAIN sleeping' : target'[sleeping'[i]] = 0
    BY <1>1, <1>2, <1>3, MeasureSleepers DEF SleeperElements
  <2> QED BY <2>1 DEF SleepersOnTime
<1>4. CASE ~Unordered(t)
  <2> DEFINE n == Len(sleeping)
             key == (system_time + t) % N_TIMES
  <2>1. t < N_TIMES \div 2 /\ AllOnTime
    BY <1>2, <1>4 DEF Unordered, SleepersOnTime, AllOnTime
  <2>2. PICK k \in 1..(n + 1) : IsSleepPosition(k, key) /\ sleeping' = InsertAt(sleeping, k, current)
    BY DEF Sleep
  <2>3. /\ wakeup' = [wakeup EXCEPT ![current] = key]
        /\ system_time' = system_time /\ isr' = isr /\ isr = "none"
    BY DEF Sleep, UserMode
  <2>4. /\ sleeping' \in Seq(PCBs) /\ Len(sleeping') = n + 1
        /\ \A i \in 1..(k - 1) : sleeping'[i] = sleeping[i]
        /\ sleeping'[k] = current
        /\ \A i \in (k + 1)..(n + 1) : sleeping'[i] = sleeping[i - 1]
    <3>1. sleeping \in Seq(PCBs) /\ current \in PCBs /\ k \in 1..(Len(sleeping) + 1)
      BY <1>1, <1>2 DEF SleeperElements
    <3> DEFINE t1 == InsertAt(sleeping, k, current)
    <3>2. /\ t1 \in Seq(PCBs) /\ Len(t1) = Len(sleeping) + 1
          /\ \A i \in 1..(k - 1) : t1[i] = sleeping[i]
          /\ t1[k] = current
          /\ \A i \in (k + 1)..(Len(sleeping) + 1) : t1[i] = sleeping[i - 1]
      BY <3>1, InsertElements
    <3> QED BY <2>2, <3>2
  <2>5. n \in Nat /\ DOMAIN sleeping = 1..n /\ DOMAIN sleeping' = 1..(n + 1)
    BY <1>1, <2>4 DEF SleeperElements
  <2>6. ASSUME NEW i \in 1..n, NEW p, p = sleeping[i]
        PROVE  /\ OnTime(p)' /\ Left(p)' = Left(p)
               /\ Left(p) \in Nat /\ Left(p) < N_TIMES \div 2
               /\ wakeup[p] = (system_time + Left(p)) % N_TIMES
    <3>1. p \in PCBs /\ state[p] = "SLEEPING" /\ OnTime(p) /\ p # current
      BY <1>1, <1>2, <2>1, <2>5, <2>6 DEF SleeperElements, AllOnTime
    <3>2. state'[p] = "SLEEPING"
      <4>1. i \in 1..(k - 1) \/ (i + 1 \in (k + 1)..(n + 1) /\ (i + 1) - 1 = i)
        BY <2>5
      <4>2. \E j \in 1..(n + 1) : sleeping'[j] = p
        <5>1. CASE i \in 1..(k - 1)
          BY <2>4, <2>5, <2>6, <5>1
        <5>2. CASE i + 1 \in (k + 1)..(n + 1) /\ (i + 1) - 1 = i
          <6>1. sleeping'[i + 1] = sleeping[(i + 1) - 1]
            BY <2>4, <5>2
          <6>2. i + 1 \in 1..(n + 1)
            BY <2>5, <5>2
          <6> QED BY <2>6, <5>2, <6>1, <6>2
        <5> QED BY <4>1, <5>1, <5>2
      <4> QED BY <1>1, <2>5, <4>2 DEF SleeperElements
    <3>3. wakeup'[p] = wakeup[p] /\ (isr' = "none" => age[p] < target[p])
      BY <1>2, <2>3, <3>1 DEF OnTime
    <3>4. OnTime(p)' /\ Left(p)' = Left(p)
      BY <1>2, <1>4, <2>3, <3>1, <3>2, <3>3, StaysOnTime
    <3>5. age[p] \in Nat /\ target[p] \in Nat
      BY <3>1 DEF TimesOK
    <3>6. Left(p) \in Nat /\ Left(p) < N_TIMES \div 2
          /\ wakeup[p] = (system_time + Left(p)) % N_TIMES
      BY <1>2, <2>3, <3>1, <3>5, SMTT(40) DEF OnTime, Left
    <3> QED BY <3>4, <3>6
  <2>7. ASSUME NEW p, p = current
        PROVE  OnTime(p)' /\ Left(p)' = t
    <3>1. p \in PCBs /\ state[p] # "SLEEPING" /\ state'[p] = "SLEEPING"
      BY <1>1, <1>2, <2>4, <2>5, <2>7 DEF SleeperElements
    <3>2. target'[p] = t /\ age'[p] = 0
      BY <1>2, <1>4, <3>1, MeasureSleepers
    <3>3. wakeup'[p] = key
      BY <1>2, <2>3, <2>7
    <3> QED BY <1>2, <2>1, <2>3, <3>2, <3>3 DEF OnTime, Left
  <2> DEFINE w == [i \in 1..n |-> Left(sleeping[i])]
             v == [i \in 1..(n + 1) |-> IF i = k THEN t
                                        ELSE IF i < k THEN w[i] ELSE w[i - 1]]
  <2>8. \A i \in 1..(n + 1) : i \in 1..(k - 1) \/ i = k \/ i \in (k + 1)..(n + 1)
    BY <2>5
  <2>9. ASSUME NEW i \in 1..(n + 1), NEW p, p = sleeping'[i]
        PROVE  OnTime(p)' /\ Left(p)' = v[i]
    <3>1. CASE i \in 1..(k - 1)
      <4>1. i \in 1..n /\ p = sleeping[i] /\ v[i] = Left(p)
        BY <2>4, <2>5, <2>9, <3>1
      <4> QED BY <2>6, <4>1
    <3>2. CASE i = k
      BY <2>4, <2>7, <2>9, <3>2
    <3>3. CASE i \in (k + 1)..(n + 1)
      <4>1. i - 1 \in 1..n /\ p = sleeping[i - 1] /\ v[i] = Left(p)
        BY <2>4, <2>5, <2>9, <3>3
      <4> QED BY <2>6, <4>1
    <3> QED BY <2>8, <3>1, <3>2, <3>3
  <2>10. \A i, j \in 1..(n + 1) : i < j => v[i] <= v[j]
    <3>1. /\ w \in [1..n -> Int] /\ v \in [1..(n + 1) -> Int]
          /\ \A i, j \in 1..n : i < j => w[i] <= w[j]
      <4>1. \A i \in 1..n : w[i] \in Int
        BY <2>6
      <4>2. \A i \in 1..(n + 1) : v[i] \in Int
        <5> HIDE DEF w
        <5> QED BY <1>2, <2>5, <4>1
      <4>3. w \in [1..n -> Int] /\ v \in [1..(n + 1) -> Int]
        BY <4>1, <4>2
      <4>4. \A i, j \in 1..n : i < j => w[i] <= w[j]
        BY <2>1, <2>5 DEF AllOnTime
      <4> QED BY <4>3, <4>4
    <3>2. \A i \in 1..n : NotBefore(key, wakeup[sleeping[i]]) <=> w[i] <= t
      <4> SUFFICES ASSUME NEW i \in 1..n
                   PROVE  NotBefore(key, wakeup[sleeping[i]]) <=> w[i] <= t
        OBVIOUS
      <4> PICK p : p = sleeping[i]
        OBVIOUS
      <4> PICK l : l = Left(p)
        OBVIOUS
      <4>1. l \in Nat /\ l < N_TIMES \div 2 /\ wakeup[sleeping[i]] = (system_time + l) % N_TIMES
            /\ w[i] = l
        BY <2>6
      <4>2. NotBefore((system_time + t) % N_TIMES, (system_time + l) % N_TIMES) <=> l <= t
        BY <1>2, <2>1, <4>1, LaterFromNow DEF Inv, TypeOK
      <4> QED BY <4>1, <4>2
    <3>3. \A i \in 1..(k - 1) : i \in 1..n /\ v[i] = w[i] /\ w[i] <= t
      BY <2>2, <2>5, <3>2 DEF IsSleepPosition
    <3>4. v[k] = t /\ (k <= n => t <= w[k])
      BY <1>2, <2>2, <2>5, <3>1, <3>2 DEF IsSleepPosition
    <3>5. \A i \in (k + 1)..(n + 1) : v[i] = w[i - 1]
      BY <2>5
    <3> HIDE DEF w, v, key, n
    <3> QED BY <1>2, <2>5, <3>1, <3>3, <3>4, <3>5, OrderedInsert, SMTT(40)
  <2> HIDE DEF v
  <2>11. AllOnTime'
    <3>1. \A i \in 1..(n + 1) : \A p : p = sleeping'[i] => OnTime(p)' /\ Left(p)' = v[i]
      BY <2>9
    <3>2. \A i \in DOMAIN sleeping' : OnTime(sleeping[i])' /\ Left(sleeping[i])' = v[i]
      BY <2>5, <3>1 DEF OnTime, Left
    <3> QED BY <2>5, <2>10, <3>2 DEF AllOnTime
  <2> QED BY <2>11 DEF SleepersOnTime
<1> QED BY <1>3, <1>4

LEMMA HeadWakes ==
  ASSUME Inv, Inv', TimesOK, SleepersOnTime, ClockWake, Measure(0)
  PROVE  SleepersOnTime'
<1>1. SleeperElements /\ SleeperElements'
  BY ElementsSleep, ElementsSleepNext
<1>2. /\ sleeping' = Tail(sleeping) /\ sleeping # <<>> /\ wakeup' = wakeup
      /\ system_time' = system_time /\ isr' = isr /\ isr = "wake" /\ ~Unordered(0)
  BY DEF ClockWake, HeadIsDue, Unordered
<1>3. ASSUME NEW i \in DOMAIN sleeping'
      PROVE  i + 1 \in DOMAIN sleeping /\ sleeping'[i] = sleeping[i + 1] /\ i \in Nat
  BY <1>1, <1>2, HeadTailProperties DEF SleeperElements
<1>4. ASSUME NEW i \in DOMAIN sleeping', NEW p, p = sleeping'[i]
      PROVE  p \in PCBs /\ state[p] = "SLEEPING" /\ state'[p] = "SLEEPING"
  BY <1>1, <1>3, <1>4 DEF SleeperElements
<1>5. CASE \A i \in DOMAIN sleeping : target[sleeping[i]] = 0
  <2>1. ASSUME NEW i \in DOMAIN sleeping', NEW p, p = sleeping'[i] PROVE target'[p] = 0
    BY <1>2, <1>3, <1>4, <1>5, <2>1, MeasureSleepers
  <2> QED BY <2>1 DEF SleepersOnTime
<1>6. CASE AllOnTime
  <2>1. ASSUME NEW i \in DOMAIN sleeping', NEW p, p = sleeping'[i]
        PROVE  OnTime(p)' /\ Left(p)' = Left(p)
    <3>1. OnTime(p)
      BY <1>3, <1>6, <2>1 DEF AllOnTime
    <3> QED BY <1>2, <1>4, <2>1, <3>1, StaysOnTime
  <2>2. \A i \in DOMAIN sleeping' : OnTime(sleeping[i])'
    BY <2>1 DEF OnTime, Left
  <2>3. \A i \in DOMAIN sleeping' : Left(sleeping[i])' = Left(sleeping[i + 1])
    BY <1>3, <2>1 DEF Left
  <2>4. \A i, j \in DOMAIN sleeping' : i < j => Left(sleeping[i + 1]) <= Left(sleeping[j + 1])
    BY <1>3, <1>6 DEF AllOnTime
  <2> QED BY <2>2, <2>3, <2>4 DEF AllOnTime, SleepersOnTime
<1> QED BY <1>5, <1>6 DEF SleepersOnTime

\* A tick takes one from what everybody has left; an age is not capped before its target.
LEMMA EverybodyTicks ==
  ASSUME Inv, TimesOK, SleepersOnTime, TimedTick
  PROVE  SleepersOnTime'
<1>1. SleeperElements
  BY ElementsSleep
<1>2. /\ sleeping' = sleeping /\ target' = target /\ wakeup' = wakeup
      /\ system_time' = (system_time + 1) % N_TIMES /\ isr = "none" /\ isr' = "wake"
  BY DEF TimedTick, ClockTick, queues, fields
<1>3. /\ system_time \in 0..(N_TIMES - 1) /\ N_TIMES \in Nat /\ N_TIMES >= 2
      /\ QUANTUM_DEFAULT \in Nat /\ QUANTUM_DEFAULT >= 1
  BY ModulusAssumption, QuantumAssumption DEF Inv, TypeOK, Times
<1>4. CASE \A i \in DOMAIN sleeping : target[sleeping[i]] = 0
  BY <1>2, <1>4 DEF SleepersOnTime
<1>5. CASE AllOnTime
  <2>1. ASSUME NEW p \in PCBs, OnTime(p) PROVE OnTime(p)' /\ Left(p)' = Left(p) - 1
    <3>1. age[p] \in Nat /\ target[p] \in Nat /\ target[p] >= 1 /\ age[p] < target[p]
          /\ target[p] < N_TIMES \div 2
          /\ wakeup[p] = (system_time + Left(p)) % N_TIMES
      BY <1>2, <2>1 DEF TimesOK, OnTime
    <3>2. Late(p) \in Nat /\ Late(p) >= target[p] + 1
      <4>1. target[p] * QUANTUM_DEFAULT \in Nat /\ target[p] * QUANTUM_DEFAULT >= target[p]
        BY <1>3, <3>1, SMTT(40)
      <4> QED BY <3>1, <4>1 DEF Late
    <3>3. age'[p] = age[p] + 1
      <4>1. age'[p] = Min({age[p] + 1, Late(p)})
        BY <3>1 DEF TimedTick
      <4>2. age[p] + 1 \in {age[p] + 1, Late(p)} /\ \A y \in {age[p] + 1, Late(p)} : age[p] + 1 <= y
        BY <3>1, <3>2
      <4>3. Min({age[p] + 1, Late(p)}) \in {age[p] + 1, Late(p)}
            /\ \A y \in {age[p] + 1, Late(p)} : Min({age[p] + 1, Late(p)}) <= y
        BY <4>2 DEF Min
      <4> QED BY <3>1, <3>2, <4>1, <4>2, <4>3
    <3>4. Left(p) \in Nat /\ Left(p) >= 1 /\ Left(p) < N_TIMES /\ Left(p)' = Left(p) - 1
      BY <1>2, <1>3, <3>1, <3>3 DEF Left
    <3>5. (system_time + Left(p)) % N_TIMES = (system_time' + (Left(p) - 1)) % N_TIMES
      <4> DEFINE l == Left(p)
                 T == system_time
      <4>1. l \in Nat /\ l >= 1 /\ l < N_TIMES /\ T \in 0..(N_TIMES - 1)
        BY <1>3, <3>4
      <4> HIDE DEF l, T
      <4>2. (T + 1) % N_TIMES = IF T + 1 = N_TIMES THEN 0 ELSE T + 1
        BY <1>3, <4>1
      <4>3. (T + l) % N_TIMES = (((T + 1) % N_TIMES) + (l - 1)) % N_TIMES
        <5>1. CASE T + 1 = N_TIMES
          <6>1. (T + l) % N_TIMES = l - 1 /\ (0 + (l - 1)) % N_TIMES = l - 1
            BY <1>3, <4>1, <5>1
          <6> QED BY <4>2, <5>1, <6>1
        <5>2. CASE T + 1 # N_TIMES
          <6>1. T + l = (T + 1) + (l - 1)
            BY <4>1
          <6> QED BY <4>2, <5>2, <6>1
        <5> QED BY <5>1, <5>2
      <4> QED BY <1>2, <4>3 DEF l, T
    <3>6. wakeup'[p] = (system_time' + Left(p)') % N_TIMES
      BY <1>2, <3>1, <3>4, <3>5
    <3> QED BY <1>2, <3>1, <3>3, <3>4, <3>6 DEF OnTime
  <2>2. \A i \in DOMAIN sleeping : sleeping[i] \in PCBs /\ OnTime(sleeping[i])
    BY <1>1, <1>5 DEF AllOnTime, SleeperElements
  <2>3. \A p \in PCBs : OnTime(p) => OnTime(p)' /\ Left(p)' = Left(p) - 1
    BY <2>1
  <2>4. \A i \in DOMAIN sleeping :
          OnTime(sleeping[i])' /\ Left(sleeping[i])' = Left(sleeping[i]) - 1
                               /\ Left(sleeping[i]) \in Int
    <3> SUFFICES ASSUME NEW i \in DOMAIN sleeping, NEW p, p = sleeping[i]
                 PROVE  OnTime(p)' /\ Left(p)' = Left(p) - 1 /\ Left(p) \in Int
      BY <1>2 DEF OnTime, Left
    <3> QED BY <2>2, <2>3 DEF TimesOK, Left
  <2> QED BY <1>2, <1>5, <2>4 DEF AllOnTime, SleepersOnTime
<1> QED BY <1>4, <1>5 DEF SleepersOnTime

LEMMA OthersLeaveSleepers ==
  ASSUME Inv, ~ClockTick, ~ClockWake, \A t \in SleepTimes : ~Sleep(t), [Next]_vars
  PROVE  /\ sleeping' = sleeping /\ system_time' = system_time
         /\ isr' = isr \/ ~HeadIsDue
         /\ \A i \in DOMAIN sleeping : wakeup'[sleeping[i]] = wakeup[sleeping[i]]
<1>1. SleeperElements /\ state[current] = "RUNNING" /\ current \in PCBs
      /\ wakeup \in [PCBs -> Times] /\ free_pcbs \in Seq(PCBs)
  BY ElementsSleep DEF Inv, TypeOK, Placement
<1>2. CASE Exit
  <2>1. wakeup' = [wakeup EXCEPT ![current] = 0]
    BY <1>2 DEF Exit, ClearFields
  <2> QED BY <1>1, <1>2, <2>1 DEF Exit, SleeperElements
<1>3. ASSUME NEW pr \in SpawnPrios, Spawn(pr)
      PROVE  /\ sleeping' = sleeping /\ system_time' = system_time /\ isr' = isr
             /\ \A i \in DOMAIN sleeping : wakeup'[sleeping[i]] = wakeup[sleeping[i]]
  <2>1. CASE free_pcbs = <<>> \/ free_stacks = <<>>
    BY <1>3, <2>1 DEF Spawn, CreateProcess
  <2>2. CASE ~(free_pcbs = <<>> \/ free_stacks = <<>>)
    <3>1. wakeup' = [wakeup EXCEPT ![Head(free_pcbs)] = 0]
      BY <1>3, <2>2 DEF Spawn, CreateProcess
    <3>2. Head(free_pcbs) \in PCBs /\ Head(free_pcbs) \in ToSet(free_pcbs)
      BY <1>1, <2>2, TailFacts
    <3>3. state[Head(free_pcbs)] = "FREE"
      BY <3>2 DEF Inv, Placement
    <3> QED BY <1>1, <1>3, <3>1, <3>3 DEF Spawn, SleeperElements
  <2> QED BY <2>1, <2>2
<1>4. CASE Yield
  BY <1>4 DEF Yield
<1>5. CASE ClockQuantum
  BY <1>5 DEF ClockQuantum
<1>6. CASE UNCHANGED vars
  BY <1>6 DEF vars, queues, fields
<1> QED BY <1>2, <1>3, <1>4, <1>5, <1>6 DEF Next

LEMMA SleepersNext ==
  Inv /\ TimesOK /\ SleepersOnTime /\ [TimedNext]_timedVars => SleepersOnTime'
<1> SUFFICES ASSUME Inv, TimesOK, SleepersOnTime, [TimedNext]_timedVars PROVE SleepersOnTime'
  OBVIOUS
<1>1. [Next]_vars /\ Inv'
  <2>1. [Next]_vars
    BY DEF TimedNext, TimedTick, timedVars, Next
  <2> QED BY <2>1, NextInv
<1>2. CASE TimedTick
  BY <1>2, EverybodyTicks
<1>3. CASE UNCHANGED timedVars
  <2>1. sleeping' = sleeping /\ system_time' = system_time /\ isr' = isr /\ wakeup' = wakeup
        /\ age' = age /\ target' = target
    BY <1>3 DEF timedVars, vars, queues, fields
  <2> QED BY <2>1 DEF SleepersOnTime, AllOnTime, OnTime, Left
<1>4. ASSUME NEW t \in SleepTimes, Sleep(t), Measure(t) PROVE SleepersOnTime'
  BY <1>1, <1>4, SleeperEnters
<1>5. CASE ClockWake /\ Measure(0)
  BY <1>1, <1>5, HeadWakes
<1>6. CASE /\ Measure(0)
           /\ Exit \/ (\E pr \in SpawnPrios : Spawn(pr)) \/ Yield \/ ClockQuantum
  <2>1. ~ClockTick /\ ~ClockWake
    BY <1>6 DEF Exit, Spawn, Yield, ClockQuantum, ClockTick, ClockWake, UserMode
  <2>2. \A t \in SleepTimes : ~Sleep(t) \/ sleeping' = sleeping
    BY <1>6 DEF Exit, Spawn, Yield, ClockQuantum
  <2>3. ASSUME NEW t \in SleepTimes, Sleep(t), sleeping' = sleeping PROVE FALSE
    <3>1. PICK k \in 1..(Len(sleeping) + 1) : sleeping' = InsertAt(sleeping, k, current)
      BY <2>3 DEF Sleep
    <3>2. sleeping \in Seq(PCBs) /\ current \in PCBs /\ Len(sleeping) \in Nat
      BY ElementsSleep DEF SleeperElements, Inv, TypeOK
    <3>3. Len(sleeping') = Len(sleeping) + 1
      BY <3>1, <3>2, InsertFacts
    <3> QED BY <2>3, <3>2, <3>3
  <2>4. /\ sleeping' = sleeping /\ system_time' = system_time
        /\ isr' = isr \/ ~HeadIsDue
        /\ \A i \in DOMAIN sleeping : wakeup'[sleeping[i]] = wakeup[sleeping[i]]
    BY <1>1, <2>1, <2>2, <2>3, OthersLeaveSleepers
  <2> QED BY <1>1, <1>6, <2>4, SleepersStay
<1> QED BY <1>2, <1>3, <1>4, <1>5, <1>6 DEF TimedNext

\* Only the clock wakes a sleeper, and that is the head of the queue, which is due.
LEMMA OnlyDueWake ==
  ASSUME Inv, [Next]_vars, NEW p \in PCBs, Wakes(p)
  PROVE  sleeping # <<>> /\ p = Head(sleeping) /\ wakeup[p] <= system_time
<1>1. Inv' /\ p \in ToSet(sleeping) /\ p \notin ToSet(sleeping')
  <2>1. Inv'
    BY NextInv
  <2>2. p \in ToSet(sleeping)
    BY DEF Wakes, Inv, Placement
  <2>3. p \notin ToSet(sleeping')
    BY <2>1 DEF Wakes, Inv, Placement
  <2> QED BY <2>1, <2>2, <2>3
<1>2. CASE sleeping' = sleeping
  BY <1>1, <1>2
<1>3. ASSUME NEW t \in SleepTimes, Sleep(t) PROVE FALSE
  <2>1. PICK k \in 1..(Len(sleeping) + 1) : sleeping' = InsertAt(sleeping, k, current)
    BY <1>3 DEF Sleep
  <2>2. sleeping \in Seq(PCBs) /\ current \in PCBs
    BY DEF Inv, TypeOK
  <2>3. ToSet(sleeping') = ToSet(sleeping) \cup {current}
    BY <2>1, <2>2, InsertFacts
  <2> QED BY <1>1, <2>3
<1>4. CASE ClockWake
  <2>1. sleeping \in Seq(PCBs) /\ sleeping # <<>> /\ IsInjective(sleeping)
        /\ sleeping' = Tail(sleeping) /\ wakeup[Head(sleeping)] <= system_time
    BY <1>4 DEF Inv, TypeOK, Placement, ClockWake, HeadIsDue
  <2>2. ToSet(Tail(sleeping)) = ToSet(sleeping) \ {Head(sleeping)}
    BY <2>1, TailFacts
  <2> QED BY <1>1, <2>1, <2>2
<1>5. sleeping' = sleeping \/ ClockWake \/ \E t \in SleepTimes : Sleep(t)
  BY DEF Next, Exit, Spawn, Yield, ClockTick, ClockQuantum, vars, queues
<1> QED BY <1>2, <1>3, <1>4, <1>5

LEMMA WakesAsAsked ==
  ASSUME Inv, TimesOK, SleepersOnTime, [Next]_vars, NEW p \in PCBs, Wakes(p),
         target[p] # 0, wakeup[p] >= target[p]
  PROVE  age[p] = target[p]
<1>1. sleeping # <<>> /\ p = Head(sleeping) /\ wakeup[p] <= system_time
  BY OnlyDueWake
<1>2. 1 \in DOMAIN sleeping /\ p = sleeping[1]
  <2>1. SleeperElements
    BY ElementsSleep
  <2> QED BY <1>1, <2>1, EmptySeq DEF SleeperElements
<1>3. OnTime(p)
  BY <1>2 DEF SleepersOnTime, AllOnTime
<1>4. /\ age[p] \in Nat /\ target[p] \in Nat /\ age[p] <= target[p]
      /\ target[p] < N_TIMES \div 2 /\ wakeup[p] = (system_time + Left(p)) % N_TIMES
  BY <1>3 DEF OnTime, TimesOK
<1>5. system_time \in 0..(N_TIMES - 1) /\ N_TIMES \in Nat /\ N_TIMES >= 2
  BY ModulusAssumption DEF Inv, TypeOK, Times
<1>6. CASE system_time + Left(p) < N_TIMES
  <2>1. wakeup[p] = system_time + Left(p)
    BY <1>4, <1>5, <1>6 DEF Left
  <2> QED BY <1>1, <1>4, <1>5, <2>1 DEF Left
<1>7. CASE ~(system_time + Left(p) < N_TIMES)
  <2>1. wakeup[p] = system_time + Left(p) - N_TIMES
    BY <1>4, <1>5, <1>7 DEF Left
  <2> QED BY <1>4, <1>5, <2>1 DEF Left
<1> QED BY <1>6, <1>7

\* Whoever asked to sleep for less than half a turn of the clock, while nobody slept
\* for longer, and whose time ends before the wrap, sleeps for the time it asked for
\* and not a tick more or less, whoever goes to sleep, wakes, exits, is created or is
\* preempted meanwhile (syscall.c:176-178, queue.c:300-310, clock.c:79-102), for any
\* number of processes, any quantum and any range of the clock.
THEOREM SleepsAsAskedHolds == TimedSpec => SleepsAsAsked
<1>1. TimedInit => Inv /\ TimesOK /\ WaitInv /\ SleepersOnTime
  <2>1. TimedInit => sleeping = <<>>
    BY DEF TimedInit, Init
  <2>2. sleeping = <<>> => SleepersOnTime
    BY DEF SleepersOnTime
  <2> QED BY <2>1, <2>2, TimedInitStep
<1>2. Inv /\ TimesOK /\ WaitInv /\ SleepersOnTime /\ [TimedNext]_timedVars
      => (Inv /\ TimesOK /\ WaitInv /\ SleepersOnTime)'
  BY TimedNextStep, SleepersNext
<1>3. Inv /\ TimesOK /\ SleepersOnTime /\ [TimedNext]_timedVars =>
      [\A p \in PCBs : Wakes(p) /\ target[p] # 0 /\ wakeup[p] >= target[p]
                       => age[p] = target[p]]_timedVars
  <2> SUFFICES ASSUME Inv, TimesOK, SleepersOnTime, [TimedNext]_timedVars,
                      NEW p \in PCBs, Wakes(p), target[p] # 0, wakeup[p] >= target[p]
               PROVE  age[p] = target[p]
    OBVIOUS
  <2>1. [Next]_vars
    BY DEF TimedNext, TimedTick, timedVars, Next
  <2> QED BY <2>1, WakesAsAsked
<1> QED BY <1>1, <1>2, <1>3, PTL DEF TimedSpec, SleepsAsAsked

=============================================================================
