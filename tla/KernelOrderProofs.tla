------------------------- MODULE KernelOrderProofs -------------------------
(***************************************************************************)
(* The order of the sleepers, for every value of the constants but up to   *)
(* the uptime MaxTime at which no wake-up time is beyond the half of the   *)
(* clock's range: from there on _compare_time and the comparison in the    *)
(* clock interrupt disagree, and the properties fail.  The behaviours are  *)
(* those of MCKernel, which end then.                                      *)
(***************************************************************************)
EXTENDS MCKernel, KernelProofs

Half == N_TIMES \div 2

\* The order needs to know that nothing that is compared has wrapped.
OrderInv ==
  /\ system_time \in 0..MaxTime
  /\ \A i \in DOMAIN sleeping : wakeup[sleeping[i]] < Half
  /\ SleepOrder
  /\ NoOverdueSleeper

-----------------------------------------------------------------------------
(* Comparing keys.                                                         *)

\* Within half of the range the signed difference tells the order.
LEMMA CompareFacts ==
  ASSUME NEW a \in Nat, NEW b \in Nat, a < Half, b < Half
  PROVE  NotBefore(a, b) <=> b <= a
<1>1. N_TIMES \in Nat /\ N_TIMES > 0 /\ Half \in Nat /\ 2 * Half <= N_TIMES
  BY ModulusAssumption DEF Half
<1>2. CASE b <= a
  <2>1. (a - b) % N_TIMES = a - b
    BY <1>1, <1>2
  <2> QED BY <1>1, <1>2, <2>1 DEF NotBefore, Half
<1>3. CASE a < b
  <2>1. (a - b) % N_TIMES = a - b + N_TIMES
    BY <1>1, <1>3
  <2> QED BY <1>1, <1>3, <2>1 DEF NotBefore, Half
<1> QED BY <1>2, <1>3

\* What the proofs use of the horizon.
LEMMA HorizonFacts ==
  /\ MaxTime \in Nat /\ Half \in Nat /\ N_TIMES \in Nat
  /\ MaxTime < Half /\ 2 * Half <= N_TIMES
  /\ \A t \in SleepTimes : t \in Nat /\ MaxTime + t < Half
<1>1. 0 \in SleepTimes \cup {0}
  OBVIOUS
<1> QED BY <1>1, HorizonAssumption, ModulusAssumption, InputAssumption DEF Half

\* The sleepers and their wake-up times.
LEMMA SleeperFacts ==
  ASSUME Inv
  PROVE  /\ sleeping \in Seq(PCBs) /\ Len(sleeping) \in Nat
         /\ DOMAIN sleeping = 1..Len(sleeping)
         /\ \A i \in DOMAIN sleeping :
              /\ sleeping[i] \in PCBs
              /\ state[sleeping[i]] = "SLEEPING"
              /\ wakeup[sleeping[i]] \in Nat
         /\ current \in PCBs /\ state[current] = "RUNNING"
         /\ system_time \in Nat /\ wakeup \in [PCBs -> Times]
<1>1. sleeping \in Seq(PCBs) /\ wakeup \in [PCBs -> Times] /\ system_time \in Times
  BY DEF Inv, TypeOK
<1>2. Len(sleeping) \in Nat /\ DOMAIN sleeping = 1..Len(sleeping)
  BY <1>1, LenProperties
<1>3. ASSUME NEW i \in DOMAIN sleeping
      PROVE  sleeping[i] \in PCBs /\ state[sleeping[i]] = "SLEEPING"
  <2>1. sleeping[i] \in PCBs /\ sleeping[i] \in ToSet(sleeping)
    BY <1>1, <1>2, ElementOfSeq DEF ToSet
  <2> QED BY <2>1 DEF Inv, Placement
<1>4. Times \subseteq Nat
  BY DEF Times
<1>5. current \in PCBs /\ state[current] = "RUNNING"
  BY DEF Inv, TypeOK, Placement
<1> QED BY <1>1, <1>2, <1>3, <1>4, <1>5

-----------------------------------------------------------------------------
(* One lemma for each kind of step.                                        *)

\* A step that leaves the queue and the keys in it alone.
LEMMA QueueKept ==
  ASSUME OrderInv, sleeping' = sleeping, isr' = isr, system_time' = system_time,
         \A i \in DOMAIN sleeping : wakeup'[sleeping[i]] = wakeup[sleeping[i]]
  PROVE  OrderInv'
BY DEF OrderInv, SleepOrder, NoOverdueSleeper

\* A process that exits is not asleep, nor is one that is created: the keys
\* that they clear are not in the queue.
LEMMA ExitOrder ==
  ASSUME Inv, OrderInv, Exit
  PROVE  OrderInv'
<1>1. wakeup' = [wakeup EXCEPT ![current] = 0]
  BY DEF Exit, ClearFields
<1>2. \A i \in DOMAIN sleeping : wakeup'[sleeping[i]] = wakeup[sleeping[i]]
  BY <1>1, SleeperFacts
<1> QED BY <1>2, QueueKept DEF Exit

LEMMA SpawnOrder ==
  ASSUME Inv, OrderInv, NEW pr \in SpawnPrios, Spawn(pr)
  PROVE  OrderInv'
<1>1. CASE free_pcbs = <<>> \/ free_stacks = <<>>
  <2>1. wakeup' = wakeup
    BY <1>1 DEF Spawn, CreateProcess
  <2> QED BY <2>1, QueueKept DEF Spawn
<1>2. CASE ~(free_pcbs = <<>> \/ free_stacks = <<>>)
  <2>1. wakeup' = [wakeup EXCEPT ![Head(free_pcbs)] = 0]
    BY <1>2 DEF Spawn, CreateProcess
  <2>2. Head(free_pcbs) \in PCBs /\ Head(free_pcbs) \in ToSet(free_pcbs)
    BY <1>2, TailFacts DEF Inv, TypeOK
  <2>3. state[Head(free_pcbs)] = "FREE"
    BY <2>2 DEF Inv, Placement
  <2>4. \A i \in DOMAIN sleeping : wakeup'[sleeping[i]] = wakeup[sleeping[i]]
    BY <2>1, <2>3, SleeperFacts
  <2> QED BY <2>4, QueueKept DEF Spawn
<1> QED BY <1>1, <1>2

\* _queue_insert puts a sleeper behind all that wake up before it or with it,
\* and in front of the others.
LEMMA SleepOrderKept ==
  ASSUME Inv, OrderInv, NEW t \in SleepTimes, Sleep(t)
  PROVE  OrderInv'
<1> DEFINE key == (system_time + t) % N_TIMES
           n == Len(sleeping)
           w(i) == wakeup[sleeping[i]]
<1>1. /\ n \in Nat /\ DOMAIN sleeping = 1..n /\ sleeping \in Seq(PCBs)
      /\ \A i \in 1..n : w(i) \in Nat /\ w(i) < Half /\ sleeping[i] # current
      /\ \A i, j \in 1..n : i < j => w(i) <= w(j)
      /\ system_time \in Nat /\ system_time <= MaxTime /\ current \in PCBs
  BY SleeperFacts DEF OrderInv, SleepOrder
<1>2. /\ key = system_time + t /\ key \in Nat /\ key < Half
      /\ t \in Nat /\ t # 0 /\ key > system_time
  <2>1. t \in Nat /\ t # 0 /\ system_time + t < Half
    BY <1>1, HorizonFacts DEF Sleep
  <2>2. system_time + t < N_TIMES
    BY <1>1, <2>1, HorizonFacts
  <2>3. key = system_time + t
    BY <1>1, <2>1, <2>2, HorizonFacts
  <2> QED BY <1>1, <2>1, <2>3
<1>3. PICK k \in 1..(n + 1) : IsSleepPosition(k, key) /\ sleeping' = InsertAt(sleeping, k, current)
  BY DEF Sleep
<1>4. /\ wakeup' = [wakeup EXCEPT ![current] = key]
      /\ system_time' = system_time /\ isr' = isr /\ isr = "none"
  BY DEF Sleep, UserMode
<1>5. /\ \A j \in 1..(k - 1) : NotBefore(key, w(j))
      /\ k <= n => ~NotBefore(key, w(k))
  BY <1>3 DEF IsSleepPosition
<1>6. /\ sleeping' \in Seq(PCBs) /\ Len(sleeping') = n + 1
      /\ \A i \in 1..(k - 1) : sleeping'[i] = sleeping[i]
      /\ sleeping'[k] = current
      /\ \A i \in (k + 1)..(n + 1) : sleeping'[i] = sleeping[i - 1]
  <2>1. /\ sleeping \in Seq(PCBs) /\ current \in PCBs
        /\ k \in 1..(Len(sleeping) + 1)
    BY <1>1
  <2> DEFINE t1 == InsertAt(sleeping, k, current)
  <2>2. /\ t1 \in Seq(PCBs) /\ Len(t1) = Len(sleeping) + 1
        /\ \A i \in 1..(k - 1) : t1[i] = sleeping[i]
        /\ t1[k] = current
        /\ \A i \in (k + 1)..(Len(sleeping) + 1) : t1[i] = sleeping[i - 1]
    BY <2>1, InsertElements
  <2> QED BY <1>3, <2>2
<1>7. DOMAIN sleeping' = 1..(n + 1)
  BY <1>6, LenProperties
<1> DEFINE v(i) == wakeup'[sleeping'[i]]
<1>8. /\ \A i \in 1..(k - 1) : i \in 1..n /\ v(i) = w(i)
      /\ v(k) = key
      /\ \A i \in (k + 1)..(n + 1) : i - 1 \in 1..n /\ v(i) = w(i - 1)
  <2>1. \A q \in PCBs : wakeup'[q] = IF q = current THEN key ELSE wakeup[q]
    BY <1>4, SleeperFacts
  <2>2. \A i \in 1..n : sleeping[i] \in PCBs
    BY <1>1, SleeperFacts
  <2>3. /\ \A i \in 1..(k - 1) : i \in 1..n
        /\ \A i \in (k + 1)..(n + 1) : i - 1 \in 1..n
    BY <1>1
  <2> HIDE DEF key, n
  <2> QED BY <1>1, <1>6, <2>1, <2>2, <2>3
<1> HIDE DEF key, n, w, v
<1>9. /\ \A i \in 1..(k - 1) : w(i) <= key
      /\ \A i \in k..n : key <= w(i)
  <2>1. ASSUME NEW i \in 1..(k - 1) PROVE w(i) <= key
    BY <1>1, <1>2, <1>5, CompareFacts
  <2>2. ASSUME NEW i \in k..n PROVE key <= w(i)
    <3>1. k \in 1..n /\ i \in 1..n
      BY <1>1
    <3>2. key < w(k)
      BY <1>1, <1>2, <1>5, <3>1, CompareFacts
    <3>3. w(k) <= w(i)
      BY <1>1, <3>1
    <3> QED BY <1>1, <1>2, <3>1, <3>2, <3>3
  <2> QED BY <2>1, <2>2
<1>10. \A i \in 1..(n + 1) : i \in 1..(k - 1) \/ i = k \/ i \in (k + 1)..(n + 1)
  BY <1>1
<1>11. ASSUME NEW i \in 1..(n + 1), NEW j \in 1..(n + 1), i < j
       PROVE  v(i) <= v(j)
  <2>1. CASE j \in 1..(k - 1)
    BY <1>1, <1>8, <1>11, <2>1
  <2>2. CASE j = k
    BY <1>1, <1>8, <1>9, <1>11, <2>2
  <2>3. CASE j \in (k + 1)..(n + 1)
    <3>1. v(j) = w(j - 1) /\ j - 1 \in 1..n /\ j - 1 \in k..n
      BY <1>1, <1>8, <2>3
    <3>2. CASE i \in 1..(k - 1)
      BY <1>1, <1>8, <3>1, <3>2
    <3>3. CASE i = k
      BY <1>8, <1>9, <3>1, <3>3
    <3>4. CASE i \in (k + 1)..(n + 1)
      <4>1. v(i) = w(i - 1) /\ i - 1 \in 1..n /\ i - 1 < j - 1
        BY <1>8, <1>11, <3>4
      <4> QED BY <1>1, <3>1, <4>1
    <3> QED BY <1>10, <3>2, <3>3, <3>4
  <2> QED BY <1>10, <2>1, <2>2, <2>3
<1>12. ASSUME NEW i \in 1..(n + 1)
       PROVE  v(i) < Half /\ v(i) > system_time
  <2>1. \A j \in 1..n : w(j) > system_time
    BY <1>1, <1>4 DEF OrderInv, NoOverdueSleeper, w
  <2> QED BY <1>1, <1>2, <1>8, <1>10, <2>1
<1> QED BY <1>1, <1>4, <1>7, <1>11, <1>12 DEF OrderInv, SleepOrder, NoOverdueSleeper, v

\* The clock advances to its horizon at most, and the handler begins.
LEMMA TickOrder ==
  ASSUME Inv, OrderInv, BoundedTick
  PROVE  OrderInv'
<1>1. /\ sleeping' = sleeping /\ wakeup' = wakeup /\ isr' = "wake"
      /\ system_time' = (system_time + 1) % N_TIMES /\ system_time < MaxTime
  BY DEF BoundedTick, ClockTick, queues, fields
<1>2. system_time \in Nat /\ system_time + 1 < N_TIMES
  BY <1>1, SleeperFacts, HorizonFacts
<1>3. system_time' = system_time + 1
  BY <1>1, <1>2, HorizonFacts
<1> QED BY <1>1, <1>2, <1>3, HorizonFacts DEF OrderInv, SleepOrder, NoOverdueSleeper

\* The head leaves: the others stay in order.
LEMMA WakeOrder ==
  ASSUME Inv, OrderInv, ClockWake
  PROVE  OrderInv'
<1> DEFINE n == Len(sleeping)
<1>1. /\ sleeping # <<>> /\ sleeping' = Tail(sleeping) /\ wakeup' = wakeup
      /\ system_time' = system_time /\ isr' = isr /\ isr = "wake"
  BY DEF ClockWake, HeadIsDue
<1>2. /\ sleeping' \in Seq(PCBs) /\ Len(sleeping') = n - 1
      /\ \A i \in 1..(n - 1) : sleeping'[i] = sleeping[i + 1]
      /\ n \in Nat /\ DOMAIN sleeping = 1..n
  BY <1>1, SleeperFacts, HeadTailProperties
<1>3. DOMAIN sleeping' = 1..(n - 1)
  BY <1>2, LenProperties
<1> DEFINE w(i) == wakeup[sleeping[i]]
           v(i) == wakeup'[sleeping'[i]]
<1>4. /\ \A i \in 1..n : w(i) < Half
      /\ \A i, j \in 1..n : i < j => w(i) <= w(j)
  BY <1>2 DEF OrderInv, SleepOrder
<1>5. \A i \in 1..(n - 1) : i + 1 \in 1..n /\ v(i) = w(i + 1)
  BY <1>1, <1>2
<1> HIDE DEF n, w, v
<1>6. \A i \in 1..(n - 1) : v(i) < Half
  BY <1>4, <1>5
<1>7. ASSUME NEW i \in 1..(n - 1), NEW j \in 1..(n - 1), i < j
      PROVE  v(i) <= v(j)
  <2>1. i + 1 < j + 1
    BY <1>2, <1>7
  <2> QED BY <1>4, <1>5, <2>1
<1> QED BY <1>1, <1>3, <1>6, <1>7 DEF OrderInv, SleepOrder, NoOverdueSleeper, v

\* When the head is not due, nobody is: that ends the handler.
LEMMA NobodyIsDue ==
  ASSUME Inv, OrderInv, ~HeadIsDue
  PROVE  \A i \in DOMAIN sleeping : wakeup[sleeping[i]] > system_time
<1> SUFFICES ASSUME NEW i \in DOMAIN sleeping
             PROVE  wakeup[sleeping[i]] > system_time
  OBVIOUS
<1>1. /\ i \in 1..Len(sleeping) /\ 1 \in DOMAIN sleeping
      /\ Head(sleeping) = sleeping[1]
  BY SleeperFacts
<1>2. sleeping # <<>>
  BY <1>1, EmptySeq, SleeperFacts
<1>3. wakeup[sleeping[1]] > system_time
  BY <1>1, <1>2, SleeperFacts DEF HeadIsDue
<1>4. i = 1 \/ wakeup[sleeping[1]] <= wakeup[sleeping[i]]
  BY <1>1, SleeperFacts DEF OrderInv, SleepOrder
<1> QED BY <1>1, <1>3, <1>4, SleeperFacts

LEMMA QuantumOrder ==
  ASSUME Inv, OrderInv, ClockQuantum
  PROVE  OrderInv'
<1>1. /\ sleeping' = sleeping /\ wakeup' = wakeup /\ isr' = "none"
      /\ system_time' = system_time /\ ~HeadIsDue
  BY DEF ClockQuantum
<1>2. \A i \in DOMAIN sleeping : wakeup[sleeping[i]] > system_time
  BY <1>1, NobodyIsDue
<1> QED BY <1>1, <1>2 DEF OrderInv, SleepOrder, NoOverdueSleeper

-----------------------------------------------------------------------------
(* The theorems.                                                           *)

\* Every behaviour up to the horizon is one of Spec.
LEMMA NextOfSpec == [MCNext]_vars => [Next]_vars
BY DEF MCNext, Next, BoundedSpawn, BoundedTick, Horizon

LEMMA InitOrder == Init => OrderInv
<1> SUFFICES ASSUME Init PROVE OrderInv
  OBVIOUS
<1>1. sleeping = <<>> /\ system_time = 0
  BY DEF Init
<1>2. DOMAIN sleeping = {}
  BY <1>1
<1> QED BY <1>1, <1>2, HorizonFacts DEF OrderInv, SleepOrder, NoOverdueSleeper

LEMMA NextOrder == Inv /\ OrderInv /\ [MCNext]_vars => OrderInv'
<1> SUFFICES ASSUME Inv, OrderInv, [MCNext]_vars PROVE OrderInv'
  OBVIOUS
<1>1. CASE Exit
  BY <1>1, ExitOrder
<1>2. ASSUME NEW pr \in SpawnPrios, BoundedSpawn(pr) PROVE OrderInv'
  BY <1>2, SpawnOrder DEF BoundedSpawn
<1>3. CASE Yield
  BY <1>3, QueueKept DEF Yield
<1>4. ASSUME NEW t \in SleepTimes, Sleep(t) PROVE OrderInv'
  BY <1>4, SleepOrderKept
<1>5. CASE BoundedTick
  BY <1>5, TickOrder
<1>6. CASE ClockWake
  BY <1>6, WakeOrder
<1>7. CASE ClockQuantum
  BY <1>7, QuantumOrder
<1>8. CASE Horizon \/ UNCHANGED vars
  BY <1>8, QueueKept DEF Horizon, vars, queues, fields
<1> QED BY <1>1, <1>2, <1>3, <1>4, <1>5, <1>6, <1>7, <1>8 DEF MCNext

\* Both invariants hold up to the horizon.
LEMMA OrderHolds == MCSpec => [](Inv /\ OrderInv)
<1>1. Init => Inv /\ OrderInv
  BY InitInv, InitOrder
<1>2. (Inv /\ OrderInv) /\ [MCNext]_vars => (Inv /\ OrderInv)'
  BY NextInv, NextOfSpec, NextOrder
<1> QED BY <1>1, <1>2, PTL DEF MCSpec

\* The sleep queue is in wake-up order: _queue_insert with _compare_time puts
\* every sleeper where it belongs, however many sleep (queue.c:300-310).
THEOREM SleepOrderHolds == MCSpec => []SleepOrder
<1>1. OrderInv => SleepOrder
  BY DEF OrderInv
<1> QED BY <1>1, OrderHolds, PTL

\* When the clock interrupt is over, nobody whose time has come is asleep
\* (clock.c:79-102).
THEOREM NoOverdueSleeperHolds == MCSpec => []NoOverdueSleeper
<1>1. OrderInv => NoOverdueSleeper
  BY DEF OrderInv
<1> QED BY <1>1, OrderHolds, PTL

\* A process that the dispatch after its quantum leaves ready is the last one
\* of its queue.
LEMMA PreemptedIsLast ==
  ASSUME Inv, NEW st, st = [state EXCEPT ![current] = "READY"],
         Dispatch(Enqueue(ready, current, prio[current]), st),
         state'[current] = "READY"
  PROVE  Last(ready'[prio[current]]) = current
<1> DEFINE n == prio[current]
           s == ready[n]
           rdy == Enqueue(ready, current, n)
<1>1. /\ ready \in [Levels -> Seq(PCBs)] /\ current \in PCBs /\ n \in Levels
      /\ s \in Seq(PCBs) /\ Len(s) \in Nat
  BY LenProperties DEF Inv, TypeOK
<1>2. rdy[n] = Append(s, current) /\ Len(rdy[n]) = Len(s) + 1 /\ rdy[n] \in Seq(PCBs)
  BY <1>1, AppendProperties DEF Enqueue, LegalPrio, Levels, N_PRIOS
<1>3. rdy[n][Len(s) + 1] = current
  BY <1>1, <1>2, AppendProperties
<1>4. Prepared(rdy, st, prio)
  BY AfterPreempting
<1>5. Dispatched(st, prio)
  BY <1>4, DispatchFacts
<1>6. PICK m \in Levels :
        /\ rdy[m] # <<>>
        /\ current' = Head(rdy[m])
        /\ ready' = Dequeue(rdy, m)
  BY <1>5 DEF Dispatch, Dispatched
<1>7. current' # current
  BY <1>1, <1>5 DEF Dispatched
<1> HIDE DEF n, s, rdy
<1>8. rdy \in [Levels -> Seq(PCBs)]
  BY <1>4 DEF Prepared
<1>9. CASE m # n
  <2>1. ready'[n] = rdy[n]
    BY <1>1, <1>6, <1>8, <1>9 DEF Dequeue
  <2> QED BY <1>2, <1>3, <2>1 DEF Last, n
<1>10. CASE m = n
  <2>1. ready'[n] = Tail(rdy[n])
    BY <1>1, <1>6, <1>8, <1>10 DEF Dequeue
  <2>2. Len(s) # 0
    <3>1. SUFFICES ASSUME Len(s) = 0 PROVE FALSE
      OBVIOUS
    <3>2. Head(rdy[n]) = current
      BY <1>2, <1>3, <3>1, HeadTailProperties
    <3> QED BY <1>6, <1>7, <1>10, <3>2
  <2>3. /\ Len(Tail(rdy[n])) = Len(s)
        /\ \A i \in 1..Len(s) : Tail(rdy[n])[i] = rdy[n][i + 1]
    <3> DEFINE t == rdy[n]
    <3>1. t \in Seq(PCBs) /\ t # <<>> /\ Len(t) = Len(s) + 1
      BY <1>2, <1>6, <1>10
    <3> HIDE DEF t
    <3>2. Len(Tail(t)) = Len(t) - 1 /\ \A i \in 1..(Len(t) - 1) : Tail(t)[i] = t[i + 1]
      BY <3>1, HeadTailProperties
    <3>3. Len(t) - 1 = Len(s)
      BY <1>1, <3>1
    <3> QED BY <3>2, <3>3 DEF t
  <2>4. Len(s) \in 1..Len(s)
    BY <1>1, <2>2
  <2>5. Last(Tail(rdy[n])) = current
    BY <1>3, <2>3, <2>4 DEF Last
  <2> QED BY <2>1, <2>5 DEF n
<1> QED BY <1>9, <1>10

\* What AwakenedFirst says of a step.
AwakenedStep ==
  isr = "wake" /\ state'[current] = "READY"
    => /\ Last(ready'[prio[current]]) = current
       /\ \A i \in DOMAIN sleeping : wakeup[sleeping[i]] > system_time

LEMMA NextAwakened == Inv /\ OrderInv /\ [MCNext]_vars => AwakenedStep
<1> SUFFICES ASSUME Inv, OrderInv, [MCNext]_vars, isr = "wake", state'[current] = "READY"
             PROVE  /\ Last(ready'[prio[current]]) = current
                    /\ \A i \in DOMAIN sleeping : wakeup[sleeping[i]] > system_time
  BY DEF AwakenedStep
<1>1. /\ current \in PCBs /\ state[current] = "RUNNING" /\ state \in [PCBs -> States]
  BY SleeperFacts DEF Inv, TypeOK
<1>2. CASE ClockQuantum
  <2>1. /\ ~HeadIsDue
        /\ state' = state \/ Dispatch(Enqueue(ready, current, prio[current]),
                                     [state EXCEPT ![current] = "READY"])
    BY <1>2 DEF ClockQuantum
  <2>2. state' # state
    BY <1>1
  <2>3. Last(ready'[prio[current]]) = current
    BY <2>1, <2>2, PreemptedIsLast
  <2> QED BY <2>1, <2>3, NobodyIsDue
<1>3. CASE ClockWake
  <2>1. sleeping # <<>> /\ state' = [state EXCEPT ![Head(sleeping)] = "READY"]
    BY <1>3 DEF ClockWake, HeadIsDue
  <2>2. Head(sleeping) \in PCBs /\ Head(sleeping) \in ToSet(sleeping)
    BY <2>1, TailFacts DEF Inv, TypeOK
  <2>3. state[Head(sleeping)] = "SLEEPING"
    BY <2>2 DEF Inv, Placement
  <2> QED BY <1>1, <2>1, <2>3
<1>4. CASE UNCHANGED vars
  BY <1>1, <1>4 DEF vars, fields
<1> QED BY <1>2, <1>3, <1>4
        DEF MCNext, Exit, BoundedSpawn, Spawn, Yield, Sleep, BoundedTick, ClockTick,
            Horizon, UserMode

\* A process that the clock takes off the CPU is behind every sleeper that the
\* same interrupt woke, and it woke all whose time had come (clock.c:79-108).
THEOREM AwakenedFirstHolds == MCSpec => AwakenedFirst
<1>1. Inv /\ OrderInv /\ [MCNext]_vars =>
      [isr = "wake" /\ state'[current] = "READY"
       => /\ Last(ready'[prio[current]]) = current
          /\ \A i \in DOMAIN sleeping : wakeup[sleeping[i]] > system_time]_vars
  BY NextAwakened DEF AwakenedStep
<1> QED BY <1>1, OrderHolds, PTL DEF MCSpec, AwakenedFirst

=============================================================================
