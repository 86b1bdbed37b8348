------------------------------- MODULE Kernel -------------------------------
(***************************************************************************)
(* Processes, scheduling and time in SystemsOS: the PCB and stack pools    *)
(* (process.c, stack.c), the multi-level ready queues (scheduler.c), the   *)
(* clock interrupt (clock.c), the system calls exit, spawnp and sleep      *)
(* (syscall.c) and _create_process (system.c).                             *)
(*                                                                         *)
(* Every handler runs on the system stack with interrupts disabled, so a   *)
(* system call is one step.  The clock interrupt is cut into the passes of *)
(* its wake-up loop: `isr` says that one is in progress, and nothing else  *)
(* can run meanwhile.  Init is the state _init leaves behind, with init()  *)
(* on the CPU and idle(), hello() and shell() ready.                       *)
(*                                                                         *)
(* A user process is any program: it may make any system call at any time. *)
(* idle() is the exception: it never makes one (user.c:753).               *)
(***************************************************************************)
EXTENDS Integers, FiniteSets, SequencesExt

CONSTANTS
  N_PROCS,          \* number of runtime stacks; there is one PCB more
  QUANTUM_DEFAULT,  \* ticks a process runs before it is preempted
  N_TIMES,          \* _system_time and wakeup count modulo this (2^32)
  N_PIDS,           \* _next_pid counts modulo this (2^16)
  SpawnPrios,       \* priorities a program passes to spawnp()
  SleepTimes        \* lengths of time a program passes to sleep()

ASSUME NProcsAssumption == N_PROCS \in Nat /\ N_PROCS >= 4
ASSUME QuantumAssumption == QUANTUM_DEFAULT \in 1..255
ASSUME ModulusAssumption ==
  /\ N_TIMES \in Nat /\ N_TIMES >= 2
  /\ N_PIDS \in Nat /\ N_PIDS >= 12 /\ N_PIDS % 2 = 0
ASSUME InputAssumption ==
  /\ SpawnPrios \subseteq Nat
  /\ SleepTimes \subseteq 0..(N_TIMES - 1)

N_PCBS == N_PROCS + 1
OneStackPerPcb == N_PCBS        \* a mutant of N_STACKS
N_STACKS == N_PROCS
N_PRIOS == 4
PRIO_USER_LOW == 3

PCBs == 0..(N_PCBS - 1)         \* indices into _pcbs
Stacks == 0..(N_STACKS - 1)     \* indices into _stacks
Levels == 0..(N_PRIOS - 1)      \* indices into _ready
Times == 0..(N_TIMES - 1)
NULL == -1                      \* no PCB, no stack

States == {"FREE", "READY", "RUNNING", "SLEEPING"}

\* The PCB that _init gives to idle(): the second one it creates.
Idle == 1

\* The value an int16_t holds after it is assigned a uint16_t.
ToInt16(n) == IF n < N_PIDS \div 2 THEN n ELSE n - N_PIDS
PidValues == {ToInt16(n) : n \in 0..(N_PIDS - 1)}

VARIABLES
  free_pcbs, free_stacks,       \* the free lists: first in, first out
  ready, sleeping,              \* the ready queue of each level, the sleepers
  current,                      \* the process that has the CPU
  state, prio, pid, wakeup, stack,      \* the fields of each PCB
  quantum,                      \* what is left of the current one's quantum
  next_pid, system_active, system_time,
  isr,                          \* "wake" while the clock interrupt is handled
  halted                        \* _kpanic was called

pools == <<free_pcbs, free_stacks>>
queues == <<ready, sleeping>>
fields == <<state, prio, pid, wakeup, stack>>
vars == <<pools, queues, current, fields, quantum, next_pid, system_active,
          system_time, isr, halted>>

\* Queue nodes, of which two stay in the list of queues that are never used.
N_QUEUES == 10
UnusedQueues == 2
N_QNODES == N_PROCS + N_STACKS + N_QUEUES + 3
ReadyTotal(rdy) == Len(rdy[0]) + Len(rdy[1]) + Len(rdy[2]) + Len(rdy[3])
QnodesInUse ==
  Len(free_pcbs) + Len(free_stacks) + Len(sleeping) + ReadyTotal(ready) + UnusedQueues

-----------------------------------------------------------------------------
(* Mutants: what a slip in the code could make of some of the definitions  *)
(* below.  No specification uses them; the properties are tested by        *)
(* putting them in the place of the definitions they are the mutants of.   *)

AnyPrio(pr) == pr                                           \* LegalPrio
EnqueueFront(rdy, p, pr) == [rdy EXCEPT ![pr] = <<p>> \o @]  \* Enqueue
Peeked(rdy, l) == rdy                                       \* Dequeue
KeptStack(s) == free_stacks                                 \* StackDealloc
SleepAtEnd(i, key) == i = Len(sleeping) + 1                 \* IsSleepPosition
AnyoneCalls == ~halted /\ isr = "none"                      \* UserMode
HeadIsPast ==                                               \* HeadIsDue
  sleeping # <<>> /\ wakeup[Head(sleeping)] < system_time

-----------------------------------------------------------------------------
(* The helpers of the handlers.                                            *)

\* _schedule: an illegal priority becomes the lowest one.
LegalPrio(pr) == IF pr >= N_PRIOS THEN PRIO_USER_LOW ELSE pr

\* _schedule: the ready queues once p, of priority pr, is at the end of its
\* level.
Enqueue(rdy, p, pr) == [rdy EXCEPT ![LegalPrio(pr)] = Append(@, p)]

\* _dispatch: the ready queues without the head of level l.
Dequeue(rdy, l) == [rdy EXCEPT ![l] = Tail(@)]

\* _dispatch, run when the ready queues are rdy and the states are st: the
\* head of the first level that is not empty gets the CPU and a full quantum.
\* If there is none, the kernel panics.
Dispatch(rdy, st) ==
  IF \E l \in Levels : rdy[l] # <<>>
  THEN \E l \in Levels :
         /\ rdy[l] # <<>>
         /\ \A k \in 0..(l - 1) : rdy[k] = <<>>
         /\ current' = Head(rdy[l])
         /\ ready' = Dequeue(rdy, l)
         /\ state' = [st EXCEPT ![Head(rdy[l])] = "RUNNING"]
         /\ quantum' = QUANTUM_DEFAULT
         /\ halted' = FALSE
  ELSE /\ halted' = TRUE
       /\ ready' = rdy
       /\ state' = st
       /\ UNCHANGED <<current, quantum>>

\* _compare_time(k1, k2) >= 0: the unsigned difference, read as signed.
NotBefore(k1, k2) == (k1 - k2) % N_TIMES < N_TIMES \div 2

\* _queue_insert into _sleeping: i is where a key is inserted, in front of the
\* first sleeper whose wake-up time it is before.
IsSleepPosition(i, key) ==
  /\ i \in 1..(Len(sleeping) + 1)
  /\ \A j \in 1..(i - 1) : NotBefore(key, wakeup[sleeping[j]])
  /\ i <= Len(sleeping) => ~NotBefore(key, wakeup[sleeping[i]])

\* _stack_dealloc: the free list with stack s given back.
StackDealloc(s) == IF s = NULL THEN free_stacks ELSE Append(free_stacks, s)

\* _memset(p, sizeof(pcb_t), 0): what it does to the fields of PCB p, except
\* the state, which it makes FREE.
ClearFields(p) ==
  /\ prio' = [prio EXCEPT ![p] = 0]
  /\ pid' = [pid EXCEPT ![p] = 0]
  /\ wakeup' = [wakeup EXCEPT ![p] = 0]
  /\ stack' = [stack EXCEPT ![p] = NULL]

-----------------------------------------------------------------------------

Init ==
  /\ free_pcbs = [i \in 1..(N_PCBS - 4) |-> i + 3]
  /\ free_stacks = [i \in 1..(N_STACKS - 4) |-> i + 3]
  /\ ready = [l \in Levels |-> IF l = 0 THEN <<>>
                               ELSE <<IF l = 3 THEN Idle ELSE l + 1>>]
  /\ sleeping = <<>>
  /\ current = 0
  /\ state = [p \in PCBs |-> IF p = 0 THEN "RUNNING"
                             ELSE IF p < 4 THEN "READY" ELSE "FREE"]
  /\ prio = [p \in PCBs |-> IF p = Idle THEN PRIO_USER_LOW
                            ELSE IF p \in {2, 3} THEN p - 1 ELSE 0]
  /\ pid = [p \in PCBs |-> IF p < 4 THEN p + 1 ELSE 0]
  /\ wakeup = [p \in PCBs |-> 0]
  /\ stack = [p \in PCBs |-> IF p < 4 THEN p ELSE NULL]
  /\ quantum = QUANTUM_DEFAULT
  /\ next_pid = 5
  /\ system_active = 4
  /\ system_time = 0
  /\ isr = "none"
  /\ halted = FALSE

\* A user process is running and can make a system call.
UserMode == ~halted /\ isr = "none" /\ current # Idle

\* exit, and any system call whose number is illegal.
Exit ==
  /\ UserMode
  /\ free_stacks' = StackDealloc(stack[current])
  /\ free_pcbs' = Append(free_pcbs, current)
  /\ system_active' = system_active - 1
  /\ ClearFields(current)
  /\ Dispatch(ready, [state EXCEPT ![current] = "FREE"])
  /\ UNCHANGED <<sleeping, next_pid, system_time, isr>>

\* _create_process, its failures first: a PCB that is taken and given back goes
\* from the head of its free list to the end.
CreateProcess ==
  IF free_pcbs = <<>>
  THEN /\ system_active' = system_active + 1     \* _pcb_alloc counts NULL
       /\ UNCHANGED <<pools, pid, wakeup, stack, next_pid>>
  ELSE IF free_stacks = <<>>
  THEN /\ free_pcbs' = Append(Tail(free_pcbs), Head(free_pcbs))
       /\ UNCHANGED <<free_stacks, pid, wakeup, stack, next_pid, system_active>>
  ELSE /\ free_pcbs' = Tail(free_pcbs)
       /\ free_stacks' = Tail(free_stacks)
       /\ system_active' = system_active + 1
       /\ stack' = [stack EXCEPT ![Head(free_pcbs)] = Head(free_stacks)]
       /\ pid' = [pid EXCEPT ![Head(free_pcbs)] = ToInt16(next_pid)]
       /\ next_pid' = (next_pid + 1) % N_PIDS
       /\ wakeup' = [wakeup EXCEPT ![Head(free_pcbs)] = 0]

\* spawnp(entry, pr): the new process, if there is one, is made ready.
Spawn(pr) ==
  /\ UserMode
  /\ CreateProcess
  /\ IF free_pcbs = <<>> \/ free_stacks = <<>>
     THEN UNCHANGED <<state, prio, ready>>
     ELSE LET new == Head(free_pcbs)
              given == pr % 256           \* prio is a uint8_t
          IN /\ prio' = [prio EXCEPT ![new] = LegalPrio(given)]
             /\ state' = [state EXCEPT ![new] = "READY"]
             /\ ready' = Enqueue(ready, new, given)
  /\ UNCHANGED <<sleeping, current, quantum, system_time, isr, halted>>

\* sleep(0): the caller goes to the end of its ready queue.
Yield ==
  /\ UserMode
  /\ prio' = [prio EXCEPT ![current] = LegalPrio(@)]
  /\ Dispatch(Enqueue(ready, current, prio[current]),
              [state EXCEPT ![current] = "READY"])
  /\ UNCHANGED <<pools, sleeping, pid, wakeup, stack, next_pid, system_active,
                 system_time, isr>>

\* sleep(t) for t other than 0.
Sleep(t) ==
  /\ UserMode
  /\ t # 0
  /\ LET key == (system_time + t) % N_TIMES
     IN /\ wakeup' = [wakeup EXCEPT ![current] = key]
        /\ \E i \in 1..(Len(sleeping) + 1) :
             /\ IsSleepPosition(i, key)
             /\ sleeping' = InsertAt(sleeping, i, current)
  /\ Dispatch(ready, [state EXCEPT ![current] = "SLEEPING"])
  /\ UNCHANGED <<pools, prio, pid, stack, next_pid, system_active,
                 system_time, isr>>

-----------------------------------------------------------------------------
(* The clock interrupt: ClockTick, then ClockWake as long as the head of   *)
(* the sleep queue is due, then ClockQuantum.                              *)

ClockTick ==
  /\ ~halted /\ isr = "none"
  /\ system_time' = (system_time + 1) % N_TIMES
  /\ isr' = "wake"
  /\ UNCHANGED <<pools, queues, current, fields, quantum, next_pid,
                 system_active, halted>>

HeadIsDue == sleeping # <<>> /\ wakeup[Head(sleeping)] <= system_time

ClockWake ==
  /\ isr = "wake"
  /\ HeadIsDue
  /\ LET p == Head(sleeping)
     IN /\ sleeping' = Tail(sleeping)
        /\ ready' = Enqueue(ready, p, prio[p])
        /\ prio' = [prio EXCEPT ![p] = LegalPrio(@)]
        /\ state' = [state EXCEPT ![p] = "READY"]
  /\ UNCHANGED <<pools, current, pid, wakeup, stack, quantum, next_pid,
                 system_active, system_time, isr, halted>>

ClockQuantum ==
  /\ isr = "wake"
  /\ ~HeadIsDue
  /\ isr' = "none"
  /\ LET left == (quantum - 1) % 256           \* quantum is a uint8_t
     IN IF left < 1
        THEN /\ prio' = [prio EXCEPT ![current] = LegalPrio(@)]
             /\ Dispatch(Enqueue(ready, current, prio[current]),
                         [state EXCEPT ![current] = "READY"])
        ELSE /\ quantum' = left
             /\ UNCHANGED <<prio, ready, state, current, halted>>
  /\ UNCHANGED <<pools, sleeping, pid, wakeup, stack, next_pid, system_active,
                 system_time>>

-----------------------------------------------------------------------------

Next ==
  \/ Exit
  \/ \E pr \in SpawnPrios : Spawn(pr)
  \/ Yield
  \/ \E t \in SleepTimes : Sleep(t)
  \/ ClockTick
  \/ ClockWake
  \/ ClockQuantum

Spec == Init /\ [][Next]_vars

\* The timer keeps interrupting, and a handler that was entered runs to its
\* end.  Nothing is assumed of the programs: they need never make a call.
ClockFairness ==
  WF_vars(ClockTick) /\ WF_vars(ClockWake) /\ WF_vars(ClockQuantum)

FairSpec == Spec /\ ClockFairness

-----------------------------------------------------------------------------
(* What the kernel promises.                                               *)

TypeOK ==
  /\ free_pcbs \in Seq(PCBs)
  /\ free_stacks \in Seq(Stacks)
  /\ ready \in [Levels -> Seq(PCBs)]
  /\ sleeping \in Seq(PCBs)
  /\ current \in PCBs
  /\ state \in [PCBs -> States]
  /\ prio \in [PCBs -> Levels]
  /\ pid \in [PCBs -> PidValues]
  /\ wakeup \in [PCBs -> Times]
  /\ stack \in [PCBs -> Stacks \cup {NULL}]
  /\ quantum \in 1..QUANTUM_DEFAULT
  /\ next_pid \in 0..(N_PIDS - 1)
  /\ system_active \in Nat
  /\ system_time \in Times
  /\ isr \in {"none", "wake"}
  /\ halted \in BOOLEAN

Live == {p \in PCBs : state[p] # "FREE"}

\* Every PCB is in exactly one place, the one its state names: on the free
\* list, in the ready queue of its priority, on the sleep queue, or on the CPU.
\* The handlers of five files move PCBs by hand (scheduler.c:79,
\* syscall.c:118-207, clock.c:79-108); one insert too many or too few and a
\* process runs twice, or never again.
Placement ==
  /\ \A p \in PCBs :
       /\ state[p] = "FREE" <=> p \in ToSet(free_pcbs)
       /\ state[p] = "SLEEPING" <=> p \in ToSet(sleeping)
       /\ state[p] = "RUNNING" <=> p = current
       /\ \A l \in Levels :
            p \in ToSet(ready[l]) <=> state[p] = "READY" /\ prio[p] = l
  /\ IsInjective(free_pcbs) /\ IsInjective(sleeping)
  /\ \A l \in Levels : IsInjective(ready[l])

\* Every stack is on the free list once or belongs to exactly one process, and
\* every process has one: no two processes ever share a stack, and none is
\* lost when a process exits or its creation fails (system.c:84-88,
\* syscall.c:122-123).
StackOwnership ==
  /\ IsInjective(free_stacks)
  /\ \A p, q \in PCBs : stack[p] = stack[q] /\ stack[p] # NULL => p = q
  /\ \A s \in Stacks : s \in ToSet(free_stacks) <=> \A p \in PCBs : stack[p] # s
  /\ \A p \in PCBs : p \in Live <=> stack[p] # NULL

\* _system_active is the "# of allocated PCBs" (process.c:40), though
\* _pcb_alloc also counts the PCB it could not give (process.c:104).  It is
\* right only because the stacks run out first: there is always a free PCB.
ActiveCount == system_active = N_PCBS - Len(free_pcbs)

\* The queue nodes suffice: _queue_insert never finds the pool of N_QNODES
\* empty, which would be a panic (queue.c:281).  Every PCB but the running one
\* and every free stack takes one.
QnodesSuffice ==
  /\ QnodesInUse < N_QNODES
  /\ QnodesInUse = N_PCBS - 1 + Len(free_stacks) + UnusedQueues

\* The kernel never panics for want of a process to run (scheduler.c:130):
\* idle() is always on the CPU or in the lowest ready queue.
NoPanic ==
  /\ ~halted
  /\ current = Idle \/ Idle \in ToSet(ready[PRIO_USER_LOW])

\* A process leaves a ready queue only for the CPU, from the head of its own
\* level, and only when every higher level is empty; the others keep their
\* order (scheduler.c:109-131).
ReadyFifo ==
  [][\A l \in Levels :
       \/ IsPrefix(ready[l], ready'[l])
       \/ /\ IsPrefix(Tail(ready[l]), ready'[l])
          /\ current' = Head(ready[l])
          /\ state'[current'] = "RUNNING"
          /\ \A k \in 0..(l - 1) : ready[k] = <<>> /\ ready'[k] = <<>>]_vars

\* "wake up any sleeper whose time has come ... we give awakened processes
\* preference over the current process" (clock.c:79-83): when the interrupt
\* is over no sleeper is due, and a process that it takes off the CPU is
\* behind every sleeper that it woke.
NoOverdueSleeper ==
  isr = "none" => \A i \in DOMAIN sleeping : wakeup[sleeping[i]] > system_time

AwakenedFirst ==
  [][isr = "wake" /\ state'[current] = "READY"
       => /\ Last(ready'[prio[current]]) = current
          /\ \A i \in DOMAIN sleeping : wakeup[sleeping[i]] > system_time]_vars

\* The sleep queue is in wake-up order (queue.c:300-310), so that looking at
\* its head, as the clock interrupt does, is looking at the first one due.
SleepOrder ==
  \A i, j \in DOMAIN sleeping :
    i < j => wakeup[sleeping[i]] <= wakeup[sleeping[j]]

\* The kernel does to processes what Lifecycle says, through the failures of
\* creation, the wake-up loop and preemption: a PCB is given to a new process
\* only when the one before has exited, whoever gets the CPU has the highest
\* priority of all that are ready, a sleeper becomes ready before it runs, and
\* idle is always there to run (scheduler.c:79-131, syscall.c:118-207,
\* clock.c:78-112).
Life == INSTANCE Lifecycle WITH
  Procs <- PCBs, Lowest <- PRIO_USER_LOW, status <- state, level <- prio, cpu <- current
Lives == Life!LifeSpec

\* A process of the highest priority that is ready gets the CPU: the clock
\* takes it from any process that does not give it up (clock.c:104-108).
SystemProcessRuns ==
  \A p \in PCBs :
    (state[p] = "READY" /\ prio[p] = 0) ~> (state[p] = "RUNNING")

\* A process that went to sleep is made ready again, however the others
\* sleep, and whether or not the time wraps meanwhile (clock.c:85-102).
SleeperWakes ==
  \A p \in PCBs : (state[p] = "SLEEPING") ~> (state[p] = "READY")

=============================================================================
