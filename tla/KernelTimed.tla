----------------------------- MODULE KernelTimed -----------------------------
(***************************************************************************)
(* Kernel with two history variables that measure real time, which the     *)
(* kernel itself does not keep: its own clock is a counter that wraps.     *)
(*   age[p]    the clock interrupts since p became ready or went to sleep  *)
(*   target[p] what age[p] is compared with: the length of time p asked to *)
(*             sleep for, or its place in the queue when it became ready;  *)
(*             0 if the time of p is not measured                          *)
(* The sleep queue is ordered by signed differences, so a sleep of half a  *)
(* turn of the clock or more goes in front of shorter ones: such a sleep,  *)
(* and those that go on while it lasts, are not measured.                  *)
(***************************************************************************)
EXTENDS Kernel

CONSTANT LastPid                \* the last pid that is given out

VARIABLES age, target

timedVars == <<vars, age, target>>

TimedInit ==
  /\ Init
  /\ age = [p \in PCBs |-> 0]
  /\ target = [p \in PCBs |-> 0]

\* Processes whose time can be measured: the sleepers and those ready at level 0.
Measured(st, pr) ==
  {p \in PCBs : st[p] = "SLEEPING" \/ (st[p] = "READY" /\ pr[p] = 0)}

\* sleep(t) when t is too long to be ordered, or a sleeper is not measured.
Unordered(t) ==
  t > 0 /\ (t >= N_TIMES \div 2 \/ \E i \in DOMAIN sleeping : target[sleeping[i]] = 0)

\* A step that is no clock tick, made with the argument t if it is sleep(t).
Measure(t) ==
  LET measured == {p \in Measured(state', prio') :
                     ~(state'[p] = "SLEEPING" /\ Unordered(t))}
      kept == {p \in measured : state'[p] = state[p]}
      entered == measured \ kept
      target1 == [p \in PCBs |->
        CASE p \in kept -> target[p]
          [] p \in entered /\ state'[p] = "SLEEPING" -> t
          [] p \in entered /\ state'[p] = "READY" -> Len(ready'[0])
          [] OTHER -> 0]
  IN /\ target' = target1
     /\ age' = [p \in PCBs |-> IF p \in kept /\ target1[p] # 0 THEN age[p] ELSE 0]

\* No property tells apart the ages from this one on, so they count no further.
Late(p) == target[p] * QUANTUM_DEFAULT + 1

TimedTick ==
  /\ ClockTick
  /\ age' = [p \in PCBs |-> IF target[p] = 0 THEN 0 ELSE Min({age[p] + 1, Late(p)})]
  /\ UNCHANGED target

TimedNext ==
  \/ Exit /\ Measure(0)
  \/ \E pr \in SpawnPrios :
       (next_pid <= LastPid \/ free_stacks = <<>>) /\ Spawn(pr) /\ Measure(0)
  \/ Yield /\ Measure(0)
  \/ \E t \in SleepTimes : Sleep(t) /\ Measure(t)
  \/ TimedTick
  \/ ClockWake /\ Measure(0)
  \/ ClockQuantum /\ Measure(0)

TimedSpec == TimedInit /\ [][TimedNext]_timedVars /\ ClockFairness

-----------------------------------------------------------------------------

Wakes(p) == state[p] = "SLEEPING" /\ state'[p] # "SLEEPING"

\* sleep(ms) puts the caller to sleep "for the specified length of time"
\* (syscall.c:176-178): it sleeps for neither a tick more nor a tick less,
\* whoever goes to sleep, wakes or is preempted meanwhile.  The two cases in
\* which the code does something else are left out: sleeps that are not measured
\* and those that end after the wrap of the clock, which are NeverWokenEarly's.
SleepsAsAsked ==
  [][\A p \in PCBs :
       Wakes(p) /\ target[p] # 0 /\ wakeup[p] >= target[p]
       => age[p] = target[p]]_timedVars

\* Half of it, whatever is asked: no process is woken before its time (syscall.c:176-178).
NeverWokenEarly == [][\A p \in PCBs : Wakes(p) => age[p] >= target[p]]_timedVars

\* A bound on the time a ready system process waits for the CPU: one quantum
\* for every place it had in its queue, whatever is spawned, sleeps or wakes
\* meanwhile (scheduler.c:114-125, clock.c:104-108).
WaitIsBounded ==
  \A p \in PCBs :
    state[p] = "READY" /\ prio[p] = 0 => age[p] <= target[p] * QUANTUM_DEFAULT

=============================================================================
