----------------------------- MODULE Lifecycle -----------------------------
(***************************************************************************)
(* What the kernel promises to processes, without its queues, pools and    *)
(* clock: a process is created, waits for the CPU, has it, sleeps and is   *)
(* woken, and exits.  Whenever the one that has the CPU gives it up, or    *)
(* loses it, one of the ready processes of the highest priority gets it,   *)
(* and there always is one: idle neither sleeps nor exits.                 *)
(***************************************************************************)
EXTENDS Integers

CONSTANTS
  Procs,            \* places for processes, used again and again
  Idle,             \* the place of idle
  Lowest            \* the lowest priority; 0 is the highest

VARIABLES
  status,           \* "FREE", "READY", "RUNNING" or "SLEEPING"
  level,            \* the priority of each process, 0 where there is none
  cpu               \* the process that has the CPU

lifeVars == <<status, level, cpu>>

Best(st) ==
  {p \in Procs : /\ st[p] = "READY"
                 /\ \A q \in Procs : st[q] = "READY" => level[p] <= level[q]}

LifeInit ==
  /\ cpu \in Procs \ {Idle}
  /\ status \in [Procs -> {"FREE", "READY", "RUNNING"}]
  /\ \A p \in Procs : status[p] = "RUNNING" <=> p = cpu
  /\ status[Idle] = "READY"
  /\ level \in [Procs -> 0..Lowest]
  /\ level[Idle] = Lowest
  /\ \A p \in Procs : status[p] = "FREE" => level[p] = 0

Create(p, n) ==
  /\ cpu # Idle
  /\ status[p] = "FREE"
  /\ status' = [status EXCEPT ![p] = "READY"]
  /\ level' = [level EXCEPT ![p] = n]
  /\ UNCHANGED cpu

\* The process that has the CPU becomes x and p, one of the best, gets it.
HandOver(x, p) ==
  LET st == [status EXCEPT ![cpu] = x]
  IN /\ p \in Best(st)
     /\ status' = [st EXCEPT ![p] = "RUNNING"]
     /\ cpu' = p

Preempt(p) == HandOver("READY", p) /\ UNCHANGED level
GoToSleep(p) == cpu # Idle /\ HandOver("SLEEPING", p) /\ UNCHANGED level
Leave(p) == cpu # Idle /\ HandOver("FREE", p) /\ level' = [level EXCEPT ![cpu] = 0]

Wake(p) ==
  /\ status[p] = "SLEEPING"
  /\ status' = [status EXCEPT ![p] = "READY"]
  /\ UNCHANGED <<level, cpu>>

LifeNext ==
  \E p \in Procs :
    \/ \E n \in 0..Lowest : Create(p, n)
    \/ Preempt(p) \/ GoToSleep(p) \/ Leave(p)
    \/ Wake(p)

LifeSpec == LifeInit /\ [][LifeNext]_lifeVars

=============================================================================
