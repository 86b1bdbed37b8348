------------------------------ MODULE MCKernel ------------------------------
(***************************************************************************)
(* Kernel for TLC.  Two bounds keep it finite: MaxPid, the last pid that   *)
(* is given out, and MaxTime, the uptime at which the behaviour ends.      *)
(***************************************************************************)
EXTENDS Kernel

CONSTANTS MaxPid, MaxTime

\* The clock does not come near its end, nor does any wake-up time.
ASSUME HorizonAssumption ==
  /\ MaxTime \in Nat
  /\ \A t \in SleepTimes \cup {0} : MaxTime + t < N_TIMES \div 2

BoundedSpawn(pr) == (next_pid <= MaxPid \/ free_stacks = <<>>) /\ Spawn(pr)
BoundedTick == system_time < MaxTime /\ ClockTick
Horizon == system_time = MaxTime /\ isr = "none" /\ UNCHANGED vars

MCNext ==
  \/ Exit
  \/ \E pr \in SpawnPrios : BoundedSpawn(pr)
  \/ Yield
  \/ \E t \in SleepTimes : Sleep(t)
  \/ BoundedTick
  \/ ClockWake
  \/ ClockQuantum
  \/ Horizon

MCSpec == Init /\ [][MCNext]_vars

=============================================================================
