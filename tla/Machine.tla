------------------------------ MODULE Machine ------------------------------
(***************************************************************************)
(* The system from the building of its image on: what Boot loads and       *)
(* starts is the kernel, whose _init runs the calls of the file system and *)
(* makes the shell (startup.S, system.c).  Other images are built and      *)
(* booted as well; what their kernels do is not known.                     *)
(***************************************************************************)
EXTENDS Shell, Boot

CONSTANT System     \* the argument that is the kernel, as in the Makefile

ASSUME MachineAssumption == System \in Arguments
machineVars == <<shellVars, bootVars>>

\* The kernel is in memory as it was built.
SystemIsLoaded ==
  /\ programs[1] = System
  /\ \A k \in 1..System.sectors : \A u \in 1..SECTOR_SIZE :
       memory[TARGET_ADDRESS + (k - 1) * SECTOR_SIZE + u - 1] = Sector(1, k)

MachineInit == ShellInit /\ BootInit

LoadSystem == BootNext /\ UNCHANGED shellVars
RunSystem == stage = "started" /\ SystemIsLoaded /\ ShellNext /\ UNCHANGED bootVars

\* The machine is left alone, or runs what is not the system.
Stopped ==
  /\ stage \in {"failed", "frozen", "lost"} \/ (stage = "started" /\ ~SystemIsLoaded)
  /\ UNCHANGED machineVars

MachineNext == LoadSystem \/ RunSystem \/ Stopped

MachineSpec == MachineInit /\ [][MachineNext]_machineVars /\ BootFairness /\ ShellFairness

=============================================================================
