----------------------------- MODULE MCMachine -----------------------------
(***************************************************************************)
(* Machine for TLC: the programs that are put into images and the drives   *)
(* they are booted from, and the lines that are typed.  The lines use the  *)
(* commands with good and bad names, too many words, too many and quoted   *)
(* spaces, texts that are empty or begin with a space, and no words at     *)
(* all.                                                                    *)
(***************************************************************************)
EXTENDS Machine

Flat(address, sectors) ==
  [form |-> "flat", address |-> address, sectors |-> sectors]
Pair(segment, offset, sectors) ==
  [form |-> "pair", segment |-> segment, offset |-> offset, sectors |-> sectors]

\* A sector is the fourth part of a segment, of which three and a half are memory: the
\* lowest holds the tables, a place for a program, and the bootstrap, the second the
\* kernel.
MCSystem == Flat(16, 2)
MCArguments == {
  MCSystem,
  Flat(4, 1),       \* below the bootstrap
  Flat(28, 5),      \* across the end of a segment
  Flat(29, 5),      \* across one, so that no sector ends there
  Flat(29, 2),      \* not at the beginning of a paragraph
  Flat(52, 2),      \* too high
  Flat(-4, 1),      \* negative
  Flat(8, 1),       \* over the bootstrap
  Flat(36, 0),      \* nothing
  Pair(6, 0, 1) }   \* what would be Flat(24, 1)
MCDrives == {[sectors |-> 2, heads |-> 2], [sectors |-> 3, heads |-> 4]}
MCLoader == 8..15
MCTables == 0..3

MCLines == {
  <<"ls", "\n">>,
  <<" ", " ", "\n">>,
  <<"hello", " ", "\n">>,
  <<"mkdir", "\n">>,
  <<"mkfile", " ", "/", "test1.t", "\n">>,
  <<"cd", " ", "new", "\n">>,
  <<"rm", " ", "test1.t", "\n">>,
  <<"write", " ", "test1.t", " ", "'", "T", " ", "U", "'", "\n">>,
  <<" ", "write", " ", " ", "test1.t", " ", "'", " ", "U", "'", " ", "T", " ", "T", "\n">>,
  <<"writea", " ", "test1.t", " ", "T", "\n">>,
  <<"write", " ", "/", "test2.t", "\n">>,
  <<"read", " ", "/", "test2.t", "\n">>,
  <<"read", " ", "test1.t", "\n">> }

MCCodes == [c \in UNION {ToSet(l) : l \in MCLines} |->
  CASE c = " " -> Blank [] c = "T" -> 14 [] c = "U" -> 15 [] OTHER -> 13]

MCNames == {}
MCTexts == {}
MCExtensions == {}

\* Once the system runs, the other images are told apart no more.
MCNext ==
  \/ LoadSystem
  \/ Len(programs) = 1 /\ RunSystem
  \/ Len(programs) > 1 /\ stage = "started" /\ UNCHANGED machineVars
  \/ Stopped
MCSpec == MachineInit /\ [][MCNext]_machineVars /\ BootFairness /\ ShellFairness

\* Nothing depends on the last answer, nor on the result of a call before one, nor,
\* once the system runs, on where it was loaded from.
MachineView ==
  <<IF booted = 0 THEN bootVars ELSE <<>>, entries, blocks, current_location, directory,
    IF phase = "answer" THEN reply ELSE 0, broken, booted, phase, input, buffers, kept>>
=============================================================================
