----------------------------- MODULE ConsoleAbs -----------------------------
(***************************************************************************)
(* What the keyboard half of the console (c_io.c) promises: the characters *)
(* of the keys that are pressed, as the modifiers are at that time, are    *)
(* read in the order in which they were typed.  One is lost only when      *)
(* C_BUFSIZE - 1 others wait.                                              *)
(***************************************************************************)
EXTENDS Integers, SequencesExt

CONSTANTS
  C_BUFSIZE,        \* places in the buffer
  Keys              \* the keys that type something

VARIABLES
  typed,            \* what was typed and not read yet
  shift, control,   \* the modifiers
  got,              \* the result of the last read
  lost              \* since then a character was lost

absVars == <<typed, shift, control, got, lost>>

AbsInit == typed = <<>> /\ shift = FALSE /\ control = FALSE /\ got = <<>> /\ lost = FALSE

\* A character is a key with the modifiers that it was pressed with.
AbsPress(k) ==
  /\ IF Len(typed) < C_BUFSIZE - 1
     THEN typed' = Append(typed, <<k, shift, control>>) /\ lost' = lost
     ELSE typed' = typed /\ lost' = TRUE
  /\ UNCHANGED <<shift, control, got>>

AbsShift == shift' \in BOOLEAN /\ UNCHANGED <<typed, control, got, lost>>
AbsControl == control' \in BOOLEAN /\ UNCHANGED <<typed, shift, got, lost>>

AbsRead(count) ==
  LET n == Min({count, Len(typed)})
  IN /\ got' = SubSeq(typed, 1, n)
     /\ typed' = SubSeq(typed, n + 1, Len(typed))
     /\ lost' = FALSE
     /\ UNCHANGED <<shift, control>>

AbsNext ==
  \/ \E k \in Keys : AbsPress(k)
  \/ AbsShift \/ AbsControl
  \/ \E count \in 0..C_BUFSIZE : AbsRead(count)

AbsSpec == AbsInit /\ [][AbsNext]_absVars

=============================================================================
