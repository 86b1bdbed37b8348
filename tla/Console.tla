------------------------------ MODULE Console ------------------------------
(***************************************************************************)
(* The keyboard half of the console (c_io.c): the keyboard interrupt, the  *)
(* circular buffer and the read system call on FD_CONSOLE (syscall.c).     *)
(* Before the first process runs, _init waits for a key with interrupts    *)
(* disabled and so reads the keyboard itself.  Pointers into the buffer    *)
(* are offsets from its beginning.                                         *)
(***************************************************************************)
EXTENDS Integers, SequencesExt

CONSTANTS
  C_BUFSIZE,        \* as in ConsoleAbs
  Keys,             \* the keys with a place in scan_code
  Undefined         \* those of them that type nothing

ASSUME ConsoleAssumption ==
  /\ C_BUFSIZE \in Nat /\ C_BUFSIZE >= 2
  /\ Keys \cap {"shift", "control"} = {}      \* cases of their own in the switch
  /\ Undefined \subseteq Keys

Offsets == 0..(C_BUFSIZE - 1)
NONE == <<>>          \* no character yet

\* What the keyboard sends: a key is pressed or released, be it shift, control
\* or one of the others.
Codes == [press : BOOLEAN, key : Keys \cup {"shift", "control"}]

VARIABLES
  input_buffer,
  next_char, next_space,    \* where characters are taken and stored
  shift, control,           \* static in __c_input_scan_code; control is
                            \* ctrl_mask # 0xff
  booting,                  \* _init waits for a key
  got,                      \* what the last read, or _init, was given
  lost                      \* history: since that read a key was pressed in vain

pointers == <<next_char, next_space>>
vars == <<input_buffer, pointers, shift, control, booting, got, lost>>

-----------------------------------------------------------------------------
(* Mutants: each replaces the definition named beside it.                  *)

AlwaysRoom == TRUE                                            \* Room
NoWrap(p) == p + 1                                            \* Increment

-----------------------------------------------------------------------------

\* __c_increment
Increment(p) == IF p + 1 >= C_BUFSIZE THEN 0 ELSE p + 1

\* next != __c_next_char
Room == Increment(next_space) # next_char

\* c_input_queue
InputQueue ==
  IF next_space < next_char THEN next_space - next_char + C_BUFSIZE
  ELSE next_space - next_char

\* scan_code[ shift ][ code ] & ctrl_mask: a character is told apart by its key
\* and the modifiers.
Char(k) == <<k, shift, control>>

\* __c_input_scan_code.  That a key is undefined is not noticed: its place in
\* the table is an unsigned 255, which no (negative) '\377' equals, and so it is
\* stored like any other.
InputScanCode(code) ==
  /\ shift' = IF code.key = "shift" THEN code.press ELSE shift
  /\ control' = IF code.key = "control" THEN code.press ELSE control
  /\ IF code.press /\ code.key \in Keys /\ Room
     THEN /\ input_buffer' = [input_buffer EXCEPT ![next_space] = Char(code.key)]
          /\ next_space' = Increment(next_space)
     ELSE UNCHANGED <<input_buffer, next_space>>
  /\ lost' = (lost \/ (code.press /\ code.key \in Keys /\ next_space' = next_space))

\* The next n characters, by c_getchar, and the pointer behind them.
Ahead(n) == FoldLeft(LAMBDA p, i : Increment(p), next_char, [i \in 1..n |-> i])
Getchars(n) ==
  /\ got' = [i \in 1..n |-> input_buffer[Ahead(i - 1)]]
  /\ next_char' = Ahead(n)
  /\ lost' = FALSE
  /\ UNCHANGED <<input_buffer, next_space, shift, control>>

Init ==
  /\ input_buffer = [p \in Offsets |-> NONE]
  /\ next_char = 0 /\ next_space = 0
  /\ shift = FALSE /\ control = FALSE
  /\ booting = TRUE /\ got = <<>> /\ lost = FALSE

-----------------------------------------------------------------------------

\* __c_keyboard_isr
KeyboardInterrupt(code) ==
  /\ ~booting
  /\ InputScanCode(code)
  /\ UNCHANGED <<next_char, booting, got>>

\* c_getchar in _init, which reads the keyboard until there is a character and
\* then takes it.
PollKeyboard(code) ==
  /\ booting /\ next_char = next_space
  /\ InputScanCode(code)
  /\ UNCHANGED <<next_char, booting, got>>
FirstKey ==
  /\ booting /\ next_char # next_space
  /\ Getchars(1)
  /\ booting' = FALSE

\* _sys_read on FD_CONSOLE
Read(count) ==
  /\ ~booting
  /\ Getchars(Min({count, InputQueue}))
  /\ UNCHANGED booting

Next ==
  \/ \E code \in Codes : KeyboardInterrupt(code) \/ PollKeyboard(code)
  \/ FirstKey
  \/ \E count \in 0..C_BUFSIZE : Read(count)

Spec == Init /\ [][Next]_vars

-----------------------------------------------------------------------------

Chars == Keys \X BOOLEAN \X BOOLEAN

TypeOK ==
  /\ input_buffer \in [Offsets -> Chars \cup {NONE}]
  /\ {next_char, next_space} \subseteq Offsets
  /\ {shift, control, booting, lost} \subseteq BOOLEAN
  /\ got \in Seq(Chars)

\* The keyboard and its readers share the two pointers and nothing else, and
\* still every character is read once, as it was typed and in its order, when the
\* pointers have wrapped and when the buffer is full or empty, which the pointers
\* only tell apart by the place that stays free, and none is lost while there is
\* room (c_io.c:566-573, 619-630, 653-654, 683-690).
Abs == INSTANCE ConsoleAbs WITH
  Keys <- Keys \ Undefined,
  typed <- [i \in 1..InputQueue |-> input_buffer[Ahead(i - 1)]]
Refines == Abs!AbsSpec

\* "Ignore undefined scan codes" (c_io.c:615): a key that types nothing never
\* takes a place in the buffer.
UndefinedAreIgnored ==
  \A p \in Offsets : input_buffer[p] # NONE => input_buffer[p][1] \notin Undefined

=============================================================================
