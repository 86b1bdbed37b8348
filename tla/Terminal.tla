------------------------------ MODULE Terminal ------------------------------
(***************************************************************************)
(* Keyboard and screen together (c_io.c): _init sets the screen up and     *)
(* prints on it, then waits for a key, and from then on the kernel prints, *)
(* the clock interrupt turns a pinwheel in a corner, every interrupt ends  *)
(* with a print of the context it returns to, keys are typed and processes *)
(* read them, each with its echo.                                          *)
(***************************************************************************)
EXTENDS Console, Screen, Conversions

CONSTANTS
  Formats,          \* the fields that _init prints with c_printf
  Contexts,         \* what is printed of a context, line by line
  CONTEXT_Y,        \* in which row: 1
  Solid             \* what a key looks like, whichever it is

VARIABLE
  setup             \* _init is not yet at the end, where it waits for a key

ASSUME TerminalAssumption ==
  /\ CONTEXT_Y \in Nat
  /\ \A lines \in Contexts : IsBlock(lines)
  /\ \A f \in Formats :
       f.width \in Nat /\ f.value \in IF f.conv \in {"d", "x", "o"} THEN Words ELSE Seq(STRING)
terminalVars == <<vars, scroll, screen, setup>>

\* Control leaves five bits of a character, so that of a J and an asterisk, an M
\* and a hyphen, a D and a dollar only a line feed, a return, EOT remain.
IsNewline(c) ==
  \/ c[1] = "enter"
  \/ c[3] /\ (c[1] \in {"j", "keypad *"} \/ (c[1] = "8" /\ c[2]))
IsReturn(c) == c[3] /\ (c[1] \in {"m", "keypad -"} \/ (c[1] = "-" /\ ~c[2]))
IsEOT(c) == c[3] /\ (c[1] = "d" \/ (c[1] = "4" /\ c[2]))

\* c_getchar prints what it returns unless that is EOT.
Glyph(c) == IF IsNewline(c) THEN NEWLINE ELSE IF IsReturn(c) THEN RETURN ELSE Solid
IsEcho(c) == ~IsEOT(c)
Echo(chars) ==
  FoldLeft(LAMBDA text, c : IF IsEcho(c) THEN Append(text, Glyph(c)) ELSE text, <<>>, chars)

TerminalInit == Init /\ ScreenInit /\ setup = TRUE

-----------------------------------------------------------------------------

SetUp ==
  /\ setup
  /\ ScreenNext \/ \E f \in Formats : Puts(Field(f))
  /\ UNCHANGED <<vars, setup>>
AskForKey == setup /\ setup' = FALSE /\ UNCHANGED <<vars, scroll, screen>>

Wait(code) == ~setup /\ PollKeyboard(code) /\ UNCHANGED <<scroll, screen, setup>>
GetFirstKey == FirstKey /\ Puts(Echo(got')) /\ UNCHANGED setup

Key(code) == KeyboardInterrupt(code) /\ UNCHANGED <<scroll, screen, setup>>
ReadAndEcho(count) == Read(count) /\ Puts(Echo(got')) /\ UNCHANGED setup
KernelPrints(text) == ~booting /\ Puts(text) /\ UNCHANGED <<vars, setup>>
Pinwheel(c) == ~booting /\ PutsAt(X_SIZE - 1, 0, <<c>>) /\ UNCHANGED <<vars, setup>>

\* __isr_restore, with ISR_DEBUGGING_CODE
RestoreContext(lines) ==
  ~booting /\ PrintAt(0, CONTEXT_Y, FlattenSeq(lines)) /\ UNCHANGED <<vars, setup>>

TerminalNext ==
  \/ SetUp \/ AskForKey \/ GetFirstKey
  \/ \E code \in Codes : Wait(code) \/ Key(code)
  \/ \E count \in 0..C_BUFSIZE : ReadAndEcho(count)
  \/ \E t \in Texts : KernelPrints(t)
  \/ \E c \in {Solid, " "} : Pinwheel(c)
  \/ \E lines \in Contexts : RestoreContext(lines)

TerminalSpec == TerminalInit /\ [][TerminalNext]_terminalVars

-----------------------------------------------------------------------------

\* The screen is a page that is printed on and places around it.  The echo of what
\* is read goes on where the kernel's messages end, the page moves up by no line
\* more than what is printed needs, and neither touches what is beside the page,
\* where the clock interrupt draws and contexts are printed (c_io.h:60-76, 150-182,
\* c_io.c:655-661, clock.c:70-72, isr_stubs.S:178-181).
Picture == INSTANCE ScreenAbs WITH
  Texts <- Texts \cup {Field(f) : f \in Formats}
           \cup UNION {[1..n -> {Solid, "\n", "\r"}] : n \in 0..(C_BUFSIZE - 1)},
  Labels <- Labels \cup {<<Solid>>, <<" ">>},
  Blocks <- Blocks \cup Contexts,
  Places <- Places \cup {<<X_SIZE - 1, 0>>, <<0, CONTEXT_Y>>},
  picture <- screen.cells,
  region <- [left |-> scroll.min_x, top |-> scroll.min_y,
             width |-> scroll.max_x - scroll.min_x + 1,
             height |-> scroll.max_y - scroll.min_y + 1],
  col <- screen.x - scroll.min_x + 1,
  line <- screen.y - scroll.min_y + 1
ScreenRefines == Picture!AbsSpec

=============================================================================
