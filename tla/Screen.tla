------------------------------- MODULE Screen -------------------------------
(***************************************************************************)
(* The output half of the console (c_io.c): the video memory, the cursor   *)
(* and the region of the screen that scrolls.  A routine runs to its end   *)
(* with interrupts disabled.  Colours and the hardware cursor are left out.*)
(***************************************************************************)
EXTENDS Integers, SequencesExt

CONSTANTS
  X_SIZE, Y_SIZE,   \* SCREEN_X_SIZE, SCREEN_Y_SIZE
  Texts,            \* what is printed: sequences of characters
  Corners,          \* arguments of c_setscroll: <<min_x, min_y, max_x, max_y>>
  Places,           \* where texts are put that do not scroll, <<x, y>>
  Labels, Blocks,   \* which, and those of several lines
  ClearsAtHome      \* whether c_clearscroll is called with the cursor at home only

\* Lines of text, each ended by its newline.
IsBlock(b) ==
  /\ b \in Seq(Seq(STRING))
  /\ \A n \in DOMAIN b :
       /\ b[n] # <<>>
       /\ \A i \in DOMAIN b[n] : b[n][i] # "\r" /\ (b[n][i] = "\n" <=> i = Len(b[n]))

ASSUME ScreenAssumption ==
  /\ X_SIZE \in Nat \ {0} /\ Y_SIZE \in Nat \ {0}
  /\ \A c \in Corners : c \in Seq(Nat) /\ Len(c) = 4
  /\ Places \subseteq Nat \X Nat
  /\ \A t \in Texts \cup Labels : t \in Seq(STRING)
  /\ \A b \in Blocks : IsBlock(b)
  /\ ClearsAtHome \in BOOLEAN

max_x == X_SIZE - 1
max_y == Y_SIZE - 1
Grid == (0..max_x) \X (0..max_y)
BLANK == " "
NEWLINE == "\n"
RETURN == "\r"

VARIABLES
  scroll,           \* scroll_min_x, scroll_min_y, scroll_max_x, scroll_max_y
  screen            \* cells: the video memory; x, y: curr_x and curr_y

screenVars == <<scroll, screen>>

-----------------------------------------------------------------------------
(* Mutants: each replaces the definition named beside it.                  *)

EdgeOfScreen(x) == max_x                                          \* Limit
ScrollNow(s) == s                                                 \* Caught
WholeRows(p) == p[2] \in scroll.min_y..scroll.max_y               \* InRegion

-----------------------------------------------------------------------------

\* bound
Bound(lo, value, hi) == Min({Max({value, lo}), hi})

InRegion(p) == p[1] \in scroll.min_x..scroll.max_x /\ p[2] \in scroll.min_y..scroll.max_y

\* __c_putchar_at: nothing happens outside of the screen.
Draw(s, x, y, c) == IF <<x, y>> \in Grid THEN [s EXCEPT !.cells[<<x, y>>] = c] ELSE s

\* Blanks in row y from x to limit.
Erase(s, x, y, limit) ==
  [s EXCEPT !.cells = [p \in Grid |-> IF p[2] = y /\ p[1] \in x..limit THEN BLANK ELSE @[p]]]

\* c_clearscroll, which leaves the cursor where it is.
Cleared(s) == [s EXCEPT !.cells = [p \in Grid |-> IF InRegion(p) THEN BLANK ELSE @[p]]]

Home(s) == [s EXCEPT !.x = scroll.min_x, !.y = scroll.min_y]

\* c_scroll
Scrolled(s, lines) ==
  IF lines > scroll.max_y - scroll.min_y THEN Home(Cleared(s))
  ELSE [s EXCEPT !.cells = [p \in Grid |->
          CASE ~InRegion(p) -> @[p]
            [] InRegion(p) /\ p[2] <= scroll.max_y - lines -> @[<<p[1], p[2] + lines>>]
            [] OTHER -> BLANK]]

\* c_putchar scrolls only when there is something to print below the region.
Caught(s) ==
  IF s.y > scroll.max_y
  THEN [Scrolled(s, s.y - scroll.max_y) EXCEPT !.y = scroll.max_y]
  ELSE s

NewLine(s) == [s EXCEPT !.x = scroll.min_x, !.y = @ + 1]

\* c_putchar
Putchar(s, c) ==
  LET t == Caught(s) IN
  CASE c = NEWLINE -> NewLine(Erase(t, t.x, t.y, scroll.max_x))
    [] c = RETURN -> [t EXCEPT !.x = scroll.min_x]
    [] OTHER ->
         LET d == [Draw(t, t.x, t.y, c) EXCEPT !.x = @ + 1]
         IN IF d.x > scroll.max_x THEN NewLine(d) ELSE d

\* c_putchar_at: how far a newline clears from column x on.
Limit(x) ==
  CASE x > scroll.max_x -> max_x
    [] x \in scroll.min_x..scroll.max_x -> scroll.max_x
    [] OTHER -> scroll.min_x - 1
PutAt(s, x, y, c) == IF c = NEWLINE THEN Erase(s, x, y, Limit(x)) ELSE Draw(s, x, y, c)

\* c_io_init
ScreenInit ==
  /\ scroll = [min_x |-> 0, min_y |-> 0, max_x |-> max_x, max_y |-> max_y]
  /\ screen = [cells |-> [p \in Grid |-> BLANK], x |-> 0, y |-> 0]

-----------------------------------------------------------------------------

\* c_setscroll
SetScroll(c) ==
  /\ LET left == Bound(0, c[1], max_x)
         top == Bound(0, c[2], max_y)
     IN /\ scroll' = [min_x |-> left, min_y |-> top,
                      max_x |-> Bound(left, c[3], max_x), max_y |-> Bound(top, c[4], max_y)]
        /\ screen' = [screen EXCEPT !.x = left, !.y = top]

\* c_moveto
MoveTo(x, y) ==
  /\ screen' = [screen EXCEPT
       !.x = Bound(scroll.min_x, x + scroll.min_x, scroll.max_x),
       !.y = Bound(scroll.min_y, y + scroll.min_y, scroll.max_y)]
  /\ UNCHANGED scroll

\* c_puts, c_putbuf, and c_printf with what it makes of its arguments
Puts(text) == screen' = FoldLeft(Putchar, screen, text) /\ UNCHANGED scroll

\* c_puts_at: one column for every character, a newline too.  (c_putchar_at, which
\* the clock interrupt uses, is a text of one character.)
PutsAt(x, y, text) ==
  /\ screen' = FoldLeft(LAMBDA s, i : IF x + i - 1 > max_x THEN s
                                      ELSE PutAt(s, x + i - 1, y, text[i]),
                        screen, [i \in 1..Len(text) |-> i])
  /\ UNCHANGED scroll

\* c_printf_at, with what it makes of its arguments: a newline or a return goes on
\* in the first column of the region.
PrintAt(x, y, text) ==
  /\ screen' = FoldLeft(LAMBDA a, c :
         [s |-> PutAt(a.s, a.x, a.y, c),
          x |-> IF c \in {NEWLINE, RETURN} THEN scroll.min_x ELSE a.x + 1,
          y |-> IF c = NEWLINE THEN a.y + 1 ELSE a.y],
       [s |-> screen, x |-> x, y |-> y], text).s
  /\ UNCHANGED scroll

Scroll(lines) == screen' = Scrolled(screen, lines) /\ UNCHANGED scroll
ClearScroll == screen' = Cleared(screen) /\ UNCHANGED scroll

\* c_clearscreen
ClearScreen ==
  /\ screen' = [screen EXCEPT !.cells = [p \in Grid |-> BLANK]]
  /\ UNCHANGED scroll

ScreenNext ==
  \/ \E c \in Corners : SetScroll(c)
  \/ \E p \in Grid : MoveTo(p[1], p[2])
  \/ \E t \in Texts : Puts(t)
  \/ \E t \in Labels, p \in Places : PutsAt(p[1], p[2], t)
  \/ \E b \in Blocks, p \in Places : PrintAt(p[1], p[2], FlattenSeq(b))
  \/ \E lines \in 0..Y_SIZE : Scroll(lines)
  \/ (ClearsAtHome => screen = Home(screen)) /\ ClearScroll
  \/ ClearScreen

-----------------------------------------------------------------------------

\* The cursor is in the region, or at the left end of the line below it, where
\* the next character scrolls: however region, cursor and text follow each other,
\* c_putchar draws in the region only (c_io.c:118-136, 182-222).
CursorInRegion ==
  \/ InRegion(<<screen.x, screen.y>>)
  \/ screen.x = scroll.min_x /\ screen.y = scroll.max_y + 1

=============================================================================
