------------------------------ MODULE ScreenAbs ------------------------------
(***************************************************************************)
(* What the output half of the console (c_io.c, c_io.h) promises: a page   *)
(* of lines in a part of the screen, which is printed on like on paper and *)
(* moves up for a new line, and places around it that never move.          *)
(***************************************************************************)
EXTENDS Integers, SequencesExt

CONSTANTS
  X_SIZE, Y_SIZE, Texts, Places, Labels,   \* as in Screen
  Blocks            \* sequences of lines that are put at places

VARIABLES
  picture,          \* what is shown at each <<x, y>>
  region,           \* [left, top, width, height]: the part of it that is the page
  col, line         \* where printing goes on; the line is the one behind the last
                    \* until there is something to print on it

absVars == <<picture, region, col, line>>

\* Columns and lines of the page count from 1.
OnPage(p) ==
  p[1] - region.left \in 0..(region.width - 1) /\ p[2] - region.top \in 0..(region.height - 1)
BlankLine == [i \in 1..region.width |-> " "]
PageOf(pic) ==
  [j \in 1..region.height |->
     [i \in 1..region.width |-> pic[<<region.left + i - 1, region.top + j - 1>>]]]

\* The page up by n lines.
Up(page, n) ==
  SubSeq(page, n + 1, Len(page)) \o [i \in 1..Min({n, Len(page)}) |-> BlankLine]

\* A new line clears the rest of the one that it ends, a full line goes on in the
\* next, and the page moves up only for the first character of a new line.
Put(s, c) ==
  LET page == IF s.line > Len(s.page) THEN Up(s.page, 1) ELSE s.page
      at == Min({s.line, Len(s.page)})
      next == [page |-> page, col |-> 1, line |-> at + 1]
  IN CASE c = "\n" -> [next EXCEPT !.page[at] =
                         [i \in DOMAIN @ |-> IF i < s.col THEN @[i] ELSE " "]]
       [] c = "\r" -> [next EXCEPT !.line = at]
       [] OTHER ->
            LET put == [next EXCEPT !.page[at] = [@ EXCEPT ![s.col] = c]]
            IN IF s.col < region.width THEN [put EXCEPT !.col = s.col + 1, !.line = at] ELSE put

Beside == \A p \in DOMAIN picture : ~OnPage(p) => picture'[p] = picture[p]
PageBecomes(page) == PageOf(picture)' = page /\ Beside /\ UNCHANGED region

-----------------------------------------------------------------------------

AbsInit ==
  /\ picture = [p \in (0..(X_SIZE - 1)) \X (0..(Y_SIZE - 1)) |-> " "]
  /\ region = [left |-> 0, top |-> 0, width |-> X_SIZE, height |-> Y_SIZE]
  /\ col = 1 /\ line = 1

AbsSetScroll ==
  /\ region' # region \/ <<col, line>>' # <<col, line>>
  /\ region'.width >= 1 /\ region'.height >= 1
  /\ region'.left \in 0..(X_SIZE - region'.width)
  /\ region'.top \in 0..(Y_SIZE - region'.height)
  /\ col' = 1 /\ line' = 1
  /\ UNCHANGED picture

AbsMoveTo ==
  /\ col' \in 1..region.width /\ line' \in 1..region.height
  /\ UNCHANGED <<picture, region>>

AbsPrint(text) ==
  LET end == FoldLeft(Put, [page |-> PageOf(picture), col |-> col, line |-> line], text)
  IN PageBecomes(end.page) /\ col' = end.col /\ line' = end.line

\* The page stops what is cleared from outside, and its edge what is cleared in
\* the columns of the page.
Side(x) == IF x < region.left THEN 1 ELSE IF x < region.left + region.width THEN 2 ELSE 3
Shown(p, x, text) ==     \* at p, in the line of the text
  LET drawn == {i \in DOMAIN text :
        LET c == text[i] IN
        \/ c # "\n" /\ p[1] = x + i - 1
        \/ c = "\n" /\ p[1] >= x + i - 1 /\ Side(p[1]) = Side(x + i - 1)}
      last == text[Max(drawn)]
  IN IF drawn = {} THEN picture[p] ELSE IF last = "\n" THEN " " ELSE last

AbsPrintAt(x, y, text) ==
  /\ \A p \in DOMAIN picture :
       picture'[p] = IF p[2] = y THEN Shown(p, x, text) ELSE picture[p]
  /\ UNCHANGED <<region, col, line>>

\* Several lines, each ended by its newline: the second begins below the first at
\* the left edge of the page.
AbsPrintLinesAt(x, y, lines) ==
  /\ \A p \in DOMAIN picture :
       LET n == p[2] - y + 1 IN
       picture'[p] = IF n \in DOMAIN lines
                     THEN Shown(p, IF n = 1 THEN x ELSE region.left, lines[n])
                     ELSE picture[p]
  /\ UNCHANGED <<region, col, line>>

\* A page that moves up as a whole is begun again.
AbsScroll(n) ==
  /\ PageBecomes(Up(PageOf(picture), n))
  /\ IF n >= region.height THEN col' = 1 /\ line' = 1 ELSE UNCHANGED <<col, line>>

AbsClearPage == PageBecomes(Up(PageOf(picture), region.height)) /\ col' = 1 /\ line' = 1
AbsClear == (\A p \in DOMAIN picture : picture'[p] = " ") /\ UNCHANGED <<region, col, line>>

AbsNext ==
  \/ AbsSetScroll \/ AbsMoveTo \/ AbsClearPage \/ AbsClear
  \/ \E t \in Texts : AbsPrint(t)
  \/ \E t \in Labels, p \in Places : AbsPrintAt(p[1], p[2], t)
  \/ \E t \in Blocks, p \in Places : AbsPrintLinesAt(p[1], p[2], t)
  \/ \E n \in 0..Y_SIZE : AbsScroll(n)

AbsSpec == AbsInit /\ [][AbsNext]_absVars

=============================================================================
