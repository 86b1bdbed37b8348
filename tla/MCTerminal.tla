----------------------------- MODULE MCTerminal -----------------------------
(***************************************************************************)
(* Terminal for TLC: what is printed, and a bound: keys are awaited with   *)
(* an empty page, of the last of Corners, and a clean screen around it.    *)
(* The numbers whose conversions are checked are initial states of their   *)
(* own, in which nothing else happens.                                     *)
(***************************************************************************)
EXTENDS Terminal

VARIABLE number     \* the number to convert, or 0
MCVars == <<terminalVars, number>>

MCTexts == {<<"7">>, <<"\n">>, <<"\r", "7">>, <<"7", "7", "\n">>}
MCLabels == {<<"7">>, <<"7", "\n">>}
MCBlocks == {<<<<"\n">>, <<"7", "\n">>>>}
MCContexts == {<<<<"7", "\n">>>>}
MCCorners == {<<1, 0, 1, 1>>, <<9, 9, 0, 0>>, <<1, 1, 9, 9>>}
MCPlaces == {<<0, 0>>, <<1, 2>>, <<2, 1>>}
MCFormats == {[conv |-> "d", value |-> 77, width |-> 3, left |-> FALSE, fill |-> " "],
              [conv |-> "x", value |-> 7, width |-> 2, left |-> TRUE, fill |-> "\n"]}

\* Numbers around the powers of the bases, the small ones and the ends of a word.
MCNumbers ==
  LET powers == {2^i : i \in 0..19} \cup {10^i : i \in 0..5} \cup {6 * 8^i : i \in 0..5}
      near == UNION {{p - 1, p, p + 1} : p \in powers} \cup 0..32
  IN (near \cup {-v : v \in near}) \cap Words

Ready ==
  /\ scroll = [min_x |-> 1, min_y |-> 1, max_x |-> 2, max_y |-> 2]
  /\ screen = [cells |-> [p \in (0..2) \X (0..2) |-> " "], x |-> 1, y |-> 1]

MCInit == TerminalInit /\ number \in MCNumbers

MCStep ==
  \/ SetUp \/ (Ready /\ AskForKey) \/ GetFirstKey
  \/ \E code \in Codes : Wait(code) \/ Key(code)
  \/ \E count \in 0..C_BUFSIZE : ReadAndEcho(count)
  \/ \E t \in Texts : KernelPrints(t)
  \/ \E c \in {Solid, " "} : Pinwheel(c)
  \/ \E lines \in Contexts : RestoreContext(lines)

MCNext ==
  \/ number = 0 /\ MCStep /\ UNCHANGED number
  \/ number # 0 /\ UNCHANGED MCVars

MCSpec == MCInit /\ [][MCNext]_MCVars

\* Nothing depends on the last result, nor on what was read already.
TerminalView ==
  <<[i \in 1..InputQueue |-> input_buffer[Ahead(i - 1)]], pointers, shift, control,
    booting, lost, scroll, screen, setup, number>>

\* Numbers are printed as what they are, also the one whose negation overflows,
\* which cvtdec0 and itos10x put right by hand, and those with zeroes inside
\* (c_io.c:292-347, ulibc.c:70-101, 136-152).
NumbersAreRight == IsPrintedRight(number)

=============================================================================
