------------------------------ MODULE ShellAbs ------------------------------
(***************************************************************************)
(* What the command line (user.c) promises: the lines that are typed are   *)
(* run in their order, each as three words.  Spaces at the beginning of a  *)
(* line, or after another one, do not count; the others separate words,    *)
(* except between quotes, and the fourth word and what follows is ignored. *)
(* A line without words is skipped.  With the end of a line, the           *)
(* characters that were read together with it are lost.                    *)
(***************************************************************************)
EXTENDS Integers, FiniteSets, SequencesExt

CONSTANTS
  Lines,            \* what is typed
  READ_SIZE         \* the characters that the shell reads at a time

SPACE == " "
QUOTE == "'"
NEWLINE == "\n"
NO_WORDS == <<<<>>, <<>>, <<>>>>

VARIABLES
  input,            \* what was typed and is neither taken nor lost
  taken,            \* the line that is taken to be run, if there is one
  running           \* the words of the command that is run, if there is one

absVars == <<input, taken, running>>

\* The characters of s at the places in S.
Pick(s, S) ==
  FoldLeft(LAMBDA p, i : IF i \in S THEN Append(p, s[i]) ELSE p, <<>>, [i \in DOMAIN s |-> i])

Squeezed(s) ==
  Pick(s, {i \in DOMAIN s : s[i] = SPACE => i > 1 /\ s[i - 1] # SPACE})

\* Word k of a line without spaces that do not count.
Word(s, k) ==
  LET quotes(i) == Cardinality({j \in 1..(i - 1) : s[j] = QUOTE})
      breaks == {i \in DOMAIN s : s[i] = SPACE /\ quotes(i) % 2 = 0}
      before(i) == Cardinality({j \in breaks : j < i})
  IN Pick(s, {i \in DOMAIN s \ breaks : s[i] # QUOTE /\ before(i) = k - 1})

AbsInit == input = <<>> /\ taken = <<>> /\ running = NO_WORDS

Type(l) == input' = input \o l /\ UNCHANGED <<taken, running>>

\* The line that ends with character e of the input is taken, and with it the
\* next characters, which are lost.
Take(e, lost) ==
  /\ taken = <<>> /\ running = NO_WORDS
  /\ input[e] = NEWLINE /\ \A i \in 1..(e - 1) : input[i] # NEWLINE
  /\ input' = SubSeq(input, e + lost + 1, Len(input))
  /\ LET line == SubSeq(input, 1, e - 1)
     IN taken' = IF Squeezed(line) = <<>> THEN <<>> ELSE line
  /\ UNCHANGED running

Start ==
  /\ taken # <<>>
  /\ running' = [k \in 1..3 |-> Word(Squeezed(taken), k)]
  /\ taken' = <<>>
  /\ UNCHANGED input

Done == running # NO_WORDS /\ running' = NO_WORDS /\ UNCHANGED <<input, taken>>

AbsNext ==
  \/ \E l \in Lines : Type(l)
  \/ \E e \in DOMAIN input, lost \in 0..(READ_SIZE - 1) :
       e + lost <= Len(input) /\ Take(e, lost)
  \/ Start \/ Done

AbsSpec == AbsInit /\ [][AbsNext]_absVars

=============================================================================
