---------------------------- MODULE Conversions ----------------------------
(***************************************************************************)
(* The number formats of c_printf (c_io.c) and of the user library         *)
(* (ulibc.c).  Words have WORD_BITS bits, 32 in the code.  A word that     *)
(* splits into groups of three bits as 32 bits do, two of them left over,  *)
(* and whose largest power of two ends in 8 takes the same paths: 8 and 20 *)
(* bits do.                                                                *)
(***************************************************************************)
EXTENDS Integers, SequencesExt

CONSTANT WORD_BITS

ASSUME ConversionsAssumption ==
  WORD_BITS \in Nat /\ WORD_BITS >= 8 /\ WORD_BITS % 12 = 8

Power2[n \in 0..WORD_BITS] == IF n = 0 THEN 1 ELSE 2 * Power2[n - 1]
HALF == Power2[WORD_BITS - 1]
Words == (-HALF)..(HALF - 1)

\* The bits of a word as a number, and the word with the bits of a number.
Unsigned(v) == IF v < 0 THEN v + 2 * HALF ELSE v
Negated(v) == IF v = -HALF THEN v ELSE -v

Digit(d) == <<"0", "1", "2", "3", "4", "5", "6", "7",
              "8", "9", "A", "B", "C", "D", "E", "F">>[d + 1]

-----------------------------------------------------------------------------
(* Mutants: each replaces the definition named beside it.                  *)

QuotientOnly(v) ==                                                \* Split
  [quotient |-> IF v < 0 THEN -((0 - v) \div 10) ELSE v \div 10, value |-> v]
ZeroesDropped(s, digit, last) ==                                  \* Store
  IF digit # 0 \/ last THEN Append(s, Digit(digit)) ELSE s
RightOnly(str, width, left, fill) ==                              \* Padded
  [i \in 1..(width - Len(str)) |-> fill] \o str

-----------------------------------------------------------------------------

\* cvtdec0, itos10x: the only negative value is one whose negation is itself.
\* It is put right by hand.
Split(v) ==
  IF v < 0 THEN [quotient |-> HALF \div 10, value |-> 8]
  ELSE [quotient |-> v \div 10, value |-> v]

Cvtdec0[v \in Words] ==
  LET s == Split(v)
  IN (IF s.quotient # 0 THEN Cvtdec0[s.quotient] ELSE <<>>) \o <<Digit(s.value % 10)>>

\* cvtdec, itos10
Cvtdec(v) == IF v < 0 THEN <<"-">> \o Cvtdec0[Negated(v)] ELSE Cvtdec0[v]

\* A digit is stored if it is the last one, not zero, or others are stored.
Store(s, digit, last) ==
  IF digit # 0 \/ last \/ s # <<>> THEN Append(s, Digit(digit)) ELSE s
Stored(digits, n) ==
  FoldLeft(LAMBDA s, i : Store(s, digits[i], i = n), <<>>, [i \in 1..n |-> i])

\* cvthex, and itos16 without store_all: four bits at a time from the top.
HEX_DIGITS == WORD_BITS \div 4
Nibble(v, i) == (Unsigned(v) \div Power2[4 * (HEX_DIGITS - i)]) % 16
Cvthex(v) == Stored([i \in 1..HEX_DIGITS |-> Nibble(v, i)], HEX_DIGITS)

\* itos16 with store_all
Itos16All(v) == [i \in 1..HEX_DIGITS |-> Digit(Nibble(v, i))]

\* cvtoct: the top two bits, with the sign in front of them, and then three bits
\* at a time of what is left of the word when it is shifted by three, not two.
OCT_DIGITS == (WORD_BITS + 1) \div 3
TopBits(v) ==
  LET top == Unsigned(v) \div Power2[WORD_BITS - 2] IN IF v < 0 THEN top + 4 ELSE top
Triple(v, i) == ((Unsigned(v) * 2) \div Power2[3 * (OCT_DIGITS - i)]) % 8
Cvtoct(v) ==
  Stored([i \in 1..OCT_DIGITS |-> IF i = 1 THEN TopBits(v) ELSE Triple(v, i)], OCT_DIGITS)

\* itos8: every digit behind the first is shifted out of the word.
Itos8(v, store_all) ==
  LET top == Unsigned(v) \div Power2[WORD_BITS - 2]
      zeroes == [i \in 1..(OCT_DIGITS - 1) |-> Digit(0)]
  IN IF top # 0 \/ store_all THEN <<Digit(top)>> \o zeroes ELSE <<Digit(0)>>

\* padstr and pad
Padded(str, width, left, fill) ==
  LET extra == [i \in 1..(width - Len(str)) |-> fill]
  IN IF left THEN str \o extra ELSE extra \o str

\* What __c_do_printf makes of a field: conv is the letter of its type.
Field(f) ==
  Padded(CASE f.conv = "d" -> Cvtdec(f.value)
           [] f.conv = "x" -> Cvthex(f.value)
           [] f.conv = "o" -> Cvtoct(f.value)
           [] OTHER -> f.value,
         f.width, f.left, f.fill)

-----------------------------------------------------------------------------

\* The number that a string of digits stands for.
DigitValue(c) == CHOOSE d \in 0..15 : Digit(d) = c
ValueOf(s, base) == FoldLeft(LAMBDA n, c : n * base + DigitValue(c), 0, s)

\* s is how the natural number n is written.
IsNumeral(s, n, base) ==
  /\ s # <<>> /\ \A i \in DOMAIN s : s[i] \in {Digit(d) : d \in 0..(base - 1)}
  /\ s[1] = Digit(0) => Len(s) = 1
  /\ ValueOf(s, base) = n

\* The word v is printed as the decimal number and the hexadecimal number that
\* it is, without and with leading zeroes.
IsPrintedRight(v) ==
  /\ IF v < 0 THEN Head(Cvtdec(v)) = "-" /\ IsNumeral(Tail(Cvtdec(v)), -v, 10)
     ELSE IsNumeral(Cvtdec(v), v, 10)
  /\ IsNumeral(Cvthex(v), Unsigned(v), 16)
  /\ Len(Itos16All(v)) = HEX_DIGITS /\ ValueOf(Itos16All(v), 16) = Unsigned(v)

=============================================================================
