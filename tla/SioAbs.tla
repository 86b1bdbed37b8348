------------------------------- MODULE SioAbs -------------------------------
(***************************************************************************)
(* What the serial driver (sio.c) promises: two FIFO streams of characters *)
(* with a bounded buffer each.  What arrives is read in the order of its   *)
(* arrival, what is written is sent in the order of the writes, and a      *)
(* character is lost only when a buffer is full.                           *)
(***************************************************************************)
EXTENDS Integers, SequencesExt

CONSTANTS
  BUF_SIZE,         \* characters that each buffer holds
  Chars,            \* characters
  CR, LF,           \* two of them
  Strings, Buffers  \* what is written with _sio_puts and with _sio_writes

VARIABLES
  unread,           \* what has arrived and was not read yet
  got,              \* the result of the last read
  unsent,           \* what was written and not sent yet
  calls             \* a bit for what arrives and one for what is written, which
                    \* changes each time: also what is lost is a step

absVars == <<unread, got, unsent, calls>>

Translated(c) == IF c = CR THEN LF ELSE c
WithCR(s) == FlattenSeq([i \in DOMAIN s |-> IF s[i] = LF THEN <<CR, LF>> ELSE <<s[i]>>])

Arrives == calls' = [calls EXCEPT !.arrived = ~@]
Written == calls' = [calls EXCEPT !.written = ~@]

AbsInit ==
  /\ unread = <<>> /\ got = <<>> /\ unsent = <<>>
  /\ calls = [arrived |-> FALSE, written |-> FALSE]

AbsReceive(c) ==
  /\ Arrives
  /\ unread' = IF Len(unread) < BUF_SIZE THEN Append(unread, Translated(c)) ELSE unread
  /\ UNCHANGED <<got, unsent>>

AbsRead(n) ==
  /\ n <= Len(unread)
  /\ got' = SubSeq(unread, 1, n)
  /\ unread' = SubSeq(unread, n + 1, Len(unread))
  /\ UNCHANGED <<unsent, calls>>

AbsSend ==
  /\ unsent # <<>>
  /\ unsent' = Tail(unsent)
  /\ UNCHANGED <<unread, got, calls>>

AbsPuts(s) ==
  /\ Written
  /\ unsent' = unsent \o WithCR(s)
  /\ UNCHANGED <<unread, got>>

\* The characters that do not fit are dropped, and only those.
AbsWrites(b) ==
  /\ Written
  /\ \E n \in 0..Len(b) :
       /\ n < Len(b) => Len(unsent) + n >= BUF_SIZE
       /\ unsent' = unsent \o SubSeq(b, 1, n)
  /\ UNCHANGED <<unread, got>>

AbsNext ==
  \/ \E c \in Chars : AbsReceive(c)
  \/ \E n \in 0..BUF_SIZE : AbsRead(n)
  \/ AbsSend
  \/ \E s \in Strings : AbsPuts(s)
  \/ \E b \in Buffers : AbsWrites(b)

AbsSpec == AbsInit /\ [][AbsNext]_absVars

=============================================================================
