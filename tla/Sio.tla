-------------------------------- MODULE Sio --------------------------------
(***************************************************************************)
(* The serial driver (sio.c) with the read and write system calls on       *)
(* FD_SIO (syscall.c) and the UART's transmitter.  An interrupt handler    *)
(* and a system call never overlap: both run with interrupts disabled.     *)
(* Pointers into a buffer are offsets from its beginning.                  *)
(***************************************************************************)
EXTENDS Integers, SequencesExt

CONSTANTS
  BUF_SIZE, Chars, CR, LF, Strings, Buffers,    \* as in SioAbs
  Paced             \* Nothing overruns a buffer: characters arrive only while
                    \* there is a place behind the last one or the buffer is
                    \* full, and strings are written only where they fit.  And
                    \* no buffer with LF as its first character is written
                    \* while nothing is sent: the LF would overtake the rest.

ASSUME SioAssumption ==
  /\ BUF_SIZE \in Nat \ {0}
  /\ {CR, LF} \subseteq Chars /\ CR # LF
  /\ Strings \subseteq Seq(Chars)
  /\ Buffers \subseteq Seq(Chars) \ {<<>>}
  /\ Paced \in BOOLEAN

NONE == "none"
ASSUME NoneAssumption == NONE \notin Chars

Offsets == 0..(BUF_SIZE - 1)

VARIABLES
  in,               \* the input half: [buf, next, last, count]
  out,              \* the output half: [buf, next, last, count, sending,
                    \*   tx, the transmitter's interrupt enable bit (_ier), and
                    \*   thr, the character in the transmitter or NONE]
  got,              \* the characters that the last read returned
  outside,          \* a character was stored outside of its buffer
  calls             \* history, as in SioAbs

vars == <<in, out, got, outside, calls>>

-----------------------------------------------------------------------------
(* Mutants: each replaces the definition named beside it.                  *)

PrimedOnly(o, c) == [o EXCEPT !.sending = TRUE, !.thr = c]    \* Prime
StillSending(o) ==                                            \* StopSending
  [o EXCEPT !.count = 0, !.last = 0, !.next = 0, !.tx = FALSE]
HalfReset(i) == IF i.count < 1 THEN [i EXCEPT !.next = 0] ELSE i \* ResetIfEmpty
NoDrop(o, b) ==                                               \* Fill
  FoldLeft(LAMBDA p, c : [p EXCEPT !.buf = [@ EXCEPT ![p.last] = c], !.count = @ + 1,
             !.last = IF @ + 1 >= BUF_SIZE THEN 0 ELSE @ + 1], o, b)
AllOrNothing(o, b) == IF Len(b) > BUF_SIZE - o.count THEN o ELSE NoDrop(o, b) \* Fill

-----------------------------------------------------------------------------

\* A buffer pointer that wraps.
NextOffset(p) == IF p + 1 >= BUF_SIZE THEN 0 ELSE p + 1

ResetIfEmpty(i) == IF i.count < 1 THEN [i EXCEPT !.last = 0, !.next = 0] ELSE i

\* _sio_readc, n times.
Take(i, n) ==
  ResetIfEmpty([i EXCEPT !.next = @ + n, !.count = @ - n])

\* *_outlast = c, with the count of the characters to send.
Stored(o, c, nextLast) ==
  [o EXCEPT !.buf = [@ EXCEPT ![o.last] = c], !.last = nextLast, !.count = @ + 1]

\* The first character goes to the idle transmitter, whose interrupt is then
\* enabled.
Prime(o, c) == [o EXCEPT !.sending = TRUE, !.thr = c, !.tx = TRUE]

\* _sio_writec, for a character that is not LF and for one that is: the
\* pointer does not wrap.
WriteRaw(o, c) == IF o.sending THEN Stored(o, c, o.last + 1) ELSE Prime(o, c)
Writec(o, c) ==
  IF c = LF THEN WriteRaw(WriteRaw(o, CR), LF) ELSE WriteRaw(o, c)

\* The loop of _sio_writes: as many characters as there is room for.
StoreNext(o, c) == Stored(o, c, NextOffset(o.last))
Fill(o, b) ==
  LET n == Max({0, Min({Len(b), BUF_SIZE - o.count})})
  IN FoldLeft(StoreNext, o, SubSeq(b, 1, n))

\* _sio_writes: an idle transmitter gets the first character at the end.
Writes(o, b) == IF o.sending THEN Fill(o, b) ELSE Writec(Fill(o, Tail(b)), Head(b))

Puts(o, s) == FoldLeft(Writec, o, s)

StopSending(o) ==
  [o EXCEPT !.count = 0, !.last = 0, !.next = 0, !.sending = FALSE, !.tx = FALSE]

\* The state after _sio_modinit and, in _init, _sio_enable(SIO_RX): receiver
\* interrupts stay enabled from here on.
Init ==
  /\ in = [buf |-> [p \in Offsets |-> NONE], next |-> 0, last |-> 0, count |-> 0]
  /\ out = [buf |-> [p \in Offsets |-> NONE], next |-> 0, last |-> 0, count |-> 0,
            sending |-> FALSE, tx |-> FALSE, thr |-> NONE]
  /\ got = <<>>
  /\ outside = FALSE
  /\ calls = [arrived |-> FALSE, written |-> FALSE]

-----------------------------------------------------------------------------

\* _sio_isr, a character has arrived: it is dropped when the buffer is full.
RxInterrupt(c) ==
  /\ ~outside
  /\ Paced => in.last < BUF_SIZE \/ in.count = BUF_SIZE
  /\ IF in.count = BUF_SIZE THEN UNCHANGED <<in, outside>>
     ELSE /\ outside' = (in.last \notin Offsets)
          /\ in' = [in EXCEPT !.last = @ + 1, !.count = @ + 1,
               !.buf = IF in.last \in Offsets
                       THEN [@ EXCEPT ![in.last] = IF c = CR THEN LF ELSE c] ELSE @]
  /\ calls' = [calls EXCEPT !.arrived = ~@]
  /\ UNCHANGED <<out, got>>

\* _sio_isr, the transmitter is empty: the next character, or none.
TxInterrupt ==
  /\ ~outside
  /\ out.tx /\ out.thr = NONE
  /\ out' = IF out.sending /\ out.count > 0
            THEN [out EXCEPT !.thr = out.buf[out.next],
                             !.next = NextOffset(@), !.count = @ - 1]
            ELSE StopSending(out)
  /\ UNCHANGED <<in, got, outside, calls>>

\* The UART has sent the character that it was given.
Transmitted ==
  /\ ~outside
  /\ out.thr # NONE
  /\ out' = [out EXCEPT !.thr = NONE]
  /\ UNCHANGED <<in, got, outside, calls>>

\* _sys_read on FD_SIO: at most n characters of those that are there.
Read(n) ==
  /\ ~outside
  /\ LET k == Min({n, in.count})
     IN /\ got' = [i \in 1..k |-> in.buf[in.next + i - 1]]
        /\ in' = Take(in, k)
  /\ UNCHANGED <<out, outside, calls>>

\* _sys_write on FD_SIO with count 0: a string.  Paced writers leave room for
\* it behind the last character.
WriteString(s) ==
  /\ ~outside
  /\ LET more == Cardinality({i \in DOMAIN s : s[i] = LF}) + Len(s)
         added == IF out.sending THEN more ELSE more - 1
         end == out.last + added
     IN /\ Paced => end < BUF_SIZE /\ out.count + added <= BUF_SIZE
        /\ outside' = (end > BUF_SIZE)
        /\ out' = IF end > BUF_SIZE THEN [out EXCEPT !.last = end] ELSE Puts(out, s)
  /\ calls' = [calls EXCEPT !.written = ~@]
  /\ UNCHANGED <<in, got>>

\* _sys_write on FD_SIO with the length of the buffer.
WriteBuffer(b) ==
  /\ ~outside
  /\ Paced => out.sending \/ Head(b) # LF
  /\ outside' = (out.last \notin Offsets)
  /\ IF out.last \notin Offsets THEN UNCHANGED out ELSE out' = Writes(out, b)
  /\ calls' = [calls EXCEPT !.written = ~@]
  /\ UNCHANGED <<in, got>>

Next ==
  \/ \E c \in Chars : RxInterrupt(c)
  \/ TxInterrupt
  \/ Transmitted
  \/ \E n \in 0..BUF_SIZE : Read(n)
  \/ \E s \in Strings : WriteString(s)
  \/ \E b \in Buffers : WriteBuffer(b)

Spec == Init /\ [][Next]_vars

\* The UART sends what it is given and raises its interrupt; the kernel always
\* returns to code that runs with interrupts enabled.
Fairness == WF_vars(TxInterrupt) /\ WF_vars(Transmitted)
FairSpec == Spec /\ Fairness

-----------------------------------------------------------------------------

Half(buf) == buf \in [Offsets -> Chars \cup {NONE}]

TypeOK ==
  /\ DOMAIN in = {"buf", "next", "last", "count"}
  /\ Half(in.buf) /\ {in.next, in.last} \subseteq 0..BUF_SIZE
  /\ in.count \in 0..BUF_SIZE
  /\ DOMAIN out = {"buf", "next", "last", "count", "sending", "tx", "thr"}
  /\ Half(out.buf) /\ out.next \in Offsets /\ out.last \in 0..BUF_SIZE
  /\ out.count \in 0..BUF_SIZE
  /\ {out.sending, out.tx, outside} \subseteq BOOLEAN
  /\ out.thr \in Chars \cup {NONE}
  /\ got \in Seq(Chars)
  /\ calls \in [arrived : BOOLEAN, written : BOOLEAN]

\* The driver and the transmitter agree: while it is sending, the interrupt
\* that goes on with the next character is enabled, and when it is not,
\* nothing is left behind, neither in the buffer nor in the transmitter, whose
\* character the next write would replace (sio.c:164-182, 493-508).
TransmitterAgrees ==
  /\ out.sending <=> out.tx
  /\ ~out.sending => out.count = 0 /\ out.thr = NONE

\* Every counted character has its place between the two pointers of its
\* buffer (sio.c:152-155, 166-177, 410-421, 537-545).
PointersAgree ==
  /\ in.last = in.next + in.count
  /\ (out.next + out.count - out.last) % BUF_SIZE = 0

\* What is in the input buffer, and what the transmitter and the output buffer
\* hold.
Unread == [i \in 1..in.count |-> in.buf[in.next + i - 1]]
Unsent ==
  (IF out.thr = NONE THEN <<>> ELSE <<out.thr>>)
    \o [i \in 1..out.count |-> out.buf[(out.next + i - 1) % BUF_SIZE]]

\* Both directions are FIFO streams: no character is lost while its buffer has
\* room, read or sent twice, overtaken by another one or changed by wrapping,
\* by the resets of an empty buffer or by priming the transmitter.
Abs == INSTANCE SioAbs WITH unread <- Unread, unsent <- Unsent
Refines == Abs!AbsSpec

\* The oldest character that waits in the output buffer is sent at some time,
\* whatever is written meanwhile: the transmitter never stalls.
OldestIsSent ==
  \A p \in Offsets :
    (out.count > 0 /\ out.next = p) ~> (out.count = 0 \/ out.next # p)

-----------------------------------------------------------------------------
(* What the code's comments say and the code does not keep.                *)

\* "Add to the input buffer if there is room, otherwise just ignore it"
\* (sio.c:147-150): a character that arrives is stored in the buffer or not at
\* all.  The room is counted, but the pointer only goes back when the buffer
\* was read to its end.
InputStaysInBuffer == in.last <= BUF_SIZE

\* "If we're currently transmitting, just add this to the buffer"
\* (sio.c:490): a character of a string is added to the output buffer, not
\* stored behind it.
OutputStaysInBuffer == out.last <= BUF_SIZE

=============================================================================
