----------------------------- MODULE SioProofs -----------------------------
(***************************************************************************)
(* The serial driver loses, repeats and reorders no character and never    *)
(* disagrees with its transmitter, for every size of the buffers and every *)
(* set of strings and buffers that are written.                            *)
(***************************************************************************)
EXTENDS Sio, InductionFacts, FiniteSetTheorems

InType ==
  [buf : [Offsets -> Chars \cup {NONE}], next : Int, last : Int, count : Int]
OutType ==
  [buf : [Offsets -> Chars \cup {NONE}], next : Offsets, last : Int, count : Int,
   sending : BOOLEAN, tx : BOOLEAN, thr : Chars \cup {NONE}]

\* What a state of the output half says of the transmitter.
Agree(o) ==
  /\ o.sending = o.tx
  /\ ~o.sending => o.count = 0 /\ o.thr = NONE

\* TransmitterAgrees, and the types it needs, whether or not writers are paced.
AgreeInv ==
  /\ out \in OutType
  /\ Agree(out)

LEMMA SizeFacts ==
  /\ BUF_SIZE \in Nat /\ BUF_SIZE > 0
  /\ 0 \in Offsets /\ Offsets \subseteq Nat
  /\ CR \in Chars /\ LF \in Chars
BY SioAssumption DEF Offsets

-----------------------------------------------------------------------------
(* What the routines do to the output half.                                *)

\* A stored character changes the buffer, the last pointer and the count.
LEMMA StoredFacts ==
  ASSUME NEW o \in OutType, NEW c \in Chars, NEW nl \in Int
  PROVE  LET p == Stored(o, c, nl)
         IN /\ p \in OutType
            /\ p.buf = [o.buf EXCEPT ![o.last] = c]
            /\ p.next = o.next /\ p.last = nl /\ p.count = o.count + 1
            /\ p.sending = o.sending /\ p.tx = o.tx /\ p.thr = o.thr
<1> DEFINE b == [o.buf EXCEPT ![o.last] = c]
           p == Stored(o, c, nl)
<1>1. b \in [Offsets -> Chars \cup {NONE}] /\ o.count + 1 \in Int
  <2>1. o.buf \in [Offsets -> Chars \cup {NONE}] /\ o.count \in Int
    BY DEF OutType
  <2>2. c \in Chars \cup {NONE}
    OBVIOUS
  <2>3. \A f \in [Offsets -> Chars \cup {NONE}] : \A d \in Chars \cup {NONE} : \A x :
          [f EXCEPT ![x] = d] \in [Offsets -> Chars \cup {NONE}]
    OBVIOUS
  <2> QED BY <2>1, <2>2, <2>3
<1>2. p = [o EXCEPT !.buf = b, !.last = nl, !.count = o.count + 1]
  BY DEF Stored
<1> HIDE DEF b, p
<1>3. /\ p \in OutType /\ p.buf = b
      /\ p.next = o.next /\ p.last = nl /\ p.count = o.count + 1
      /\ p.sending = o.sending /\ p.tx = o.tx /\ p.thr = o.thr
  BY <1>1, <1>2 DEF OutType
<1> QED BY <1>3 DEF b, p

\* Priming only concerns the transmitter.
LEMMA PrimeFacts ==
  ASSUME NEW o \in OutType, NEW c \in Chars
  PROVE  LET p == Prime(o, c)
         IN /\ p \in OutType
            /\ p.buf = o.buf /\ p.next = o.next /\ p.last = o.last /\ p.count = o.count
            /\ p.sending /\ p.tx /\ p.thr = c
BY DEF Prime, OutType

LEMMA StopFacts ==
  ASSUME NEW o \in OutType
  PROVE  LET p == StopSending(o)
         IN /\ p \in OutType
            /\ p.buf = o.buf /\ p.next = 0 /\ p.last = 0 /\ p.count = 0
            /\ ~p.sending /\ ~p.tx /\ p.thr = o.thr
<1> DEFINE p == StopSending(o)
<1>1. p = [o EXCEPT !.count = 0, !.last = 0, !.next = 0, !.sending = FALSE, !.tx = FALSE]
  BY DEF StopSending
<1>2. 0 \in Offsets /\ 0 \in Int
  BY SizeFacts
<1> HIDE DEF p
<1>3. p \in OutType
  BY <1>1, <1>2 DEF OutType
<1>4. p.buf = o.buf /\ p.next = 0 /\ p.last = 0 /\ p.count = 0 /\ p.thr = o.thr
  BY <1>1 DEF OutType
<1>5. ~p.sending /\ ~p.tx
  BY <1>1 DEF OutType
<1> QED BY <1>3, <1>4, <1>5 DEF p

\* One character leaves the transmitter busy and enabled.
LEMMA WriteRawAgrees ==
  ASSUME NEW o \in OutType, o.sending = o.tx, NEW c \in Chars
  PROVE  LET p == WriteRaw(o, c)
         IN p \in OutType /\ p.sending /\ p.tx
<1>1. o.last + 1 \in Int /\ o.sending \in BOOLEAN
  BY DEF OutType
<1>2. CASE o.sending
  <2>1. WriteRaw(o, c) = Stored(o, c, o.last + 1)
    BY <1>2 DEF WriteRaw
  <2> DEFINE p == Stored(o, c, o.last + 1)
  <2>2. p \in OutType /\ p.sending = o.sending /\ p.tx = o.tx
    BY <1>1, StoredFacts
  <2> HIDE DEF p
  <2> QED BY <1>2, <2>1, <2>2 DEF p
<1>3. CASE ~o.sending
  <2>1. WriteRaw(o, c) = Prime(o, c)
    BY <1>3 DEF WriteRaw
  <2> QED BY <2>1, PrimeFacts
<1> QED BY <1>2, <1>3

LEMMA WritecAgrees ==
  ASSUME NEW o \in OutType, o.sending = o.tx, NEW c \in Chars
  PROVE  LET p == Writec(o, c)
         IN p \in OutType /\ p.sending /\ p.tx
<1>1. CASE c = LF
  <2> DEFINE q == WriteRaw(o, CR)
  <2>1. q \in OutType /\ q.sending /\ q.tx
    BY SizeFacts, WriteRawAgrees
  <2>2. q.sending = q.tx
    BY <2>1 DEF OutType
  <2>3. Writec(o, c) = WriteRaw(q, LF)
    BY <1>1 DEF Writec
  <2> HIDE DEF q
  <2> QED BY <2>1, <2>2, <2>3, SizeFacts, WriteRawAgrees
<1>2. CASE c # LF
  <2>1. Writec(o, c) = WriteRaw(o, c)
    BY <1>2 DEF Writec
  <2> QED BY <2>1, WriteRawAgrees
<1> QED BY <1>1, <1>2

\* h is the output half after each of the first n characters of a string s, and
\* of a buffer.
PutsSteps(h, o, s, n) ==
  h[0] = o /\ \A k \in 1..n : h[k] = Writec(h[k - 1], s[k])
StoreSteps(h, o, s, n) ==
  h[0] = o /\ \A k \in 1..n : h[k] = StoreNext(h[k - 1], s[k])

\* The loop of _sio_puts, unfolded.
LEMMA PutsUnfolds ==
  ASSUME NEW A, NEW o \in A, NEW n \in Nat, NEW s, DOMAIN s = 1..n,
         \A p \in A, k \in 1..n : Writec(p, s[k]) \in A
  PROVE  \E h \in [0..n -> A] : PutsSteps(h, o, s, n) /\ Puts(o, s) = h[n]
<1> DEFINE B == {s[k] : k \in 1..n}
           G == [q \in A \X B |-> Writec(q[1], q[2])]
           t == [k \in 1..n |-> s[k]]
           Folds(f) == f = [T \in SUBSET DOMAIN s |->
              IF T = {} THEN o ELSE Writec(f[T \ {Max(T)}], s[Max(T)])]
           F == CHOOSE f : Folds(f)
           h == [k \in 0..n |-> F[1..k]]
<1>1. G \in [A \X B -> A] /\ t \in [1..n -> B]
  OBVIOUS
<1>2. \E f : Folds(f)
  <2>1. PICK f \in [SUBSET (1..n) -> A] : IsFold(f, G, o, t, n)
    <3> HIDE DEF G, t, B
    <3> QED BY <1>1, FoldExists
  <2>2. ASSUME NEW T \in SUBSET (1..n), T # {}
        PROVE  G[<<f[T \ {Max(T)}], t[Max(T)]>>] = Writec(f[T \ {Max(T)}], s[Max(T)])
    <3>1. Max(T) \in 1..n /\ T \ {Max(T)} \in SUBSET (1..n)
      BY <2>2, MaxFacts
    <3> QED BY <3>1
  <2> HIDE DEF G, t
  <2>3. Folds(f)
    BY <2>1, <2>2 DEF IsFold
  <2> QED BY <2>3
<1>3. Folds(F)
  BY <1>2
<1>4. Puts(o, s) = F[1..n]
  BY DEF Puts, FoldLeft, MapThenFoldSet
<1> HIDE DEF F
<1>5. h[0] = o
  <2>1. F[{}] = o /\ 1..0 = {} /\ 0 \in 0..n
    BY <1>3
  <2> QED BY <2>1
<1>6. ASSUME NEW k \in 1..n PROVE h[k] = Writec(h[k - 1], s[k])
  <2>1. /\ 1..k \in SUBSET (1..n) /\ k \in 1..k
        /\ k \in Nat /\ k - 1 \in 0..n /\ k \in 0..n
    OBVIOUS
  <2>4. (1..k) \ {k} = 1..(k - 1)
    BY <2>1
  <2>2. Max(1..k) = k
    BY <2>1, MaxOfInterval
  <2>3. F[1..k] = Writec(F[(1..k) \ {Max(1..k)}], s[Max(1..k)])
    BY <1>3, <2>1
  <2> QED BY <2>1, <2>2, <2>3, <2>4
<1>7. ASSUME NEW k \in 0..n PROVE h[k] \in A
  <2> DEFINE S == {i \in 0..n : h[i] \in A}
  <2>1. 0 \in S
    BY <1>5
  <2>2. ASSUME NEW i \in 0..(n - 1), i \in S PROVE i + 1 \in S
    <3>1. i + 1 \in 1..n /\ (i + 1) - 1 = i
      OBVIOUS
    <3> HIDE DEF h
    <3>2. h[i + 1] = Writec(h[i], s[i + 1])
      BY <1>6, <3>1
    <3> QED BY <2>2, <3>1, <3>2
  <2> HIDE DEF S
  <2>3. 0..n \subseteq S
    BY <2>1, <2>2, IntervalInduction
  <2> QED BY <2>3 DEF S
<1>8. h \in [0..n -> A] /\ Puts(o, s) = h[n]
  <2>1. n \in 0..n
    OBVIOUS
  <2> QED BY <1>4, <1>7, <2>1
<1> HIDE DEF h
<1> QED BY <1>5, <1>6, <1>8 DEF PutsSteps

\* The loop of _sio_writes, for as much as there is room for, unfolded.
StoreAll(o, s) == FoldLeft(StoreNext, o, s)

LEMMA StoreNextUnfolds ==
  ASSUME NEW A, NEW o \in A, NEW n \in Nat, NEW s, DOMAIN s = 1..n,
         \A p \in A, k \in 1..n : StoreNext(p, s[k]) \in A
  PROVE  \E h \in [0..n -> A] : StoreSteps(h, o, s, n) /\ StoreAll(o, s) = h[n]
<1> DEFINE B == {s[k] : k \in 1..n}
           G == [q \in A \X B |-> StoreNext(q[1], q[2])]
           t == [k \in 1..n |-> s[k]]
           Folds(f) == f = [T \in SUBSET DOMAIN s |->
              IF T = {} THEN o ELSE StoreNext(f[T \ {Max(T)}], s[Max(T)])]
           F == CHOOSE f : Folds(f)
           h == [k \in 0..n |-> F[1..k]]
<1>1. G \in [A \X B -> A] /\ t \in [1..n -> B]
  OBVIOUS
<1>2. \E f : Folds(f)
  <2>1. PICK f \in [SUBSET (1..n) -> A] : IsFold(f, G, o, t, n)
    <3> HIDE DEF G, t, B
    <3> QED BY <1>1, FoldExists
  <2>2. ASSUME NEW T \in SUBSET (1..n), T # {}
        PROVE  G[<<f[T \ {Max(T)}], t[Max(T)]>>] = StoreNext(f[T \ {Max(T)}], s[Max(T)])
    <3>1. Max(T) \in 1..n /\ T \ {Max(T)} \in SUBSET (1..n)
      BY <2>2, MaxFacts
    <3> QED BY <3>1
  <2> HIDE DEF G, t
  <2>3. Folds(f)
    BY <2>1, <2>2 DEF IsFold
  <2> QED BY <2>3
<1>3. Folds(F)
  BY <1>2
<1>4. StoreAll(o, s) = F[1..n]
  BY DEF StoreAll, FoldLeft, MapThenFoldSet
<1> HIDE DEF F
<1>5. h[0] = o
  <2>1. F[{}] = o /\ 1..0 = {} /\ 0 \in 0..n
    BY <1>3
  <2> QED BY <2>1
<1>6. ASSUME NEW k \in 1..n PROVE h[k] = StoreNext(h[k - 1], s[k])
  <2>1. /\ 1..k \in SUBSET (1..n) /\ k \in 1..k
        /\ k \in Nat /\ k - 1 \in 0..n /\ k \in 0..n
    OBVIOUS
  <2>4. (1..k) \ {k} = 1..(k - 1)
    BY <2>1
  <2>2. Max(1..k) = k
    BY <2>1, MaxOfInterval
  <2>3. F[1..k] = StoreNext(F[(1..k) \ {Max(1..k)}], s[Max(1..k)])
    BY <1>3, <2>1
  <2> QED BY <2>1, <2>2, <2>3, <2>4
<1>7. ASSUME NEW k \in 0..n PROVE h[k] \in A
  <2> DEFINE S == {i \in 0..n : h[i] \in A}
  <2>1. 0 \in S
    BY <1>5
  <2>2. ASSUME NEW i \in 0..(n - 1), i \in S PROVE i + 1 \in S
    <3>1. i + 1 \in 1..n /\ (i + 1) - 1 = i
      OBVIOUS
    <3> HIDE DEF h
    <3>2. h[i + 1] = StoreNext(h[i], s[i + 1])
      BY <1>6, <3>1
    <3> QED BY <2>2, <3>1, <3>2
  <2> HIDE DEF S
  <2>3. 0..n \subseteq S
    BY <2>1, <2>2, IntervalInduction
  <2> QED BY <2>3 DEF S
<1>8. h \in [0..n -> A] /\ StoreAll(o, s) = h[n]
  <2>1. n \in 0..n
    OBVIOUS
  <2> QED BY <1>4, <1>7, <2>1
<1> HIDE DEF h
<1> QED BY <1>5, <1>6, <1>8 DEF StoreSteps

-----------------------------------------------------------------------------
(* The driver and the transmitter agree.                                   *)

\* A string leaves the transmitter busy and enabled, unless it is empty.
LEMMA PutsAgrees ==
  ASSUME NEW o \in OutType, Agree(o), NEW s \in Seq(Chars)
  PROVE  Puts(o, s) \in OutType /\ Agree(Puts(o, s))
<1> DEFINE A == {p \in OutType : Agree(p)}
<1>1. Len(s) \in Nat /\ DOMAIN s = 1..Len(s) /\ \A k \in 1..Len(s) : s[k] \in Chars
  BY LenProperties, ElementOfSeq
<1>2. ASSUME NEW p \in A, NEW k \in 1..Len(s)
      PROVE  Writec(p, s[k]) \in A
  <2>1. p \in OutType /\ p.sending = p.tx /\ s[k] \in Chars
    BY <1>1 DEF Agree
  <2> DEFINE q == Writec(p, s[k])
  <2>2. q \in OutType /\ q.sending /\ q.tx
    BY <2>1, WritecAgrees
  <2>3. Agree(q)
    BY <2>2 DEF Agree, OutType
  <2> QED BY <2>2, <2>3
<1>3. o \in A
  OBVIOUS
<1> DEFINE n == Len(s)
<1> HIDE DEF A
<1>7. n \in Nat /\ DOMAIN s = 1..n /\ \A p \in A, k \in 1..n : Writec(p, s[k]) \in A
  BY <1>1, <1>2
<1> HIDE DEF n
<1>4. PICK h \in [0..n -> A] : PutsSteps(h, o, s, n) /\ Puts(o, s) = h[n]
  BY <1>3, <1>7, PutsUnfolds
<1>5. n \in 0..n
  BY <1>7
<1>6. h[n] \in A
  BY <1>4, <1>5
<1> QED BY <1>4, <1>6 DEF A

\* How many characters of a buffer the loop of _sio_writes stores.
LEMMA FillCount ==
  ASSUME NEW o \in OutType, NEW b \in Seq(Chars)
  PROVE  LET n == Max({0, Min({Len(b), BUF_SIZE - o.count})})
         IN /\ n \in 0..Len(b)
            /\ o.count <= BUF_SIZE =>
                 n <= BUF_SIZE - o.count /\ (n < Len(b) => n = BUF_SIZE - o.count)
<1> DEFINE r == BUF_SIZE - o.count
           m == Min({Len(b), r})
           n == Max({0, m})
<1>1. o.count \in Int /\ Len(b) \in Nat /\ r \in Int
  BY SizeFacts, LenProperties DEF OutType
<1> HIDE DEF m
<1>2. m = IF Len(b) <= r THEN Len(b) ELSE r
  BY <1>1, MinMaxOfTwo DEF m
<1>3. m \in Int
  BY <1>1, <1>2
<1> HIDE DEF n
<1>4. n = IF 0 >= m THEN 0 ELSE m
  BY <1>3, MinMaxOfTwo DEF n
<1>5. o.count <= BUF_SIZE <=> r >= 0
  BY <1>1, SizeFacts
<1> HIDE DEF r
<1>6. n \in 0..Len(b) /\ (r >= 0 => n <= r /\ (n < Len(b) => n = r))
  BY <1>1, <1>2, <1>4
<1> QED BY <1>5, <1>6 DEF n, m, r

\* The loop of _sio_writes leaves the transmitter alone.
LEMMA StoreAllAgrees ==
  ASSUME NEW o \in OutType, NEW s \in Seq(Chars)
  PROVE  LET p == StoreAll(o, s)
         IN p \in OutType /\ p.sending = o.sending /\ p.tx = o.tx /\ p.thr = o.thr
<1> DEFINE A == {p \in OutType : p.sending = o.sending /\ p.tx = o.tx /\ p.thr = o.thr}
           n == Len(s)
<1>1. n \in Nat /\ DOMAIN s = 1..n /\ \A k \in 1..n : s[k] \in Chars
  BY LenProperties, ElementOfSeq
<1>2. ASSUME NEW p \in A, NEW k \in 1..n
      PROVE  StoreNext(p, s[k]) \in A
  <2>1. p \in OutType /\ NextOffset(p.last) \in Int /\ s[k] \in Chars
    BY <1>1 DEF NextOffset, OutType
  <2> DEFINE q == Stored(p, s[k], NextOffset(p.last))
  <2>2. q \in OutType /\ q.sending = p.sending /\ q.tx = p.tx /\ q.thr = p.thr
    BY <2>1, StoredFacts, ZenonT(60)
  <2>3. StoreNext(p, s[k]) = q
    BY DEF StoreNext
  <2> HIDE DEF q
  <2> QED BY <2>2, <2>3
<1>3. o \in A
  OBVIOUS
<1> HIDE DEF A
<1>4. n \in Nat /\ DOMAIN s = 1..n /\ \A p \in A, k \in 1..n : StoreNext(p, s[k]) \in A
  BY <1>1, <1>2
<1> HIDE DEF n
<1>5. PICK h \in [0..n -> A] : StoreSteps(h, o, s, n) /\ StoreAll(o, s) = h[n]
  BY <1>3, <1>4, StoreNextUnfolds
<1>6. n \in 0..n
  BY <1>4
<1>7. StoreAll(o, s) \in A
  BY <1>5, <1>6
<1> QED BY <1>7 DEF A

LEMMA FillAgrees ==
  ASSUME NEW o \in OutType, NEW b \in Seq(Chars)
  PROVE  LET p == Fill(o, b)
         IN p \in OutType /\ p.sending = o.sending /\ p.tx = o.tx /\ p.thr = o.thr
<1> DEFINE n == Max({0, Min({Len(b), BUF_SIZE - o.count})})
           s == SubSeq(b, 1, n)
<1>1. Fill(o, b) = StoreAll(o, s)
  BY DEF Fill, StoreAll
<1>2. s \in Seq(Chars)
  <2>1. n \in 0..Len(b) /\ Len(b) \in Nat /\ \A k \in 1..Len(b) : b[k] \in Chars
    BY FillCount, LenProperties, ElementOfSeq
  <2> HIDE DEF n
  <2>2. n \in Nat /\ \A k \in 1..n : b[k] \in Chars
    BY <2>1
  <2> QED BY <2>2, SubSeqProperties
<1> HIDE DEF s
<1> QED BY <1>1, <1>2, StoreAllAgrees

LEMMA WritesAgrees ==
  ASSUME NEW o \in OutType, Agree(o), NEW b \in Seq(Chars) \ {<<>>}
  PROVE  Writes(o, b) \in OutType /\ Agree(Writes(o, b))
<1>1. CASE o.sending
  <2>1. Writes(o, b) = Fill(o, b)
    BY <1>1 DEF Writes
  <2> DEFINE p == Fill(o, b)
  <2>2. p \in OutType /\ p.sending = o.sending /\ p.tx = o.tx
    BY FillAgrees
  <2> HIDE DEF p
  <2>3. Agree(p)
    BY <1>1, <2>2 DEF Agree
  <2> QED BY <2>1, <2>2, <2>3 DEF p
<1>2. CASE ~o.sending
  <2> DEFINE p == Fill(o, Tail(b))
             q == Writec(p, Head(b))
  <2>1. Writes(o, b) = q
    BY <1>2 DEF Writes
  <2>2. Tail(b) \in Seq(Chars) /\ Head(b) \in Chars
    BY HeadTailProperties
  <2>3. p \in OutType /\ p.sending = o.sending /\ p.tx = o.tx
    BY <2>2, FillAgrees
  <2>4. p.sending = p.tx
    BY <2>3 DEF Agree
  <2> HIDE DEF p
  <2>5. q \in OutType /\ q.sending /\ q.tx
    BY <2>2, <2>3, <2>4, WritecAgrees
  <2> HIDE DEF q
  <2>6. Agree(q)
    BY <2>5 DEF Agree, OutType
  <2> QED BY <2>1, <2>5, <2>6
<1> QED BY <1>1, <1>2

\* How many characters the first k of a string become.
More(s, k) == Cardinality({i \in 1..k : s[i] = LF}) + k

LEMMA MoreFacts ==
  ASSUME NEW s, NEW n \in Nat
  PROVE  /\ More(s, 0) = 0
         /\ \A k \in 0..n : More(s, k) \in Nat /\ More(s, k) <= More(s, n)
         /\ \A k \in 1..n : More(s, k) = More(s, k - 1) + (IF s[k] = LF THEN 2 ELSE 1)
<1> DEFINE C(k) == {i \in 1..k : s[i] = LF}
<1>1. ASSUME NEW k \in 0..n
      PROVE  IsFiniteSet(C(k)) /\ Cardinality(C(k)) \in Nat
  <2>1. IsFiniteSet(1..k)
    BY FS_Interval
  <2> QED BY <2>1, FS_Subset, FS_CardinalityType
<1>2. ASSUME NEW k \in 0..n
      PROVE  Cardinality(C(k)) <= Cardinality(C(n))
  <2>1. C(k) \subseteq C(n) /\ n \in 0..n
    OBVIOUS
  <2> QED BY <1>1, <2>1, FS_Subset
<1>3. ASSUME NEW k \in 1..n
      PROVE  Cardinality(C(k)) = Cardinality(C(k - 1)) + (IF s[k] = LF THEN 1 ELSE 0)
  <2>1. k - 1 \in 0..n /\ k \notin C(k - 1)
    OBVIOUS
  <2>2. CASE s[k] = LF
    <3>1. C(k) = C(k - 1) \cup {k}
      BY <2>2
    <3> QED BY <1>1, <2>1, <2>2, <3>1, FS_AddElement
  <2>3. CASE s[k] # LF
    <3>1. C(k) = C(k - 1)
      BY <2>3
    <3>2. Cardinality(C(k)) \in Nat
      BY <1>1, <2>1
    <3> HIDE DEF C
    <3> QED BY <2>3, <3>1, <3>2
  <2> QED BY <2>2, <2>3
<1>4. C(0) = {} /\ Cardinality({}) = 0
  BY FS_EmptySet
<1>5. \A k : More(s, k) = Cardinality(C(k)) + k
  BY DEF More
<1>6. n \in 0..n /\ \A k \in 1..n : k - 1 \in 0..n /\ k \in 0..n
  OBVIOUS
<1> HIDE DEF C
<1>7. More(s, 0) = 0
  BY <1>4, <1>5
<1>8. \A k \in 0..n : More(s, k) \in Nat /\ More(s, k) <= More(s, n)
  BY <1>1, <1>2, <1>5, <1>6
<1>9. ASSUME NEW k \in 1..n
      PROVE  More(s, k) = More(s, k - 1) + (IF s[k] = LF THEN 2 ELSE 1)
  BY <1>1, <1>3, <1>5, <1>6
<1> QED BY <1>7, <1>8, <1>9

\* What a step that writes a string does, in terms of More.
LEMMA WriteStringFacts ==
  ASSUME NEW s \in Strings, WriteString(s), out \in OutType
  PROVE  LET end == out.last + More(s, Len(s)) - (IF out.sending THEN 0 ELSE 1)
         IN /\ end \in Int
            /\ Paced => end < BUF_SIZE /\ out.count + end - out.last <= BUF_SIZE
            /\ outside' = (end > BUF_SIZE)
            /\ out' = IF end > BUF_SIZE THEN [out EXCEPT !.last = end] ELSE Puts(out, s)
            /\ UNCHANGED <<in, got>>
<1> DEFINE m == More(s, Len(s))
           added == IF out.sending THEN m ELSE m - 1
           end == out.last + m - (IF out.sending THEN 0 ELSE 1)
<1>1. Len(s) \in Nat /\ DOMAIN s = 1..Len(s)
  BY SioAssumption, LenProperties
<1>2. m \in Nat
  <2>1. Len(s) \in 0..Len(s)
    BY <1>1
  <2> QED BY <1>1, <2>1, MoreFacts
<1>3. Cardinality({i \in DOMAIN s : s[i] = LF}) + Len(s) = m
  BY <1>1 DEF More
<1>4. /\ Paced => out.last + added < BUF_SIZE /\ out.count + added <= BUF_SIZE
      /\ outside' = (out.last + added > BUF_SIZE)
      /\ out' = IF out.last + added > BUF_SIZE THEN [out EXCEPT !.last = out.last + added]
                ELSE Puts(out, s)
      /\ UNCHANGED <<in, got>>
  BY <1>3 DEF WriteString
<1> HIDE DEF m
<1>5. out.last + added = end /\ end \in Int /\ out.count + added = out.count + end - out.last
  BY <1>2 DEF OutType
<1> HIDE DEF added, end
<1> QED BY <1>4, <1>5 DEF end, m

\* The transmitter interrupt: the next character, or the end of a transfer.
LEMMA TxInterruptAgrees ==
  AgreeInv /\ TxInterrupt => AgreeInv'
<1> SUFFICES ASSUME AgreeInv, TxInterrupt PROVE AgreeInv'
  OBVIOUS
<1>1. out \in OutType /\ Agree(out) /\ out.tx /\ out.thr = NONE
  BY DEF AgreeInv, TxInterrupt
<1>2. CASE out.sending /\ out.count > 0
  <2> DEFINE c == out.buf[out.next]
             m == NextOffset(out.next)
             p == [out EXCEPT !.thr = c, !.next = m, !.count = out.count - 1]
  <2>1. out' = p
    BY <1>2 DEF TxInterrupt
  <2>2. c \in Chars \cup {NONE} /\ m \in Offsets /\ out.count - 1 \in Int
    BY <1>1, SizeFacts DEF OutType, NextOffset, Offsets
  <2> HIDE DEF c, m
  <2>3. p \in OutType /\ p.sending = out.sending /\ p.tx = out.tx
    BY <1>1, <2>2 DEF OutType
  <2> HIDE DEF p
  <2> QED BY <1>1, <1>2, <2>1, <2>3 DEF AgreeInv, Agree
<1>3. CASE ~(out.sending /\ out.count > 0)
  <2> DEFINE p == StopSending(out)
  <2>1. out' = p
    BY <1>3 DEF TxInterrupt
  <2>2. p \in OutType /\ p.count = 0 /\ ~p.sending /\ ~p.tx /\ p.thr = out.thr
    BY <1>1, StopFacts
  <2> HIDE DEF p
  <2> QED BY <1>1, <2>1, <2>2 DEF AgreeInv, Agree, OutType
<1> QED BY <1>2, <1>3

LEMMA AgreeStep ==
  AgreeInv /\ [Next]_vars => AgreeInv'
<1> SUFFICES ASSUME AgreeInv, [Next]_vars PROVE AgreeInv'
  OBVIOUS
<1>1. out \in OutType /\ Agree(out)
  BY DEF AgreeInv
<1>2. CASE UNCHANGED out
  BY <1>1, <1>2 DEF AgreeInv
<1>3. CASE TxInterrupt
  BY <1>3, TxInterruptAgrees
<1>4. CASE Transmitted
  <2>1. out' = [out EXCEPT !.thr = NONE] /\ out.thr # NONE
    BY <1>4 DEF Transmitted
  <2>2. out' \in OutType /\ out'.sending = out.sending /\ out'.tx = out.tx
    BY <1>1, <2>1 DEF OutType
  <2>3. out'.sending
    BY <1>1, <2>1, <2>2 DEF Agree
  <2> QED BY <1>1, <2>2, <2>3 DEF AgreeInv, Agree
<1>5. ASSUME NEW s \in Strings, WriteString(s)
      PROVE  AgreeInv'
  <2> DEFINE end == out.last + More(s, Len(s)) - (IF out.sending THEN 0 ELSE 1)
  <2>1. /\ end \in Int
        /\ out' = IF end > BUF_SIZE THEN [out EXCEPT !.last = end] ELSE Puts(out, s)
    BY <1>1, <1>5, WriteStringFacts
  <2> HIDE DEF end
  <2>2. CASE end > BUF_SIZE
    <3>1. out' \in OutType
      BY <1>1, <2>1, <2>2 DEF OutType
    <3>2. /\ out'.sending = out.sending /\ out'.tx = out.tx
          /\ out'.count = out.count /\ out'.thr = out.thr
      BY <1>1, <2>1, <2>2 DEF OutType
    <3> QED BY <1>1, <3>1, <3>2 DEF AgreeInv, Agree
  <2>3. CASE ~(end > BUF_SIZE)
    <3>1. s \in Seq(Chars)
      BY SioAssumption
    <3> QED BY <1>1, <2>1, <2>3, <3>1, PutsAgrees DEF AgreeInv
  <2> QED BY <2>2, <2>3
<1>6. ASSUME NEW b \in Buffers, WriteBuffer(b)
      PROVE  AgreeInv'
  <2>1. b \in Seq(Chars) \ {<<>>}
    BY SioAssumption
  <2>2. UNCHANGED out \/ out' = Writes(out, b)
    BY <1>6 DEF WriteBuffer
  <2> QED BY <1>1, <1>2, <2>1, <2>2, WritesAgrees DEF AgreeInv
<1>7. (\E c \in Chars : RxInterrupt(c)) \/ (\E n \in 0..BUF_SIZE : Read(n)) \/ UNCHANGED vars
        => UNCHANGED out
  BY DEF RxInterrupt, Read, vars
<1> QED BY <1>2, <1>3, <1>4, <1>5, <1>6, <1>7 DEF Next

LEMMA AgreeInit == Init => AgreeInv
<1> SUFFICES ASSUME Init PROVE AgreeInv
  OBVIOUS
<1>1. [p \in Offsets |-> NONE] \in [Offsets -> Chars \cup {NONE}]
  OBVIOUS
<1>2. out \in OutType /\ Agree(out)
  BY <1>1, SizeFacts DEF Init, OutType, Agree
<1> QED BY <1>2 DEF AgreeInv

\* Whether or not the writers leave room for what they write, the interrupt
\* that goes on with the next character is enabled exactly while the driver is
\* sending, and nothing is left behind when it is not (sio.c:164-182, 493-508).
THEOREM TransmitterAgreesHolds == Spec => []TransmitterAgrees
<1>1. AgreeInv => TransmitterAgrees
  BY DEF AgreeInv, Agree, OutType, TransmitterAgrees
<1> QED BY <1>1, AgreeInit, AgreeStep, PTL DEF Spec

-----------------------------------------------------------------------------
(* The output half as a stream of characters.                              *)

\* An offset that may have passed the end of the buffer, but not twice.
Wrap(p) == IF p < BUF_SIZE THEN p ELSE p - BUF_SIZE

\* The buffer is a ring: the count is the distance of its pointers, and every
\* place between them holds a character.
Ring(o) ==
  /\ o \in OutType
  /\ o.count \in 0..BUF_SIZE /\ o.last \in Offsets
  /\ o.next + o.count = o.last \/ o.next + o.count = o.last + BUF_SIZE
  /\ \A i \in 0..(o.count - 1) : o.buf[Wrap(o.next + i)] \in Chars

\* What an output half has to send: Unsent is Line(out).
InTransmitter(o) == IF o.thr = NONE THEN <<>> ELSE <<o.thr>>
Buffered(o) == [i \in 1..o.count |-> o.buf[(o.next + i - 1) % BUF_SIZE]]
Line(o) == InTransmitter(o) \o Buffered(o)

LEMMA WrapFacts ==
  /\ \A p \in 0..(2 * BUF_SIZE - 1) : p % BUF_SIZE = Wrap(p) /\ Wrap(p) \in Offsets
  /\ \A p \in Offsets : NextOffset(p) = Wrap(p + 1) /\ NextOffset(p) \in Offsets
<1>1. ASSUME NEW p \in 0..(2 * BUF_SIZE - 1)
      PROVE  p % BUF_SIZE = Wrap(p) /\ Wrap(p) \in Offsets
  <2>1. CASE p < BUF_SIZE
    BY <2>1, SizeFacts DEF Wrap, Offsets
  <2>2. CASE ~(p < BUF_SIZE)
    <3>1. p - BUF_SIZE \in 0..(BUF_SIZE - 1)
      BY <2>2, SizeFacts
    <3>2. p % BUF_SIZE = p - BUF_SIZE
      BY <3>1, SizeFacts
    <3> QED BY <2>2, <3>1, <3>2 DEF Wrap, Offsets
  <2> QED BY <2>1, <2>2
<1>2. ASSUME NEW p \in Offsets
      PROVE  NextOffset(p) = Wrap(p + 1) /\ NextOffset(p) \in Offsets
  BY SizeFacts DEF NextOffset, Wrap, Offsets
<1> QED BY <1>1, <1>2

LEMMA LineFacts ==
  ASSUME NEW o, Ring(o)
  PROVE  /\ InTransmitter(o) \in Seq(Chars)
         /\ Buffered(o) \in Seq(Chars) /\ Len(Buffered(o)) = o.count
         /\ \A i \in 1..o.count : Buffered(o)[i] = o.buf[Wrap(o.next + i - 1)]
         /\ Line(o) \in Seq(Chars)
<1>1. o.count \in 0..BUF_SIZE /\ o.next \in Offsets /\ o.thr \in Chars \cup {NONE}
  BY DEF Ring, OutType
<1>2. InTransmitter(o) \in Seq(Chars)
  BY <1>1, EmptySeq DEF InTransmitter
<1>3. ASSUME NEW i \in 1..o.count
      PROVE  /\ (o.next + i - 1) % BUF_SIZE = Wrap(o.next + i - 1)
             /\ o.buf[Wrap(o.next + i - 1)] \in Chars
  <2>1. /\ o.next + i - 1 \in 0..(2 * BUF_SIZE - 1)
        /\ i - 1 \in 0..(o.count - 1) /\ o.next + (i - 1) = o.next + i - 1
    BY <1>1, SizeFacts DEF Offsets
  <2> QED BY <2>1, WrapFacts DEF Ring
<1>4. /\ Buffered(o) \in [1..o.count -> Chars] /\ o.count \in Nat
      /\ \A i \in 1..o.count : Buffered(o)[i] = o.buf[Wrap(o.next + i - 1)]
  BY <1>1, <1>3 DEF Buffered
<1>5. Buffered(o) \in Seq(Chars) /\ Len(Buffered(o)) = o.count
  BY <1>4, FunctionIsSeq
<1>6. Line(o) \in Seq(Chars)
  BY <1>2, <1>5, ConcatProperties DEF Line
<1> QED BY <1>2, <1>4, <1>5, <1>6

\* A character that is stored where the last pointer is comes last.
LEMMA StoreNextRing ==
  ASSUME NEW o, Ring(o), o.count < BUF_SIZE, NEW c \in Chars
  PROVE  LET p == StoreNext(o, c)
         IN /\ Ring(p) /\ Buffered(p) = Append(Buffered(o), c) /\ Line(p) = Append(Line(o), c)
            /\ p.count = o.count + 1 /\ p.last = NextOffset(o.last)
            /\ p.sending = o.sending /\ p.tx = o.tx /\ p.thr = o.thr
<1> DEFINE p == StoreNext(o, c)
           nl == NextOffset(o.last)
<1>1. o \in OutType /\ nl \in Int /\ o.last \in Offsets /\ nl \in Offsets /\ nl = Wrap(o.last + 1)
  <2>1. o \in OutType /\ o.last \in Offsets
    BY DEF Ring
  <2>2. nl \in Offsets /\ nl = Wrap(o.last + 1)
    BY <2>1, WrapFacts
  <2> HIDE DEF nl
  <2> QED BY <2>1, <2>2, SizeFacts
<1>2. /\ p \in OutType
      /\ p.buf = [o.buf EXCEPT ![o.last] = c]
      /\ p.next = o.next /\ p.last = nl /\ p.count = o.count + 1
      /\ p.sending = o.sending /\ p.tx = o.tx /\ p.thr = o.thr
  BY <1>1, StoredFacts DEF StoreNext
<1> HIDE DEF p, nl
<1>3. /\ o.count \in 0..(BUF_SIZE - 1) /\ o.next \in Offsets
      /\ o.buf \in [Offsets -> Chars \cup {NONE}]
      /\ o.next + o.count = o.last \/ o.next + o.count = o.last + BUF_SIZE
  BY SizeFacts DEF Ring, OutType
<1>4. p.next + p.count = p.last \/ p.next + p.count = p.last + BUF_SIZE
  <2>1. /\ o.next \in Nat /\ o.last \in Nat /\ o.count \in Nat
        /\ o.next < BUF_SIZE /\ o.last < BUF_SIZE /\ o.count < BUF_SIZE
        /\ nl = IF o.last + 1 < BUF_SIZE THEN o.last + 1 ELSE o.last + 1 - BUF_SIZE
    BY <1>1, <1>3, SizeFacts DEF Wrap, Offsets
  <2>2. o.next + (o.count + 1) = nl \/ o.next + (o.count + 1) = nl + BUF_SIZE
    BY <1>3, <2>1, SizeFacts
  <2> QED BY <1>2, <2>2
<1>5. Wrap(o.next + o.count) = o.last
  BY <1>1, <1>3, SizeFacts DEF Wrap, Offsets
<1>6. ASSUME NEW i \in 0..o.count
      PROVE  p.buf[Wrap(o.next + i)] = IF i = o.count THEN c ELSE o.buf[Wrap(o.next + i)]
  <2>1. Wrap(o.next + i) \in Offsets
    BY <1>3, SizeFacts DEF Wrap, Offsets
  <2>2. i # o.count => Wrap(o.next + i) # o.last
    BY <1>1, <1>3, SizeFacts, SMTT(40) DEF Wrap, Offsets
  <2> QED BY <1>2, <1>3, <1>5, <2>1, <2>2
<1>7. Ring(p)
  <2>1. ASSUME NEW i \in 0..(p.count - 1)
        PROVE  p.buf[Wrap(p.next + i)] \in Chars
    <3>1. i \in 0..o.count /\ (i # o.count => i \in 0..(o.count - 1))
      BY <1>2, <1>3
    <3> QED BY <1>2, <1>6, <3>1 DEF Ring
  <2>2. p.count \in 0..BUF_SIZE
    BY <1>2, <1>3, SizeFacts
  <2> QED BY <1>1, <1>2, <1>4, <2>1, <2>2 DEF Ring
<1>8. Buffered(p) = Append(Buffered(o), c)
  <2>1. /\ Buffered(o) \in Seq(Chars) /\ Len(Buffered(o)) = o.count
        /\ \A i \in 1..o.count : Buffered(o)[i] = o.buf[Wrap(o.next + i - 1)]
    BY LineFacts
  <2>2. /\ Buffered(p) \in Seq(Chars) /\ Len(Buffered(p)) = o.count + 1
        /\ \A i \in 1..(o.count + 1) : Buffered(p)[i] = p.buf[Wrap(o.next + i - 1)]
    <3>1. /\ Buffered(p) \in Seq(Chars) /\ Len(Buffered(p)) = p.count
          /\ \A i \in 1..p.count : Buffered(p)[i] = p.buf[Wrap(p.next + i - 1)]
      BY <1>7, LineFacts
    <3> QED BY <1>2, <3>1
  <2> DEFINE a == Append(Buffered(o), c)
  <2>3. /\ a \in Seq(Chars) /\ Len(a) = o.count + 1
        /\ \A i \in 1..o.count : a[i] = Buffered(o)[i]
        /\ a[o.count + 1] = c
    BY <2>1, AppendProperties
  <2> HIDE DEF a
  <2>4. ASSUME NEW i \in 1..(o.count + 1) PROVE Buffered(p)[i] = a[i]
    <3>1. i - 1 \in 0..o.count /\ o.next + (i - 1) = o.next + i - 1
      BY <1>3, SizeFacts DEF Offsets
    <3>2. p.buf[Wrap(o.next + i - 1)]
            = IF i - 1 = o.count THEN c ELSE o.buf[Wrap(o.next + i - 1)]
      BY <1>6, <3>1
    <3>3. CASE i = o.count + 1
      BY <1>3, <2>2, <2>3, <3>2, <3>3
    <3>4. CASE i # o.count + 1
      <4>1. i \in 1..o.count /\ i - 1 # o.count
        BY <1>3, <3>4
      <4> QED BY <2>1, <2>2, <2>3, <3>2, <4>1
    <3> QED BY <3>3, <3>4
  <2>5. Buffered(p) = a
    BY <2>2, <2>3, <2>4, SeqEqual
  <2> QED BY <2>5 DEF a
<1>9. Line(p) = Append(Line(o), c)
  <2>1. InTransmitter(p) = InTransmitter(o)
    BY <1>2 DEF InTransmitter
  <2> QED BY <1>8, <2>1, LineFacts, AppendBehind DEF Line
<1> QED BY <1>2, <1>7, <1>8, <1>9 DEF p, nl

\* A character for the idle transmitter is sent before what is in the buffer.
LEMMA PrimeLine ==
  ASSUME NEW o, Ring(o), o.thr = NONE, NEW c \in Chars
  PROVE  LET p == Prime(o, c)
         IN /\ Ring(p) /\ Agree(p) /\ p.sending
            /\ p.last = o.last /\ p.count = o.count
            /\ Line(o) = Buffered(o) /\ Line(p) = <<c>> \o Buffered(o)
<1> DEFINE p == Prime(o, c)
<1>1. /\ p \in OutType
      /\ p.buf = o.buf /\ p.next = o.next /\ p.last = o.last /\ p.count = o.count
      /\ p.sending /\ p.tx /\ p.thr = c
  BY PrimeFacts DEF Ring
<1> HIDE DEF p
<1>2. Ring(p)
  BY <1>1 DEF Ring
<1>3. Agree(p)
  BY <1>1 DEF Agree, OutType
<1>4. InTransmitter(o) = <<>> /\ InTransmitter(p) = <<c>> /\ Buffered(p) = Buffered(o)
  BY <1>1, NoneAssumption DEF InTransmitter, Buffered
<1>5. <<>> \o Buffered(o) = Buffered(o)
  BY LineFacts, ConcatEmptySeq
<1> QED BY <1>1, <1>2, <1>3, <1>4, <1>5 DEF Line, p

\* A character of a string is sent after all that was written, as long as the
\* pointer need not wrap.
LEMMA WriteRawLine ==
  ASSUME NEW o, Ring(o), Agree(o), NEW c \in Chars,
         o.sending => o.last + 1 < BUF_SIZE /\ o.count < BUF_SIZE
  PROVE  LET p == WriteRaw(o, c)
             d == IF o.sending THEN 1 ELSE 0
         IN /\ Ring(p) /\ Agree(p) /\ p.sending
            /\ p.last = o.last + d /\ p.count = o.count + d
            /\ Line(p) = Append(Line(o), c)
<1>0. o.sending \in BOOLEAN /\ o.last \in Int /\ o.count \in Int
  BY DEF Ring, OutType
<1>1. CASE o.sending
  <2> DEFINE p == StoreNext(o, c)
  <2>1. WriteRaw(o, c) = p
    <3>1. NextOffset(o.last) = o.last + 1
      BY <1>0, <1>1, SizeFacts DEF NextOffset
    <3> QED BY <1>1, <3>1 DEF WriteRaw, StoreNext
  <2>2. NextOffset(o.last) = o.last + 1
    BY <1>0, <1>1, SizeFacts DEF NextOffset
  <2>3. /\ Ring(p) /\ Line(p) = Append(Line(o), c)
        /\ p.count = o.count + 1 /\ p.last = o.last + 1
        /\ p.sending = o.sending /\ p.tx = o.tx
    BY <1>1, <2>2, StoreNextRing
  <2> HIDE DEF p
  <2>4. Agree(p)
    BY <1>1, <2>3 DEF Agree
  <2> QED BY <1>1, <2>1, <2>3, <2>4
<1>2. CASE ~o.sending
  <2> DEFINE p == Prime(o, c)
  <2>1. WriteRaw(o, c) = p
    BY <1>2 DEF WriteRaw
  <2>2. o.thr = NONE /\ o.count = 0
    BY <1>2 DEF Agree
  <2>3. Ring(p) /\ Agree(p) /\ p.sending /\ p.last = o.last /\ p.count = o.count
    BY <2>2, PrimeLine
  <2>4. Line(p) = <<c>> \o Buffered(o) /\ Line(o) = Buffered(o)
    BY <2>2, PrimeLine
  <2> HIDE DEF p
  <2>5. Buffered(o) = <<>>
    BY <2>2, LineFacts, EmptySeq
  <2>6. Line(p) = Append(Line(o), c)
    <3>1. <<c>> \in Seq(Chars)
      OBVIOUS
    <3>2. <<c>> \o <<>> = <<c>> /\ Append(<<>>, c) = <<c>>
      BY <3>1, ConcatEmptySeq
    <3> QED BY <2>4, <2>5, <3>2
  <2> QED BY <1>0, <1>2, <2>1, <2>3, <2>6
<1> QED BY <1>0, <1>1, <1>2

\* What is sent for a character of a string.
Coded(c) == IF c = LF THEN <<CR, LF>> ELSE <<c>>

LEMMA WritecLine ==
  ASSUME NEW o, Ring(o), Agree(o), NEW c \in Chars, NEW d,
         d = (IF c = LF THEN 2 ELSE 1) - (IF o.sending THEN 0 ELSE 1),
         o.last + d < BUF_SIZE, o.count + d <= BUF_SIZE
  PROVE  LET p == Writec(o, c)
         IN /\ Ring(p) /\ Agree(p) /\ p.sending
            /\ p.last = o.last + d /\ p.count = o.count + d
            /\ Line(p) = Line(o) \o Coded(c)
<1>0. /\ o.sending \in BOOLEAN /\ o.last \in Int /\ o.count \in Int
      /\ o.last < BUF_SIZE /\ Line(o) \in Seq(Chars)
  BY SizeFacts, LineFacts, SMTT(40) DEF Ring, OutType, Offsets
<1>1. CASE c = LF
  <2> DEFINE q == WriteRaw(o, CR)
             p == WriteRaw(q, LF)
  <2>1. o.sending => o.last + 1 < BUF_SIZE /\ o.count < BUF_SIZE
    BY <1>0, <1>1, SizeFacts
  <2>2. /\ Ring(q) /\ Agree(q) /\ q.sending
        /\ q.last = o.last + (IF o.sending THEN 1 ELSE 0)
        /\ q.count = o.count + (IF o.sending THEN 1 ELSE 0)
        /\ Line(q) = Append(Line(o), CR)
    BY <2>1, SizeFacts, WriteRawLine
  <2> HIDE DEF q
  <2>3. q.last + 1 < BUF_SIZE /\ q.count < BUF_SIZE /\ q.last \in Int /\ q.count \in Int
    BY <1>0, <1>1, <2>2, SizeFacts
  <2>4. /\ Ring(p) /\ Agree(p) /\ p.sending
        /\ p.last = q.last + 1 /\ p.count = q.count + 1
        /\ Line(p) = Append(Line(q), LF)
    BY <2>2, <2>3, SizeFacts, WriteRawLine
  <2>5. Writec(o, c) = p
    BY <1>1 DEF Writec, q
  <2> HIDE DEF p
  <2>6. p.last = o.last + d /\ p.count = o.count + d
    BY <1>0, <1>1, <2>2, <2>4
  <2>7. Line(p) = Line(o) \o <<CR, LF>>
    <3>1. Line(p) = Append(Line(o) \o <<CR>>, LF)
      BY <1>0, <2>2, <2>4, SizeFacts, AppendIsConcat
    <3>2. <<CR>> \in Seq(Chars) /\ Append(<<CR>>, LF) = <<CR, LF>>
      BY SizeFacts, PairIsAppend
    <3> QED BY <1>0, <3>1, <3>2, SizeFacts, AppendBehind, SMTT(40)
  <2> QED BY <1>1, <2>4, <2>5, <2>6, <2>7 DEF Coded
<1>2. CASE c # LF
  <2> DEFINE p == WriteRaw(o, c)
  <2>1. o.sending => o.last + 1 < BUF_SIZE /\ o.count < BUF_SIZE
    BY <1>0, <1>2, SizeFacts
  <2>2. /\ Ring(p) /\ Agree(p) /\ p.sending
        /\ p.last = o.last + (IF o.sending THEN 1 ELSE 0)
        /\ p.count = o.count + (IF o.sending THEN 1 ELSE 0)
        /\ Line(p) = Append(Line(o), c)
    BY <2>1, WriteRawLine
  <2>3. Writec(o, c) = p
    BY <1>2 DEF Writec
  <2> HIDE DEF p
  <2>4. Line(p) = Line(o) \o <<c>>
    BY <1>0, <2>2, AppendIsConcat
  <2>5. p.last = o.last + d /\ p.count = o.count + d
    BY <1>0, <1>2, <2>2
  <2> QED BY <1>2, <2>2, <2>3, <2>4, <2>5 DEF Coded
<1> QED BY <1>1, <1>2

\* By how much the pointer and the count have grown after k characters of a
\* string: the first one may have gone to the idle transmitter.
Grown(o, s, k) ==
  IF k = 0 THEN 0 ELSE More(s, k) - (IF o.sending THEN 0 ELSE 1)

\* p is o after k characters of the string s, which were sent as x.
SentSoFar(p, o, s, k, x) ==
  /\ Ring(p) /\ Agree(p) /\ p.sending = (k > 0 \/ o.sending)
  /\ p.last = o.last + Grown(o, s, k) /\ p.count = o.count + Grown(o, s, k)
  /\ Line(p) = Line(o) \o x

LEMMA GrownFacts ==
  ASSUME NEW o \in OutType, NEW s, NEW n \in Nat, NEW k \in 0..(n - 1), NEW b \in BOOLEAN,
         b = (k > 0 \/ o.sending)
  PROVE  /\ Grown(o, s, k) \in Int /\ Grown(o, s, k + 1) \in Int
         /\ Grown(o, s, k + 1)
              = Grown(o, s, k) + (IF s[k + 1] = LF THEN 2 ELSE 1) - (IF b THEN 0 ELSE 1)
         /\ Grown(o, s, k + 1) <= More(s, n) - (IF o.sending THEN 0 ELSE 1)
<1>1. k \in 0..n /\ k + 1 \in 1..n /\ k + 1 \in 0..n /\ n \in 0..n /\ (k + 1) - 1 = k /\ k \in Nat
  OBVIOUS
<1> DEFINE m == More(s, k)
           m1 == More(s, k + 1)
           mn == More(s, n)
           w == IF s[k + 1] = LF THEN 2 ELSE 1
           z == IF o.sending THEN 0 ELSE 1
<1>2. m \in Nat /\ m1 \in Nat /\ mn \in Nat /\ m1 <= mn /\ m1 = m + w /\ (k = 0 => m = 0)
  BY <1>1, MoreFacts
<1>3. w \in Nat /\ z \in Nat
  OBVIOUS
<1> HIDE DEF m, m1, mn, w
<1>4. Grown(o, s, k) = (IF k = 0 THEN 0 ELSE m - z) /\ Grown(o, s, k + 1) = m1 - z
  BY <1>1 DEF Grown, m, m1
<1> DEFINE y == IF b THEN 0 ELSE 1
<1>5. y \in Nat /\ (k = 0 => y = z)
  <2>1. k = 0 => ~(k > 0)
    OBVIOUS
  <2>2. k = 0 => b = o.sending
    BY <2>1 DEF OutType
  <2> QED BY <2>2
<1>6. k # 0 => y = 0
  <2>1. k # 0 => k > 0
    BY <1>1
  <2>2. k # 0 => b
    BY <2>1
  <2> QED BY <2>2
<1> HIDE DEF z, y
<1>7. m1 - z = (IF k = 0 THEN 0 ELSE m - z) + w - y
  <2>1. CASE k = 0
    BY <1>2, <1>3, <1>5, <2>1
  <2>2. CASE k # 0
    BY <1>2, <1>3, <1>6, <2>2
  <2> QED BY <2>1, <2>2
<1>8. m1 - z <= mn - z /\ m1 - z \in Int /\ (IF k = 0 THEN 0 ELSE m - z) \in Int
  BY <1>2, <1>3
<1> QED BY <1>4, <1>7, <1>8 DEF w, y, z, mn

LEMMA SentOneMore ==
  ASSUME NEW o, Ring(o), NEW s \in Seq(Chars), NEW k \in 0..(Len(s) - 1), NEW d,
         d = More(s, Len(s)) - (IF o.sending THEN 0 ELSE 1),
         o.last + d < BUF_SIZE, o.count + d <= BUF_SIZE,
         NEW x \in Seq(Chars), NEW p, SentSoFar(p, o, s, k, x)
  PROVE  SentSoFar(Writec(p, s[k + 1]), o, s, k + 1, x \o Coded(s[k + 1]))
<1> DEFINE c == s[k + 1]
           g == Grown(o, s, k)
           g1 == Grown(o, s, k + 1)
           e == (IF c = LF THEN 2 ELSE 1) - (IF p.sending THEN 0 ELSE 1)
           q == Writec(p, c)
<1>1. /\ Len(s) \in Nat /\ k + 1 \in 1..Len(s) /\ c \in Chars /\ k \in Nat
      /\ o \in OutType /\ o.last \in Int /\ o.count \in Int
      /\ Line(o) \in Seq(Chars)
  BY LenProperties, ElementOfSeq, LineFacts DEF Ring, OutType
<1>2. /\ Ring(p) /\ Agree(p) /\ p.sending = (k > 0 \/ o.sending) /\ p.sending \in BOOLEAN
      /\ p.last = o.last + g /\ p.count = o.count + g
      /\ Line(p) = Line(o) \o x
  BY DEF SentSoFar, Ring, OutType
<1>3. g \in Int /\ g1 \in Int /\ g1 = g + e /\ g1 <= d /\ e \in Int
  <2>1. /\ g \in Int /\ g1 \in Int
        /\ g1 = g + (IF c = LF THEN 2 ELSE 1) - (IF p.sending THEN 0 ELSE 1)
        /\ g1 <= More(s, Len(s)) - (IF o.sending THEN 0 ELSE 1)
    BY <1>1, <1>2, GrownFacts, ZenonT(60)
  <2> HIDE DEF c, g, g1
  <2> QED BY <2>1
<1>4. d \in Int
  <2>1. Len(s) \in 0..Len(s)
    BY <1>1
  <2>2. More(s, Len(s)) \in Nat
    BY <1>1, <2>1, MoreFacts
  <2> QED BY <2>2
<1>5. e = (IF c = LF THEN 2 ELSE 1) - (IF p.sending THEN 0 ELSE 1)
  OBVIOUS
<1> HIDE DEF g, g1, e, c
<1>6. /\ p.last + e = o.last + g1 /\ p.count + e = o.count + g1
      /\ p.last + e < BUF_SIZE /\ p.count + e <= BUF_SIZE
  <2>1. p.last = o.last + g /\ p.count = o.count + g
    BY <1>2
  <2>2. p.last + e = o.last + g1 /\ p.count + e = o.count + g1
    BY <1>1, <1>3, <2>1, SMTT(40)
  <2>3. o.last + g1 < BUF_SIZE /\ o.count + g1 <= BUF_SIZE
    BY <1>1, <1>3, <1>4, SizeFacts, SMTT(40)
  <2> QED BY <2>2, <2>3
<1>7. /\ Ring(q) /\ Agree(q) /\ q.sending
      /\ q.last = p.last + e /\ q.count = p.count + e
      /\ Line(q) = Line(p) \o Coded(c)
  BY <1>1, <1>2, <1>5, <1>6, WritecLine, ZenonT(60)
<1> HIDE DEF q
<1>8. Line(q) = Line(o) \o (x \o Coded(c))
  <2>1. Coded(c) \in Seq(Chars)
    <3>1. CR \in Chars /\ LF \in Chars /\ c \in Chars
      BY <1>1, SizeFacts
    <3>2. <<c>> \in Seq(Chars) /\ <<CR, LF>> \in Seq(Chars)
      BY <3>1
    <3> QED BY <3>2 DEF Coded
  <2>2. (Line(o) \o x) \o Coded(c) = Line(o) \o (x \o Coded(c))
    <3> DEFINE l == Line(o)
               z == Coded(c)
    <3>1. l \in Seq(Chars) /\ z \in Seq(Chars) /\ x \in Seq(Chars)
      BY <1>1, <2>1
    <3> HIDE DEF l, z
    <3>2. (l \o x) \o z = l \o (x \o z)
      BY <3>1, ConcatAssociative, SMTT(40)
    <3> QED BY <3>2 DEF l, z
  <2> QED BY <1>2, <1>7, <2>2
<1>9. q.sending = (k + 1 > 0 \/ o.sending)
  <2>1. q.sending \in BOOLEAN /\ k + 1 > 0
    BY <1>1, <1>7 DEF Ring, OutType
  <2> QED BY <1>7, <2>1
<1>10. q.last = o.last + g1 /\ q.count = o.count + g1
  BY <1>6, <1>7
<1> QED BY <1>7, <1>8, <1>9, <1>10 DEF SentSoFar, q, c, g1

\* What AbsPuts puts behind the line, unfolded.
LEMMA WithCRUnfolds ==
  ASSUME NEW s \in Seq(Chars)
  PROVE  \E f \in [0..Len(s) -> Seq(Chars)] :
           /\ f[0] = <<>>
           /\ \A k \in 1..Len(s) : f[k] = f[k - 1] \o Coded(s[k])
           /\ Abs!WithCR(s) = f[Len(s)]
<1> DEFINE n == Len(s)
           t == [k \in DOMAIN s |-> IF s[k] = LF THEN <<CR, LF>> ELSE <<s[k]>>]
<1>1. n \in Nat /\ DOMAIN s = 1..n /\ \A k \in 1..n : s[k] \in Chars
  BY LenProperties, ElementOfSeq
<1>2. t \in Seq(Seq(Chars)) /\ Len(t) = n /\ \A k \in 1..n : t[k] = Coded(s[k])
  <2>1. ASSUME NEW k \in 1..n PROVE t[k] \in Seq(Chars) /\ t[k] = Coded(s[k])
    <3>1. s[k] \in Chars /\ CR \in Chars /\ LF \in Chars
      BY <1>1, SizeFacts
    <3>2. <<s[k]>> \in Seq(Chars) /\ <<CR, LF>> \in Seq(Chars)
      BY <3>1
    <3> QED BY <1>1, <3>2 DEF Coded
  <2>2. t \in [1..n -> Seq(Chars)]
    BY <1>1, <2>1
  <2> HIDE DEF t, n
  <2> QED BY <1>1, <2>1, <2>2, FunctionIsSeq
<1>3. Abs!WithCR(s) = FlattenSeq(t)
  BY DEF Abs!WithCR, Abs!FlattenSeq, FlattenSeq
<1> HIDE DEF t, n
<1>4. PICK f \in [0..Len(t) -> Seq(Chars)] :
        /\ f[0] = <<>>
        /\ \A k \in 1..Len(t) : f[k] = f[k - 1] \o t[k]
        /\ FlattenSeq(t) = f[Len(t)]
  BY <1>2, FlattenUnfolds
<1>5. \A k \in 1..n : f[k] = f[k - 1] \o Coded(s[k])
  BY <1>2, <1>4
<1>6. f \in [0..n -> Seq(Chars)] /\ Abs!WithCR(s) = f[n]
  BY <1>2, <1>3, <1>4
<1> QED BY <1>4, <1>5, <1>6 DEF n

\* A string is sent after all that was written, with a CR before every LF, as
\* long as there is room for it behind the last character.
LEMMA PutsLine ==
  ASSUME NEW o, Ring(o), Agree(o), NEW s \in Seq(Chars), NEW d,
         d = More(s, Len(s)) - (IF o.sending THEN 0 ELSE 1),
         o.last + d < BUF_SIZE, o.count + d <= BUF_SIZE
  PROVE  /\ Ring(Puts(o, s)) /\ Agree(Puts(o, s))
         /\ Line(Puts(o, s)) = Line(o) \o Abs!WithCR(s)
<1> DEFINE n == Len(s)
           A == {p \in OutType : p.sending = p.tx}
<1>1. /\ n \in Nat /\ DOMAIN s = 1..n /\ \A k \in 1..n : s[k] \in Chars
      /\ o \in OutType /\ Line(o) \in Seq(Chars)
  BY LenProperties, ElementOfSeq, LineFacts DEF Ring
<1>2. n \in Nat /\ DOMAIN s = 1..n /\ \A p \in A, k \in 1..n : Writec(p, s[k]) \in A
  <2>1. ASSUME NEW p \in A, NEW k \in 1..n PROVE Writec(p, s[k]) \in A
    <3> DEFINE q == Writec(p, s[k])
    <3>1. q \in OutType /\ q.sending /\ q.tx
      BY <1>1, WritecAgrees
    <3> HIDE DEF q
    <3>2. q.sending = q.tx
      BY <3>1 DEF OutType
    <3> QED BY <3>1, <3>2 DEF q
  <2> QED BY <1>1, <2>1
<1>3. o \in A
  BY <1>1 DEF Agree
<1> HIDE DEF A, n
<1>4. PICK h \in [0..n -> A] : PutsSteps(h, o, s, n) /\ Puts(o, s) = h[n]
  BY <1>2, <1>3, PutsUnfolds, SMTT(40)
<1>5. PICK f \in [0..n -> Seq(Chars)] :
        /\ f[0] = <<>>
        /\ \A k \in 1..n : f[k] = f[k - 1] \o Coded(s[k])
        /\ Abs!WithCR(s) = f[n]
  BY WithCRUnfolds DEF n
<1>6. h[0] = o /\ \A k \in 1..n : h[k] = Writec(h[k - 1], s[k])
  BY <1>4 DEF PutsSteps
<1> DEFINE S == {k \in 0..n : SentSoFar(h[k], o, s, k, f[k])}
<1>7. 0 \in S
  <2>1. Grown(o, s, 0) = 0 /\ o.last \in Int /\ o.count \in Int /\ ~(0 > 0)
        /\ o.sending \in BOOLEAN
    BY <1>1 DEF Grown, OutType
  <2>2. Line(o) \o <<>> = Line(o)
    BY <1>1, ConcatEmptySeq
  <2>3. SentSoFar(o, o, s, 0, <<>>)
    BY <2>1, <2>2 DEF SentSoFar
  <2> QED BY <1>2, <1>5, <1>6, <2>3
<1>8. ASSUME NEW k \in 0..(n - 1), k \in S PROVE k + 1 \in S
  <2>1. /\ k + 1 \in 1..n /\ (k + 1) - 1 = k /\ k \in 0..n /\ k + 1 \in 0..n
        /\ k \in 0..(Len(s) - 1)
    BY <1>2 DEF n
  <2>2. SentSoFar(h[k], o, s, k, f[k]) /\ f[k] \in Seq(Chars)
    BY <1>8, <2>1
  <2>3. SentSoFar(Writec(h[k], s[k + 1]), o, s, k + 1, f[k] \o Coded(s[k + 1]))
    BY <2>1, <2>2, SentOneMore
  <2> QED BY <1>5, <1>6, <2>1, <2>3
<1> HIDE DEF S
<1>9. 0..n \subseteq S
  BY <1>2, <1>7, <1>8, IntervalInduction
<1>10. SentSoFar(h[n], o, s, n, f[n])
  <2>1. n \in 0..n
    BY <1>2
  <2> QED BY <1>9, <2>1 DEF S
<1> QED BY <1>4, <1>5, <1>10 DEF SentSoFar

\* The output half after k characters of s were stored in it.
StoredSoFar(p, o, s, k) ==
  /\ Ring(p) /\ p.count = o.count + k
  /\ Buffered(p) = Buffered(o) \o SubSeq(s, 1, k)

LEMMA StoreOneMore ==
  ASSUME NEW o, Ring(o), NEW s \in Seq(Chars), o.count + Len(s) <= BUF_SIZE,
         NEW k \in 0..(Len(s) - 1), NEW p, StoredSoFar(p, o, s, k)
  PROVE  StoredSoFar(StoreNext(p, s[k + 1]), o, s, k + 1)
<1> DEFINE c == s[k + 1]
           q == StoreNext(p, c)
<1>1. /\ Len(s) \in Nat /\ k + 1 \in 1..Len(s) /\ (k + 1) - 1 = k
      /\ c \in Chars /\ o.count \in Int /\ k \in Int
  BY LenProperties, ElementOfSeq DEF Ring, OutType
<1>2. Ring(p) /\ p.count = o.count + k /\ Buffered(p) = Buffered(o) \o SubSeq(s, 1, k)
  BY DEF StoredSoFar
<1>3. SubSeq(s, 1, k + 1) = Append(SubSeq(s, 1, k), c) /\ SubSeq(s, 1, k) \in Seq(Chars)
  BY <1>1, SubSeqGrows
<1> HIDE DEF c
<1>4. p.count < BUF_SIZE
  BY <1>1, <1>2, SizeFacts
<1>5. Ring(q) /\ q.count = p.count + 1 /\ Buffered(q) = Append(Buffered(p), c)
  BY <1>1, <1>2, <1>4, StoreNextRing
<1> HIDE DEF q
<1>6. q.count = o.count + (k + 1)
  <2>1. k \in Int /\ o.count \in Int /\ p.count = o.count + k /\ q.count = p.count + 1
    BY <1>1, <1>2, <1>5
  <2>2. \A i, j \in Int : (i + j) + 1 = i + (j + 1)
    OBVIOUS
  <2> QED BY <2>1, <2>2
<1>7. Buffered(q) = Buffered(o) \o SubSeq(s, 1, k + 1)
  <2>1. Buffered(o) \in Seq(Chars)
    BY LineFacts
  <2> DEFINE x == Buffered(o)
             y == SubSeq(s, 1, k)
  <2>2. x \in Seq(Chars) /\ y \in Seq(Chars) /\ c \in Chars /\ Buffered(p) = x \o y
    BY <1>1, <1>2, <1>3, <2>1
  <2> HIDE DEF x, y
  <2>3. x \o Append(y, c) = Append(x \o y, c)
    BY <2>2, AppendBehind
  <2> QED BY <1>3, <1>5, <2>2, <2>3 DEF x, y
<1> QED BY <1>5, <1>6, <1>7 DEF StoredSoFar, q, c

LEMMA StoreAllLine ==
  ASSUME NEW o, Ring(o), NEW s \in Seq(Chars), o.count + Len(s) <= BUF_SIZE
  PROVE  Ring(StoreAll(o, s)) /\ Buffered(StoreAll(o, s)) = Buffered(o) \o s
<1> DEFINE n == Len(s)
<1>1. /\ n \in Nat /\ DOMAIN s = 1..n /\ \A k \in 1..n : s[k] \in Chars
      /\ o \in OutType /\ o.count \in Int
  BY LenProperties, ElementOfSeq DEF Ring, OutType
<1>2. n \in Nat /\ DOMAIN s = 1..n /\ \A p \in OutType, k \in 1..n : StoreNext(p, s[k]) \in OutType
  <2>1. ASSUME NEW p \in OutType, NEW k \in 1..n PROVE StoreNext(p, s[k]) \in OutType
    <3>1. NextOffset(p.last) \in Int /\ s[k] \in Chars
      BY <1>1 DEF NextOffset, OutType
    <3> QED BY <3>1, StoredFacts DEF StoreNext
  <2> QED BY <1>1, <2>1
<1> HIDE DEF n
<1>3. PICK h \in [0..n -> OutType] : StoreSteps(h, o, s, n) /\ StoreAll(o, s) = h[n]
  BY <1>1, <1>2, StoreNextUnfolds
<1>4. h[0] = o /\ \A k \in 1..n : h[k] = StoreNext(h[k - 1], s[k])
  BY <1>3 DEF StoreSteps
<1> DEFINE S == {k \in 0..n : StoredSoFar(h[k], o, s, k)}
<1>5. 0 \in S
  <2>1. SubSeq(s, 1, 0) = <<>> /\ o.count + 0 = o.count
    BY <1>1, SubSeqEmpty
  <2>2. Buffered(o) \o <<>> = Buffered(o)
    BY LineFacts, ConcatEmptySeq
  <2>3. StoredSoFar(o, o, s, 0)
    BY <2>1, <2>2 DEF StoredSoFar
  <2> QED BY <1>2, <1>4, <2>3
<1>6. ASSUME NEW k \in 0..(n - 1), k \in S PROVE k + 1 \in S
  <2>1. k + 1 \in 1..n /\ (k + 1) - 1 = k /\ k + 1 \in 0..n /\ k \in 0..(Len(s) - 1)
    BY <1>2 DEF n
  <2>2. StoredSoFar(h[k], o, s, k)
    BY <1>6
  <2>3. StoredSoFar(StoreNext(h[k], s[k + 1]), o, s, k + 1)
    BY <2>1, <2>2, StoreOneMore
  <2> QED BY <1>4, <2>1, <2>3
<1> HIDE DEF S
<1>7. 0..n \subseteq S
  BY <1>2, <1>5, <1>6, IntervalInduction
<1>8. StoredSoFar(StoreAll(o, s), o, s, n)
  <2>1. n \in S
    BY <1>2, <1>7
  <2> QED BY <1>3, <2>1 DEF S
<1>9. SubSeq(s, 1, n) = s
  BY SubSeqFull DEF n
<1> QED BY <1>8, <1>9 DEF StoredSoFar

\* The loop of _sio_writes puts what there is room for behind what is there.
FillSize(o, b) == Max({0, Min({Len(b), BUF_SIZE - o.count})})

LEMMA FillLine ==
  ASSUME NEW o, Ring(o), NEW b \in Seq(Chars)
  PROVE  LET p == Fill(o, b)
             n == FillSize(o, b)
         IN /\ Ring(p) /\ Buffered(p) = Buffered(o) \o SubSeq(b, 1, n)
            /\ p.sending = o.sending /\ p.tx = o.tx /\ p.thr = o.thr
            /\ n \in 0..Len(b) /\ (n < Len(b) => o.count + n = BUF_SIZE)
            /\ SubSeq(b, 1, n) \in Seq(Chars)
<1> DEFINE n == FillSize(o, b)
           s == SubSeq(b, 1, n)
           p == Fill(o, b)
<1>1. o \in OutType /\ o.count \in 0..BUF_SIZE /\ Len(b) \in Nat
  BY LenProperties DEF Ring
<1>2. n \in 0..Len(b) /\ n <= BUF_SIZE - o.count /\ (n < Len(b) => o.count + n = BUF_SIZE)
  <2>1. o.count <= BUF_SIZE /\ o.count \in Int /\ BUF_SIZE \in Int
    BY <1>1, SizeFacts
  <2>2. n \in 0..Len(b) /\ n <= BUF_SIZE - o.count /\ (n < Len(b) => n = BUF_SIZE - o.count)
    BY <1>1, <2>1, FillCount DEF FillSize
  <2> HIDE DEF n
  <2> QED BY <2>1, <2>2
<1>3. p = StoreAll(o, s)
  BY DEF Fill, StoreAll, FillSize
<1> HIDE DEF n
<1>4. s \in Seq(Chars) /\ Len(s) = n
  <2>1. n \in Nat /\ \A k \in 1..n : b[k] \in Chars
    BY <1>1, <1>2, ElementOfSeq
  <2> QED BY <2>1, SubSeqProperties
<1>5. o.count + Len(s) <= BUF_SIZE
  BY <1>1, <1>2, <1>4, SizeFacts
<1> HIDE DEF s
<1>6. Ring(p) /\ Buffered(p) = Buffered(o) \o s
  BY <1>3, <1>4, <1>5, StoreAllLine
<1>7. p.sending = o.sending /\ p.tx = o.tx /\ p.thr = o.thr
  BY <1>1, FillAgrees
<1> HIDE DEF p
<1> QED BY <1>2, <1>4, <1>6, <1>7 DEF n, s, p

\* A first element before the beginning of the rest.
LEMMA HeadBeforeTail ==
  ASSUME NEW b \in Seq(Chars), b # <<>>, NEW m \in 0..Len(Tail(b))
  PROVE  /\ <<Head(b)>> \o SubSeq(Tail(b), 1, m) = SubSeq(b, 1, m + 1)
         /\ Len(Tail(b)) = Len(b) - 1
<1>1. /\ Len(b) \in Nat /\ Head(b) = b[1] /\ Head(b) \in Chars
      /\ Tail(b) \in Seq(Chars) /\ Len(Tail(b)) = Len(b) - 1 /\ Len(b) > 0
      /\ \A i \in 1..Len(Tail(b)) : Tail(b)[i] = b[i + 1]
      /\ \A i \in 1..Len(b) : b[i] \in Chars
  BY HeadTailProperties, LenProperties, ElementOfSeq, EmptySeq
<1> DEFINE u == SubSeq(Tail(b), 1, m)
           v == SubSeq(b, 1, m + 1)
           w == <<Head(b)>> \o u
<1>2. u \in Seq(Chars) /\ Len(u) = m /\ \A i \in 1..m : u[i] = b[i + 1]
  <2>1. \A i \in 1..m : Tail(b)[i] = b[i + 1] /\ b[i + 1] \in Chars
    BY <1>1
  <2>2. u \in Seq(Chars) /\ Len(u) = m /\ \A i \in 1..m : u[i] = Tail(b)[i]
    BY <1>1, <2>1, SubSeqProperties
  <2> QED BY <2>1, <2>2
<1>3. v \in Seq(Chars) /\ Len(v) = m + 1 /\ \A i \in 1..(m + 1) : v[i] = b[i]
  BY <1>1, SubSeqProperties
<1> HIDE DEF u, v
<1>4. <<Head(b)>> \in Seq(Chars) /\ Len(<<Head(b)>>) = 1 /\ <<Head(b)>>[1] = b[1]
  BY <1>1
<1>5. w \in Seq(Chars) /\ Len(w) = m + 1 /\ \A i \in 1..(m + 1) : w[i] = b[i]
  <2>1. /\ w \in Seq(Chars) /\ Len(w) = 1 + m
        /\ \A i \in 1..(1 + m) : w[i] = IF i <= 1 THEN <<Head(b)>>[i] ELSE u[i - 1]
    BY <1>2, <1>4, ConcatProperties
  <2> HIDE DEF w
  <2>2. ASSUME NEW i \in 1..(m + 1) PROVE w[i] = b[i]
    <3>1. i \in 1..(1 + m) /\ (~(i <= 1) => i - 1 \in 1..m /\ (i - 1) + 1 = i)
          /\ (i <= 1 => i = 1)
      OBVIOUS
    <3> QED BY <1>2, <1>4, <2>1, <3>1
  <2> QED BY <2>1, <2>2
<1> HIDE DEF w
<1>6. w = v
  BY <1>3, <1>5, SeqEqual
<1> QED BY <1>1, <1>6 DEF u, v, w

\* A buffer is sent after all that was written, and only the end of it, that
\* there is no room for, is dropped.
LEMMA WritesLine ==
  ASSUME NEW o, Ring(o), Agree(o), NEW b \in Seq(Chars) \ {<<>>},
         o.sending \/ Head(b) # LF
  PROVE  /\ Ring(Writes(o, b)) /\ Agree(Writes(o, b))
         /\ \E n \in 0..Len(b) :
              /\ n < Len(b) => Len(Line(o)) + n >= BUF_SIZE
              /\ Line(Writes(o, b)) = Line(o) \o SubSeq(b, 1, n)
<1>1. /\ Len(b) \in Nat /\ Head(b) \in Chars /\ Tail(b) \in Seq(Chars)
      /\ o \in OutType /\ o.sending \in BOOLEAN
      /\ Line(o) \in Seq(Chars) /\ Buffered(o) \in Seq(Chars) /\ InTransmitter(o) \in Seq(Chars)
      /\ o.count \in 0..BUF_SIZE /\ Len(Buffered(o)) = o.count
  BY LenProperties, HeadTailProperties, LineFacts DEF Ring, OutType
<1>2. Len(Line(o)) >= o.count /\ Len(Line(o)) \in Nat
  <2>1. Len(Line(o)) = Len(InTransmitter(o)) + Len(Buffered(o)) /\ Len(InTransmitter(o)) \in Nat
    BY <1>1, ConcatProperties, LenProperties DEF Line
  <2> QED BY <1>1, <2>1
<1>3. CASE o.sending
  <2> DEFINE n == FillSize(o, b)
             p == Fill(o, b)
  <2>1. /\ Ring(p) /\ Buffered(p) = Buffered(o) \o SubSeq(b, 1, n)
        /\ p.sending = o.sending /\ p.tx = o.tx /\ p.thr = o.thr
        /\ n \in 0..Len(b) /\ (n < Len(b) => o.count + n = BUF_SIZE)
        /\ SubSeq(b, 1, n) \in Seq(Chars)
    BY FillLine
  <2>2. Writes(o, b) = p
    BY <1>3 DEF Writes
  <2> HIDE DEF n, p
  <2>3. Agree(p)
    BY <1>3, <2>1 DEF Agree
  <2>4. Line(p) = Line(o) \o SubSeq(b, 1, n)
    <3> DEFINE x == SubSeq(b, 1, n)
               y == InTransmitter(o)
               z == Buffered(o)
    <3>1. x \in Seq(Chars)
      BY <2>1
    <3>2. y \in Seq(Chars) /\ z \in Seq(Chars)
      BY <1>1
    <3>3. InTransmitter(p) = y
      BY <2>1 DEF InTransmitter
    <3>4. Line(p) = y \o (z \o x) /\ Line(o) = y \o z
      BY <2>1, <3>3 DEF Line
    <3> HIDE DEF x, y, z
    <3>5. (y \o z) \o x = y \o (z \o x)
      BY <3>1, <3>2, ConcatAssociative
    <3> QED BY <3>4, <3>5 DEF x
  <2>5. n < Len(b) => Len(Line(o)) + n >= BUF_SIZE
    BY <1>1, <1>2, <2>1, SizeFacts
  <2> QED BY <2>1, <2>2, <2>3, <2>4, <2>5
<1>4. CASE ~o.sending
  <2> DEFINE c == Head(b)
             t == Tail(b)
             m == FillSize(o, t)
             q == Fill(o, t)
             p == Prime(q, c)
  <2>1. o.count = 0 /\ o.thr = NONE
    BY <1>4 DEF Agree
  <2>2. /\ Ring(q) /\ Buffered(q) = Buffered(o) \o SubSeq(t, 1, m)
        /\ q.sending = o.sending /\ q.thr = o.thr
        /\ m \in 0..Len(t) /\ (m < Len(t) => o.count + m = BUF_SIZE)
        /\ SubSeq(t, 1, m) \in Seq(Chars)
    BY <1>1, FillLine
  <2>3. Writes(o, b) = p
    BY <1>4, <2>2 DEF Writes, Writec, WriteRaw
  <2> HIDE DEF q, m
  <2>4. Ring(p) /\ Agree(p) /\ Line(p) = <<c>> \o Buffered(q)
    BY <1>1, <2>1, <2>2, PrimeLine
  <2> HIDE DEF p
  <2>5. Line(o) = <<>> /\ Buffered(o) = <<>>
    <3>1. Buffered(o) = <<>> /\ InTransmitter(o) = <<>>
      BY <1>1, <2>1, EmptySeq DEF InTransmitter
    <3> QED BY <3>1 DEF Line
  <2>6. <<c>> \o SubSeq(t, 1, m) = SubSeq(b, 1, m + 1) /\ Len(t) = Len(b) - 1
    BY <2>2, HeadBeforeTail
  <2>7. SubSeq(t, 1, m) \in Seq(Chars) /\ SubSeq(b, 1, m + 1) \in Seq(Chars)
    <3>1. m \in Nat /\ m + 1 \in 0..Len(b) /\ SubSeq(t, 1, m) \in Seq(Chars)
      BY <1>1, <2>2, <2>6
    <3>2. 1 \in Int /\ m + 1 \in Int /\ \A i \in 1..(m + 1) : b[i] \in Chars
      BY <1>1, <3>1, ElementOfSeq
    <3>3. SubSeq(b, 1, m + 1) \in Seq(Chars)
      BY <3>2, SubSeqProperties
    <3> QED BY <3>1, <3>3
  <2>8. Line(p) = Line(o) \o SubSeq(b, 1, m + 1)
    <3> DEFINE x == SubSeq(t, 1, m)
               y == SubSeq(b, 1, m + 1)
    <3>1. Line(p) = <<c>> \o (<<>> \o x) /\ <<c>> \o x = y /\ x \in Seq(Chars) /\ y \in Seq(Chars)
      BY <2>2, <2>4, <2>5, <2>6, <2>7
    <3> HIDE DEF x, y
    <3>2. <<>> \o x = x /\ <<>> \o y = y
      BY <3>1, ConcatEmptySeq
    <3> QED BY <2>5, <3>1, <3>2 DEF y
  <2>9. m + 1 \in 0..Len(b) /\ (m + 1 < Len(b) => Len(Line(o)) + (m + 1) >= BUF_SIZE)
    BY <1>1, <1>2, <2>1, <2>2, <2>6, SizeFacts
  <2> QED BY <2>3, <2>4, <2>8, <2>9
<1> QED BY <1>1, <1>3, <1>4

\* A string or a buffer that is written.
LEMMA WriteStringLine ==
  ASSUME NEW s \in Strings, WriteString(s), Paced, Ring(out), Agree(out)
  PROVE  /\ Ring(out') /\ Agree(out') /\ outside' = FALSE
         /\ Line(out') = Line(out) \o Abs!WithCR(s)
         /\ UNCHANGED <<in, got>>
<1> DEFINE d == More(s, Len(s)) - (IF out.sending THEN 0 ELSE 1)
           end == out.last + More(s, Len(s)) - (IF out.sending THEN 0 ELSE 1)
<1>1. s \in Seq(Chars) /\ out \in OutType /\ out.last \in Int /\ out.count \in Int
  BY SioAssumption DEF Ring, OutType
<1>2. /\ end \in Int
      /\ end < BUF_SIZE /\ out.count + end - out.last <= BUF_SIZE
      /\ outside' = (end > BUF_SIZE)
      /\ out' = IF end > BUF_SIZE THEN [out EXCEPT !.last = end] ELSE Puts(out, s)
      /\ UNCHANGED <<in, got>>
  <2> HIDE DEF end
  <2> QED BY <1>1, WriteStringFacts DEF end
<1>3. More(s, Len(s)) \in Nat
  <2>1. Len(s) \in Nat /\ Len(s) \in 0..Len(s)
    BY <1>1, LenProperties
  <2> QED BY <2>1, MoreFacts
<1>4. d \in Int /\ end = out.last + d
  BY <1>1, <1>3
<1> HIDE DEF d, end
<1>5. /\ ~(end > BUF_SIZE) /\ out.last + d < BUF_SIZE /\ out.count + d <= BUF_SIZE
  BY <1>1, <1>2, <1>4, SizeFacts
<1>6. out' = Puts(out, s) /\ outside' = FALSE
  <2>1. out' = Puts(out, s)
    BY <1>2, <1>5
  <2>2. (end > BUF_SIZE) = FALSE
    BY <1>5
  <2> QED BY <1>2, <2>1, <2>2, Zenon
<1>7. d = More(s, Len(s)) - (IF out.sending THEN 0 ELSE 1)
  BY DEF d
<1>8. /\ Ring(Puts(out, s)) /\ Agree(Puts(out, s))
      /\ Line(Puts(out, s)) = Line(out) \o Abs!WithCR(s)
  BY <1>1, <1>5, <1>7, PutsLine
<1> QED BY <1>2, <1>6, <1>8

LEMMA WriteBufferLine ==
  ASSUME NEW b \in Buffers, WriteBuffer(b), Paced, Ring(out), Agree(out)
  PROVE  /\ Ring(out') /\ Agree(out') /\ outside' = FALSE
         /\ \E n \in 0..Len(b) :
              /\ n < Len(b) => Len(Line(out)) + n >= BUF_SIZE
              /\ Line(out') = Line(out) \o SubSeq(b, 1, n)
         /\ UNCHANGED <<in, got>>
<1>1. b \in Seq(Chars) \ {<<>>} /\ out.last \in Offsets
  BY SioAssumption DEF Ring
<1>2. /\ out' = Writes(out, b) /\ outside' = FALSE /\ UNCHANGED <<in, got>>
      /\ out.sending \/ Head(b) # LF
  BY <1>1 DEF WriteBuffer
<1> QED BY <1>1, <1>2, WritesLine

\* The UART has sent the first character of the line.
LEMMA TransmittedLine ==
  ASSUME Transmitted, Ring(out), Agree(out)
  PROVE  /\ Ring(out') /\ Agree(out')
         /\ Line(out) # <<>> /\ Line(out') = Tail(Line(out))
<1>1. out' = [out EXCEPT !.thr = NONE] /\ out.thr # NONE /\ out \in OutType
  BY DEF Transmitted, Ring
<1>2. /\ out' \in OutType /\ out'.thr = NONE
      /\ out'.sending = out.sending /\ out'.tx = out.tx /\ out'.buf = out.buf
      /\ out'.next = out.next /\ out'.last = out.last /\ out'.count = out.count
  BY <1>1 DEF OutType
<1>3. Ring(out')
  BY <1>2 DEF Ring
<1>4. Agree(out')
  BY <1>1, <1>2 DEF Agree
<1> DEFINE y == Buffered(out)
           c == out.thr
<1>5. y \in Seq(Chars) /\ c \in Chars
  BY <1>1, LineFacts DEF OutType
<1>6. Line(out) = <<c>> \o y /\ Line(out') = <<>> \o y
  <2>1. InTransmitter(out) = <<c>> /\ InTransmitter(out') = <<>>
    BY <1>1, <1>2 DEF InTransmitter
  <2>2. Buffered(out') = y
    BY <1>2 DEF Buffered
  <2> QED BY <2>1, <2>2 DEF Line
<1> HIDE DEF y, c
<1>7. <<c>> \o y # <<>> /\ Tail(<<c>> \o y) = y /\ <<>> \o y = y
  <2>1. <<c>> \in Seq(Chars) /\ Len(<<c>>) = 1
    BY <1>5
  <2> DEFINE z == <<c>> \o y
  <2>2. z \in Seq(Chars) /\ Len(z) = 1 + Len(y) /\ Len(y) \in Nat
        /\ \A i \in 1..(1 + Len(y)) : z[i] = IF i <= 1 THEN <<c>>[i] ELSE y[i - 1]
    BY <1>5, <2>1, ConcatProperties, LenProperties
  <2> HIDE DEF z
  <2>3. z # <<>>
    BY <2>2, EmptySeq
  <2>4. /\ Tail(z) \in Seq(Chars) /\ Len(Tail(z)) = Len(y)
        /\ \A i \in 1..Len(y) : Tail(z)[i] = z[i + 1]
    BY <2>2, <2>3, HeadTailProperties
  <2>5. \A i \in 1..Len(y) : z[i + 1] = y[i]
    BY <2>2
  <2>6. Tail(z) = y
    BY <1>5, <2>4, <2>5, SeqEqual
  <2> QED BY <1>5, <2>3, <2>6, ConcatEmptySeq DEF z
<1> QED BY <1>3, <1>4, <1>6, <1>7

\* The interrupt hands the first character of the buffer to the transmitter:
\* nothing changes for the line.
LEMMA TxInterruptLine ==
  ASSUME TxInterrupt, Ring(out), Agree(out)
  PROVE  Ring(out') /\ Agree(out') /\ Line(out') = Line(out)
<1>1. /\ out \in OutType /\ out.sending /\ out.tx /\ out.thr = NONE
      /\ out.count \in 0..BUF_SIZE /\ out.last \in Offsets /\ out.next \in Offsets
      /\ out.next + out.count = out.last \/ out.next + out.count = out.last + BUF_SIZE
      /\ \A i \in 0..(out.count - 1) : out.buf[Wrap(out.next + i)] \in Chars
  BY DEF TxInterrupt, Ring, Agree, OutType
<1>2. CASE out.count > 0
  <2> DEFINE c == out.buf[out.next]
             m == NextOffset(out.next)
             p == [out EXCEPT !.thr = c, !.next = m, !.count = out.count - 1]
  <2>1. out' = p
    BY <1>1, <1>2 DEF TxInterrupt
  <2>2. c \in Chars /\ m \in Offsets /\ m = Wrap(out.next + 1) /\ out.count - 1 \in Int
    <3>1. 0 \in 0..(out.count - 1) /\ Wrap(out.next + 0) = out.next
      BY <1>1, <1>2, SizeFacts DEF Wrap, Offsets
    <3>2. c \in Chars
      BY <1>1, <3>1
    <3> QED BY <1>1, <3>2, WrapFacts
  <2> HIDE DEF c, m
  <2>3. /\ p \in OutType /\ p.thr = c /\ p.next = m /\ p.count = out.count - 1
        /\ p.buf = out.buf /\ p.last = out.last /\ p.sending /\ p.tx
    BY <1>1, <2>2 DEF OutType
  <2> HIDE DEF p
  <2>4. ASSUME NEW i \in 0..(out.count - 2)
        PROVE  Wrap(m + i) = Wrap(out.next + (i + 1)) /\ i + 1 \in 0..(out.count - 1)
    BY <1>1, <1>2, <2>2, SizeFacts DEF Wrap, Offsets
  <2>5. Ring(p)
    <3>1. m + (out.count - 1) = out.last \/ m + (out.count - 1) = out.last + BUF_SIZE
      BY <1>1, <1>2, <2>2, SizeFacts DEF Wrap, Offsets
    <3>2. p.count \in 0..BUF_SIZE /\ p.count - 1 = out.count - 2
      BY <1>1, <1>2, <2>3, SizeFacts
    <3>3. \A i \in 0..(p.count - 1) : p.buf[Wrap(p.next + i)] \in Chars
      BY <1>1, <2>3, <2>4, <3>2
    <3> QED BY <1>1, <2>3, <3>1, <3>2, <3>3 DEF Ring
  <2>6. Agree(p)
    BY <2>3 DEF Agree, OutType
  <2>7. Line(p) = Line(out)
    <3> DEFINE y == Buffered(out)
               x == Buffered(p)
    <3>1. /\ y \in Seq(Chars) /\ Len(y) = out.count
          /\ \A i \in 1..out.count : y[i] = out.buf[Wrap(out.next + i - 1)]
      BY LineFacts
    <3>2. /\ x \in Seq(Chars) /\ Len(x) = out.count - 1
          /\ \A i \in 1..(out.count - 1) : x[i] = out.buf[Wrap(m + i - 1)]
      <4>1. /\ x \in Seq(Chars) /\ Len(x) = p.count
            /\ \A i \in 1..p.count : x[i] = p.buf[Wrap(p.next + i - 1)]
        BY <2>5, LineFacts
      <4> QED BY <2>3, <4>1
    <3>3. InTransmitter(p) = <<c>> /\ InTransmitter(out) = <<>>
      BY <1>1, <2>2, <2>3, NoneAssumption DEF InTransmitter
    <3>4. y[1] = c
      <4>1. 1 \in 1..out.count /\ Wrap(out.next + 1 - 1) = out.next
        BY <1>1, <1>2, SizeFacts DEF Wrap, Offsets
      <4> QED BY <3>1, <4>1 DEF c
    <3>5. ASSUME NEW i \in 1..(out.count - 1) PROVE x[i] = y[i + 1]
      <4>1. /\ i - 1 \in 0..(out.count - 2) /\ i + 1 \in 1..out.count
            /\ m + (i - 1) = m + i - 1 /\ out.next + ((i - 1) + 1) = out.next + (i + 1) - 1
        BY <1>1, <2>2, SizeFacts DEF Offsets
      <4>2. Wrap(m + i - 1) = Wrap(out.next + (i + 1) - 1)
        BY <2>4, <4>1
      <4> QED BY <3>1, <3>2, <4>1, <4>2
    <3>6. out.count \in Nat
      BY <1>1
    <3> HIDE DEF x, y
    <3> DEFINE z == <<c>> \o x
    <3>7. <<c>> \in Seq(Chars) /\ Len(<<c>>) = 1 /\ <<c>>[1] = c
      BY <2>2
    <3>8. /\ z \in Seq(Chars) /\ Len(z) = out.count
          /\ \A i \in 1..out.count : z[i] = IF i <= 1 THEN <<c>>[i] ELSE x[i - 1]
      <4>1. /\ z \in Seq(Chars) /\ Len(z) = 1 + Len(x)
            /\ \A i \in 1..(1 + Len(x)) : z[i] = IF i <= 1 THEN <<c>>[i] ELSE x[i - 1]
        BY <3>2, <3>7, ConcatProperties
      <4>2. 1 + Len(x) = out.count
        BY <3>2, <3>6
      <4> QED BY <4>1, <4>2
    <3> HIDE DEF z
    <3>9. ASSUME NEW i \in 1..out.count PROVE z[i] = y[i]
      <4>1. CASE i = 1
        BY <3>4, <3>7, <3>8, <4>1
      <4>2. CASE i # 1
        <5>1. ~(i <= 1) /\ i - 1 \in 1..(out.count - 1) /\ (i - 1) + 1 = i
          BY <3>6, <4>2
        <5> QED BY <3>5, <3>8, <5>1
      <4> QED BY <4>1, <4>2
    <3>10. z = y
      BY <3>1, <3>8, <3>9, SeqEqual
    <3>11. <<>> \o y = y
      BY <3>1, ConcatEmptySeq
    <3> QED BY <3>3, <3>10, <3>11 DEF Line, x, y, z
  <2> QED BY <2>1, <2>5, <2>6, <2>7
<1>3. CASE ~(out.count > 0)
  <2> DEFINE p == StopSending(out)
  <2>1. out' = p
    BY <1>3 DEF TxInterrupt
  <2>2. /\ p \in OutType
        /\ p.buf = out.buf /\ p.next = 0 /\ p.last = 0 /\ p.count = 0
        /\ ~p.sending /\ ~p.tx /\ p.thr = NONE
    BY <1>1, StopFacts
  <2> HIDE DEF p
  <2>3. Ring(p) /\ Agree(p)
    <3>1. 0 \in Offsets /\ 0 \in 0..BUF_SIZE /\ 0 + 0 = 0
      BY SizeFacts
    <3>2. \A i \in 0..(0 - 1) : p.buf[Wrap(0 + i)] \in Chars
      OBVIOUS
    <3>3. Ring(p)
      BY <2>2, <3>1, <3>2 DEF Ring
    <3>4. Agree(p)
      BY <2>2 DEF Agree, OutType
    <3> QED BY <3>3, <3>4
  <2>4. out.count = 0
    BY <1>1, <1>3, SizeFacts
  <2>5. Buffered(out) = <<>> /\ Buffered(p) = <<>>
    BY <2>2, <2>3, <2>4, LineFacts, EmptySeq
  <2>6. Line(p) = Line(out)
    BY <1>1, <2>2, <2>5 DEF Line, InTransmitter
  <2> QED BY <2>1, <2>3, <2>6
<1> QED BY <1>2, <1>3

-----------------------------------------------------------------------------
(* The input half as a stream of characters.                               *)

\* What was not read yet lies between the two pointers, which never wrap.
InRing(i) ==
  /\ i \in InType
  /\ i.count \in 0..BUF_SIZE /\ i.next \in Nat /\ i.last \in 0..BUF_SIZE
  /\ i.last = i.next + i.count
  /\ \A p \in i.next..(i.last - 1) : i.buf[p] \in Chars

\* What an input half has to give: Unread is Waiting(in).
Waiting(i) == [j \in 1..i.count |-> i.buf[i.next + j - 1]]

LEMMA WaitingFacts ==
  ASSUME NEW i, InRing(i)
  PROVE  /\ Waiting(i) \in Seq(Chars) /\ Len(Waiting(i)) = i.count /\ i.count \in Nat
         /\ \A j \in 1..i.count : Waiting(i)[j] = i.buf[i.next + j - 1]
<1>1. i.count \in Nat /\ i.next \in Nat /\ i.last \in Nat /\ i.last = i.next + i.count
  BY SizeFacts DEF InRing
<1>2. ASSUME NEW j \in 1..i.count PROVE i.buf[i.next + j - 1] \in Chars
  <2>1. i.next + j - 1 \in i.next..(i.last - 1)
    BY <1>1
  <2> QED BY <2>1 DEF InRing
<1>3. /\ Waiting(i) \in [1..i.count -> Chars]
      /\ \A j \in 1..i.count : Waiting(i)[j] = i.buf[i.next + j - 1]
  BY <1>2 DEF Waiting
<1> QED BY <1>1, <1>3, FunctionIsSeq

\* A character that arrives is the last one to be read, unless the buffer is
\* full.
LEMMA RxInterruptLine ==
  ASSUME NEW c \in Chars, RxInterrupt(c), Paced, InRing(in)
  PROVE  /\ InRing(in') /\ UNCHANGED <<out, got>>
         /\ \/ UNCHANGED <<in, outside>> /\ Len(Waiting(in)) = BUF_SIZE
            \/ /\ outside' = FALSE
               /\ Len(Waiting(in)) < BUF_SIZE
               /\ Waiting(in') = Append(Waiting(in), Abs!Translated(c))
<1>1. /\ in \in InType /\ in.count \in 0..BUF_SIZE /\ in.next \in Nat /\ in.last \in 0..BUF_SIZE
      /\ in.last = in.next + in.count
      /\ \A p \in in.next..(in.last - 1) : in.buf[p] \in Chars
      /\ in.buf \in [Offsets -> Chars \cup {NONE}]
  BY DEF InRing, InType
<1>2. CASE in.count = BUF_SIZE
  <2>1. Len(Waiting(in)) = BUF_SIZE
    BY <1>2, WaitingFacts
  <2>2. InRing(in') /\ UNCHANGED <<in, outside, out, got>>
    BY <1>2 DEF RxInterrupt
  <2> QED BY <2>1, <2>2
<1>3. CASE in.count # BUF_SIZE
  <2> DEFINE d == Abs!Translated(c)
             b == [in.buf EXCEPT ![in.last] = d]
             i == [in EXCEPT !.last = in.last + 1, !.count = in.count + 1, !.buf = b]
  <2>1. in.last < BUF_SIZE /\ in.last \in Offsets
    BY <1>1, <1>3, SizeFacts DEF RxInterrupt, Offsets
  <2>2. outside' = FALSE
    <3>1. (in.last \notin Offsets) = FALSE
      BY <2>1
    <3>2. outside' = (in.last \notin Offsets)
      BY <1>3 DEF RxInterrupt
    <3> QED BY <3>1, <3>2
  <2>3. in' = i
    BY <1>3, <2>1 DEF RxInterrupt, Abs!Translated
  <2>4. d \in Chars
    BY SizeFacts DEF Abs!Translated
  <2> HIDE DEF d
  <2>5. b \in [Offsets -> Chars \cup {NONE}] /\ in.last + 1 \in Int /\ in.count + 1 \in Int
        /\ b[in.last] = d /\ \A p \in Offsets : p # in.last => b[p] = in.buf[p]
    BY <1>1, <2>1, <2>4
  <2> HIDE DEF b
  <2>6. /\ i \in InType /\ i.buf = b /\ i.next = in.next
        /\ i.last = in.last + 1 /\ i.count = in.count + 1
    BY <1>1, <2>5 DEF InType
  <2> HIDE DEF i
  <2>7. ASSUME NEW p \in in.next..in.last
        PROVE  p \in Offsets /\ (p # in.last => p \in in.next..(in.last - 1))
    BY <1>1, <2>1, SizeFacts DEF Offsets
  <2>8. InRing(i)
    <3>1. \A p \in in.next..in.last : b[p] \in Chars
      BY <1>1, <2>4, <2>5, <2>7
    <3>2. i.count \in 0..BUF_SIZE /\ i.last \in 0..BUF_SIZE /\ i.last = i.next + i.count
          /\ i.last - 1 = in.last
      BY <1>1, <1>3, <2>1, <2>6, SizeFacts
    <3>3. \A p \in i.next..(i.last - 1) : i.buf[p] \in Chars
      BY <2>6, <3>1, <3>2
    <3> QED BY <1>1, <2>6, <3>2, <3>3 DEF InRing
  <2>9. Waiting(i) = Append(Waiting(in), d)
    <3> DEFINE x == Waiting(in)
               y == Waiting(i)
               z == Append(x, d)
    <3>1. /\ x \in Seq(Chars) /\ Len(x) = in.count /\ in.count \in Nat
          /\ \A j \in 1..in.count : x[j] = in.buf[in.next + j - 1]
      BY WaitingFacts
    <3>2. /\ y \in Seq(Chars) /\ Len(y) = in.count + 1
          /\ \A j \in 1..(in.count + 1) : y[j] = b[in.next + j - 1]
      <4>1. /\ y \in Seq(Chars) /\ Len(y) = i.count
            /\ \A j \in 1..i.count : y[j] = i.buf[i.next + j - 1]
        BY <2>8, WaitingFacts
      <4> QED BY <2>6, <4>1
    <3> HIDE DEF x, y
    <3>3. /\ z \in Seq(Chars) /\ Len(z) = in.count + 1
          /\ \A j \in 1..in.count : z[j] = x[j]
          /\ z[in.count + 1] = d
      BY <2>4, <3>1, AppendProperties
    <3> HIDE DEF z
    <3>4. ASSUME NEW j \in 1..(in.count + 1) PROVE y[j] = z[j]
      <4>1. CASE j = in.count + 1
        <5>1. in.next + j - 1 = in.last
          BY <1>1, <4>1
        <5> QED BY <2>5, <3>2, <3>3, <4>1, <5>1
      <4>2. CASE j # in.count + 1
        <5>1. j \in 1..in.count /\ in.next + j - 1 \in in.next..in.last
              /\ in.next + j - 1 # in.last
          BY <1>1, <3>1, <4>2
        <5>2. in.next + j - 1 \in Offsets
          BY <2>7, <5>1
        <5> QED BY <2>5, <3>1, <3>2, <3>3, <5>1, <5>2
      <4> QED BY <4>1, <4>2
    <3>5. y = z
      BY <3>2, <3>3, <3>4, SeqEqual
    <3> QED BY <3>5 DEF x, y, z
  <2>10. Len(Waiting(in)) < BUF_SIZE
    BY <1>1, <1>3, WaitingFacts, SizeFacts
  <2>11. UNCHANGED <<out, got>>
    BY DEF RxInterrupt
  <2> QED BY <2>2, <2>3, <2>8, <2>9, <2>10, <2>11 DEF d
<1> QED BY <1>2, <1>3 DEF RxInterrupt

\* A read takes the first characters, in their order.
LEMMA ReadLine ==
  ASSUME NEW n \in 0..BUF_SIZE, Read(n), InRing(in)
  PROVE  /\ InRing(in') /\ got' \in Seq(Chars) /\ UNCHANGED <<out, outside>>
         /\ \E k \in 0..BUF_SIZE :
              /\ k <= Len(Waiting(in))
              /\ got' = SubSeq(Waiting(in), 1, k)
              /\ Waiting(in') = SubSeq(Waiting(in), k + 1, Len(Waiting(in)))
<1> DEFINE k == Min({n, in.count})
           m == in.count - k
           x == Waiting(in)
           i == [in EXCEPT !.next = in.next + k, !.count = m]
           r == ResetIfEmpty(i)
<1>1. /\ in \in InType /\ in.count \in 0..BUF_SIZE /\ in.next \in Nat /\ in.last \in 0..BUF_SIZE
      /\ in.last = in.next + in.count
      /\ \A p \in in.next..(in.last - 1) : in.buf[p] \in Chars
  BY DEF InRing
<1>2. k = (IF n <= in.count THEN n ELSE in.count)
  BY <1>1, MinMaxOfTwo
<1>3. got' = [j \in 1..k |-> in.buf[in.next + j - 1]] /\ in' = r /\ UNCHANGED <<out, outside>>
  BY DEF Read, Take
<1> HIDE DEF k
<1>4. k \in 0..BUF_SIZE /\ k <= in.count /\ k \in Nat /\ m \in Nat /\ m <= in.count
      /\ m = in.count - k
  BY <1>1, <1>2, SizeFacts
<1> HIDE DEF m
<1>5. /\ x \in Seq(Chars) /\ Len(x) = in.count /\ in.count \in Nat
      /\ \A j \in 1..in.count : x[j] = in.buf[in.next + j - 1]
  BY WaitingFacts
<1>6. /\ i \in InType /\ i.buf = in.buf /\ i.next = in.next + k
      /\ i.count = m /\ i.last = in.last
  <2> DEFINE l == in.next + k
  <2>1. in \in InType /\ l \in Int /\ m \in Int
    BY <1>1, <1>4
  <2> HIDE DEF l
  <2>2. i = [in EXCEPT !.next = l, !.count = m]
    BY DEF l
  <2>3. i \in InType /\ i.buf = in.buf /\ i.next = l /\ i.count = m /\ i.last = in.last
    BY <2>1, <2>2 DEF InType
  <2> QED BY <2>3 DEF l
<1> HIDE DEF i
<1>7. /\ r \in InType /\ r.buf = in.buf /\ r.count = m
      /\ r.next = (IF m = 0 THEN 0 ELSE in.next + k)
      /\ r.last = (IF m = 0 THEN 0 ELSE in.last)
  <2>1. CASE m = 0
    <3>1. i.count < 1
      BY <1>6, <2>1
    <3>2. r = [i EXCEPT !.last = 0, !.next = 0]
      BY <3>1 DEF ResetIfEmpty
    <3> QED BY <1>6, <2>1, <3>2 DEF InType
  <2>2. CASE m # 0
    <3>1. ~(i.count < 1)
      BY <1>4, <1>6, <2>2
    <3>2. r = i
      BY <3>1 DEF ResetIfEmpty
    <3> QED BY <1>6, <2>2, <3>2
  <2> QED BY <2>1, <2>2
<1> HIDE DEF r
<1>8. InRing(r)
  <2>1. /\ r.count \in 0..BUF_SIZE /\ r.next \in Nat /\ r.last \in 0..BUF_SIZE
        /\ r.last = r.next + r.count
    BY <1>1, <1>4, <1>7, SizeFacts
  <2>2. ASSUME NEW p \in r.next..(r.last - 1) PROVE r.buf[p] \in Chars
    <3>1. p \in in.next..(in.last - 1)
      BY <1>1, <1>4, <1>7
    <3> QED BY <1>1, <1>7, <3>1
  <2> QED BY <1>7, <2>1, <2>2 DEF InRing
<1> DEFINE y == SubSeq(x, 1, k)
           z == SubSeq(x, k + 1, Len(x))
<1>9. /\ y \in Seq(Chars) /\ Len(y) = k /\ \A j \in 1..k : y[j] = x[j]
  <2>1. \A j \in 1..k : x[j] \in Chars
    BY <1>4, <1>5, ElementOfSeq
  <2> HIDE DEF x
  <2>2. /\ y \in Seq(Chars) /\ Len(y) = (IF 1 <= k THEN k - 1 + 1 ELSE 0)
        /\ \A j \in 1..(k - 1 + 1) : y[j] = x[1 + j - 1]
    BY <1>4, <2>1, SubSeqProperties
  <2> HIDE DEF y
  <2> QED BY <1>4, <2>2
<1>10. /\ z \in Seq(Chars) /\ Len(z) = m /\ \A j \in 1..m : z[j] = x[k + j]
  <2>1. /\ \A j \in (k + 1)..Len(x) : x[j] \in Chars
        /\ k + 1 \in Int /\ Len(x) \in Int
    BY <1>4, <1>5, ElementOfSeq
  <2> HIDE DEF x
  <2>2. /\ z \in Seq(Chars)
        /\ Len(z) = (IF k + 1 <= Len(x) THEN Len(x) - (k + 1) + 1 ELSE 0)
        /\ \A j \in 1..(Len(x) - (k + 1) + 1) : z[j] = x[(k + 1) + j - 1]
    BY <2>1, SubSeqProperties
  <2> HIDE DEF z
  <2>3. Len(x) - (k + 1) + 1 = m /\ Len(z) = m
    BY <1>4, <1>5, <2>2
  <2>4. ASSUME NEW j \in 1..m PROVE z[j] = x[k + j]
    <3>1. (k + 1) + j - 1 = k + j
      BY <1>4
    <3> QED BY <2>2, <2>3, <3>1
  <2> QED BY <2>2, <2>3, <2>4
<1> HIDE DEF x, y, z
<1>11. got' = y /\ got' \in Seq(Chars)
  <2> DEFINE g == [j \in 1..k |-> in.buf[in.next + j - 1]]
  <2>1. \A j \in 1..k : g[j] = x[j] /\ x[j] \in Chars
    BY <1>4, <1>5, ElementOfSeq
  <2>2. g \in [1..k -> Chars]
    BY <2>1, <1>4, <1>5
  <2>3. \A j \in 1..k : g[j] = y[j]
    BY <1>9, <2>1
  <2> HIDE DEF g
  <2>4. g \in Seq(Chars) /\ Len(g) = k
    BY <1>4, <2>2, FunctionIsSeq
  <2>5. g = y
    BY <1>9, <2>3, <2>4, SeqEqual
  <2> QED BY <1>3, <1>9, <2>5 DEF g
<1>12. Waiting(r) = z
  <2> DEFINE w == Waiting(r)
  <2>1. /\ w \in Seq(Chars) /\ Len(w) = m
        /\ \A j \in 1..m : w[j] = in.buf[r.next + j - 1]
    BY <1>7, <1>8, WaitingFacts
  <2> HIDE DEF w
  <2>2. ASSUME NEW j \in 1..m PROVE w[j] = z[j]
    <3>1. k + j \in 1..in.count /\ r.next + j - 1 = in.next + (k + j) - 1
      BY <1>1, <1>4, <1>7
    <3> QED BY <1>5, <1>10, <2>1, <3>1
  <2>3. w = z
    BY <1>10, <2>1, <2>2, SeqEqual
  <2> QED BY <2>3 DEF w
<1>13. k <= Len(x)
  BY <1>4, <1>5
<1> QED BY <1>3, <1>4, <1>8, <1>11, <1>12, <1>13 DEF x, y, z

-----------------------------------------------------------------------------
(* What holds while nothing overruns a buffer.                             *)

PacedInv ==
  /\ Paced
  /\ InRing(in) /\ Ring(out) /\ Agree(out)
  /\ outside = FALSE
  /\ got \in Seq(Chars)
  /\ calls \in [arrived : BOOLEAN, written : BOOLEAN]

LEMMA PacedInit == Paced /\ Init => PacedInv
<1> SUFFICES ASSUME Paced, Init PROVE PacedInv
  OBVIOUS
<1>1. [p \in Offsets |-> NONE] \in [Offsets -> Chars \cup {NONE}]
  OBVIOUS
<1>2. 0 \in Offsets /\ 0 \in 0..BUF_SIZE /\ 0 + 0 = 0 /\ 0..(0 - 1) = {}
  BY SizeFacts
<1>3. InRing(in)
  <2>1. in \in InType /\ in.next = 0 /\ in.last = 0 /\ in.count = 0
    BY <1>1 DEF Init, InType
  <2> QED BY <1>2, <2>1 DEF InRing
<1>4. Ring(out)
  <2>1. out \in OutType /\ out.next = 0 /\ out.last = 0 /\ out.count = 0
    BY <1>1, <1>2 DEF Init, OutType
  <2> QED BY <1>2, <2>1 DEF Ring
<1>5. Agree(out)
  BY AgreeInit DEF AgreeInv
<1>6. outside = FALSE /\ got \in Seq(Chars) /\ calls \in [arrived : BOOLEAN, written : BOOLEAN]
  BY EmptySeq DEF Init
<1> QED BY <1>3, <1>4, <1>5, <1>6 DEF PacedInv

\* Every step keeps the invariant and is one of the abstract streams or changes
\* nothing of theirs.
LEMMA PacedStep ==
  PacedInv /\ [Next]_vars => PacedInv' /\ [Abs!AbsNext]_(Abs!absVars)
<1> SUFFICES ASSUME PacedInv, [Next]_vars PROVE PacedInv' /\ [Abs!AbsNext]_(Abs!absVars)
  OBVIOUS
<1>1. /\ Paced /\ InRing(in) /\ Ring(out) /\ Agree(out)
      /\ outside = FALSE /\ got \in Seq(Chars)
      /\ calls \in [arrived : BOOLEAN, written : BOOLEAN]
  BY DEF PacedInv
<1>2. /\ Unread = Waiting(in) /\ Unsent = Line(out)
      /\ Unread' = Waiting(in') /\ Unsent' = Line(out')
  BY DEF Unread, Waiting, Unsent, Line, InTransmitter, Buffered
<1>3. ASSUME NEW c \in Chars, RxInterrupt(c)
      PROVE  PacedInv' /\ [Abs!AbsNext]_(Abs!absVars)
  <2>1. /\ InRing(in') /\ UNCHANGED <<out, got>>
        /\ \/ UNCHANGED <<in, outside>> /\ Len(Waiting(in)) = BUF_SIZE
           \/ /\ outside' = FALSE
              /\ Len(Waiting(in)) < BUF_SIZE
              /\ Waiting(in') = Append(Waiting(in), Abs!Translated(c))
    BY <1>1, <1>3, RxInterruptLine
  <2>2. calls' = [calls EXCEPT !.arrived = ~@]
    BY <1>3 DEF RxInterrupt
  <2>3. PacedInv'
    <3>1. calls' \in [arrived : BOOLEAN, written : BOOLEAN]
      BY <1>1, <2>2
    <3> QED BY <1>1, <2>1, <3>1 DEF PacedInv
  <2>4. CASE UNCHANGED <<in, outside>> /\ Len(Waiting(in)) = BUF_SIZE
    <3>1. ~(Len(Unread) < BUF_SIZE) /\ Unread' = Unread /\ UNCHANGED <<got, Unsent>>
      BY <1>2, <2>1, <2>4, SizeFacts
    <3>2. Abs!AbsReceive(c)
      BY <2>2, <3>1 DEF Abs!AbsReceive, Abs!Arrives
    <3> QED BY <2>3, <3>2 DEF Abs!AbsNext
  <2>5. CASE Len(Waiting(in)) < BUF_SIZE /\ Waiting(in') = Append(Waiting(in), Abs!Translated(c))
    <3>1. Len(Unread) < BUF_SIZE /\ Unread' = Append(Unread, Abs!Translated(c))
          /\ UNCHANGED <<got, Unsent>>
      BY <1>2, <2>1, <2>5
    <3>2. Abs!AbsReceive(c)
      BY <2>2, <3>1 DEF Abs!AbsReceive, Abs!Arrives
    <3> QED BY <2>3, <3>2 DEF Abs!AbsNext
  <2> QED BY <2>1, <2>4, <2>5
<1>4. CASE TxInterrupt
  <2>1. Ring(out') /\ Agree(out') /\ Line(out') = Line(out)
    BY <1>1, <1>4, TxInterruptLine
  <2>2. UNCHANGED <<in, got, outside, calls>>
    BY <1>4 DEF TxInterrupt
  <2>3. PacedInv'
    BY <1>1, <2>1, <2>2 DEF PacedInv
  <2>4. UNCHANGED Abs!absVars
    BY <1>2, <2>1, <2>2 DEF Abs!absVars
  <2> QED BY <2>3, <2>4
<1>5. CASE Transmitted
  <2>1. Ring(out') /\ Agree(out') /\ Line(out) # <<>> /\ Line(out') = Tail(Line(out))
    BY <1>1, <1>5, TransmittedLine
  <2>2. UNCHANGED <<in, got, outside, calls>>
    BY <1>5 DEF Transmitted
  <2>3. PacedInv'
    BY <1>1, <2>1, <2>2 DEF PacedInv
  <2>4. Abs!AbsSend
    BY <1>2, <2>1, <2>2 DEF Abs!AbsSend
  <2> QED BY <2>3, <2>4 DEF Abs!AbsNext
<1>6. ASSUME NEW n \in 0..BUF_SIZE, Read(n)
      PROVE  PacedInv' /\ [Abs!AbsNext]_(Abs!absVars)
  <2>1. /\ InRing(in') /\ got' \in Seq(Chars) /\ UNCHANGED <<out, outside>>
        /\ \E k \in 0..BUF_SIZE :
             /\ k <= Len(Waiting(in))
             /\ got' = SubSeq(Waiting(in), 1, k)
             /\ Waiting(in') = SubSeq(Waiting(in), k + 1, Len(Waiting(in)))
    BY <1>1, <1>6, ReadLine
  <2>2. UNCHANGED calls
    BY <1>6 DEF Read
  <2>3. PacedInv'
    BY <1>1, <2>2, <2>1 DEF PacedInv
  <2>4. \E k \in 0..BUF_SIZE : Abs!AbsRead(k)
    BY <1>2, <2>2, <2>1 DEF Abs!AbsRead
  <2> QED BY <2>3, <2>4 DEF Abs!AbsNext
<1>7. ASSUME NEW s \in Strings, WriteString(s)
      PROVE  PacedInv' /\ [Abs!AbsNext]_(Abs!absVars)
  <2>1. /\ Ring(out') /\ Agree(out') /\ outside' = FALSE
        /\ Line(out') = Line(out) \o Abs!WithCR(s)
        /\ UNCHANGED <<in, got>>
    BY <1>1, <1>7, WriteStringLine
  <2>2. calls' = [calls EXCEPT !.written = ~@]
    BY <1>7 DEF WriteString
  <2>3. PacedInv'
    <3>1. calls' \in [arrived : BOOLEAN, written : BOOLEAN]
      BY <1>1, <2>2
    <3> QED BY <1>1, <2>1, <3>1 DEF PacedInv
  <2>4. Abs!AbsPuts(s)
    BY <1>2, <2>2, <2>1 DEF Abs!AbsPuts, Abs!Written
  <2> QED BY <2>3, <2>4 DEF Abs!AbsNext
<1>8. ASSUME NEW b \in Buffers, WriteBuffer(b)
      PROVE  PacedInv' /\ [Abs!AbsNext]_(Abs!absVars)
  <2>1. /\ Ring(out') /\ Agree(out') /\ outside' = FALSE
        /\ \E n \in 0..Len(b) :
             /\ n < Len(b) => Len(Line(out)) + n >= BUF_SIZE
             /\ Line(out') = Line(out) \o SubSeq(b, 1, n)
        /\ UNCHANGED <<in, got>>
    BY <1>1, <1>8, WriteBufferLine
  <2>2. calls' = [calls EXCEPT !.written = ~@]
    BY <1>8 DEF WriteBuffer
  <2>3. PacedInv'
    <3>1. calls' \in [arrived : BOOLEAN, written : BOOLEAN]
      BY <1>1, <2>2
    <3> QED BY <1>1, <2>1, <3>1 DEF PacedInv
  <2>4. Abs!AbsWrites(b)
    BY <1>2, <2>2, <2>1 DEF Abs!AbsWrites, Abs!Written
  <2> QED BY <2>3, <2>4 DEF Abs!AbsNext
<1>9. CASE UNCHANGED vars
  <2>1. UNCHANGED <<in, out, got, outside, calls>>
    BY <1>9 DEF vars
  <2>2. PacedInv'
    BY <1>1, <2>1 DEF PacedInv
  <2>3. UNCHANGED Abs!absVars
    BY <1>2, <2>1 DEF Abs!absVars
  <2> QED BY <2>2, <2>3
<1> QED BY <1>3, <1>4, <1>5, <1>6, <1>7, <1>8, <1>9 DEF Next

\* The type invariant, while nothing overruns a buffer: no pointer leaves its
\* buffer, and no count exceeds its size (sio.c:152-155, 410-421, 493-508).
THEOREM SioTypeOK == Paced /\ Spec => []TypeOK
<1>1. PacedInv => TypeOK
  <2> SUFFICES ASSUME PacedInv PROVE TypeOK
    OBVIOUS
  <2>1. /\ in \in InType /\ in.count \in 0..BUF_SIZE /\ in.next \in Nat /\ in.last \in 0..BUF_SIZE
        /\ in.last = in.next + in.count
    BY DEF PacedInv, InRing
  <2>2. /\ DOMAIN in = {"buf", "next", "last", "count"} /\ Half(in.buf)
    BY <2>1 DEF InType, Half
  <2>3. in.next \in 0..BUF_SIZE
    BY <2>1, SizeFacts
  <2>4. /\ out \in OutType /\ out.count \in 0..BUF_SIZE /\ out.last \in Offsets
    BY DEF PacedInv, Ring
  <2>5. /\ DOMAIN out = {"buf", "next", "last", "count", "sending", "tx", "thr"}
        /\ Half(out.buf) /\ out.next \in Offsets
        /\ {out.sending, out.tx} \subseteq BOOLEAN /\ out.thr \in Chars \cup {NONE}
    BY <2>4 DEF OutType, Half
  <2>6. out.last \in 0..BUF_SIZE
    BY <2>4, SizeFacts DEF Offsets
  <2>7. outside \in BOOLEAN /\ got \in Seq(Chars) /\ calls \in [arrived : BOOLEAN, written : BOOLEAN]
    BY DEF PacedInv
  <2> QED BY <2>1, <2>2, <2>3, <2>4, <2>5, <2>6, <2>7 DEF TypeOK
<1> QED BY <1>1, PacedInit, PacedStep, PTL DEF Spec

\* Every counted character has its place between the two pointers of its
\* buffer, for every size of the buffers (sio.c:152-155, 166-177, 410-421,
\* 537-545).
THEOREM PointersAgreeHolds == Paced /\ Spec => []PointersAgree
<1>1. PacedInv => PointersAgree
  <2> SUFFICES ASSUME PacedInv PROVE PointersAgree
    OBVIOUS
  <2>1. in.last = in.next + in.count
    BY DEF PacedInv, InRing
  <2>2. /\ out.next + out.count = out.last \/ out.next + out.count = out.last + BUF_SIZE
        /\ out.next \in Int /\ out.count \in Int /\ out.last \in Int
    BY SizeFacts DEF PacedInv, Ring, OutType, Offsets
  <2>3. 0 % BUF_SIZE = 0 /\ BUF_SIZE % BUF_SIZE = 0
    <3>1. /\ 0 \in 0..(2 * BUF_SIZE - 1) /\ BUF_SIZE \in 0..(2 * BUF_SIZE - 1)
          /\ Wrap(0) = 0 /\ Wrap(BUF_SIZE) = 0
      BY SizeFacts DEF Wrap
    <3> QED BY <3>1, WrapFacts
  <2>4. \/ out.next + out.count - out.last = 0
        \/ out.next + out.count - out.last = BUF_SIZE
    BY <2>2, SizeFacts
  <2> QED BY <2>1, <2>3, <2>4 DEF PointersAgree
<1> QED BY <1>1, PacedInit, PacedStep, PTL DEF Spec

\* Both directions are the FIFO streams of SioAbs: nothing is lost while there is
\* room for it, sent twice or overtaken, for every size of the buffers
\* and everything that is written (sio.c:140-185, 400-560).
THEOREM ImplementsStreams == Paced /\ Spec => Refines
<1>1. Paced /\ Init => Abs!AbsInit
  <2> SUFFICES ASSUME Paced, Init PROVE Abs!AbsInit
    OBVIOUS
  <2>1. /\ InRing(in) /\ Ring(out) /\ in.count = 0 /\ out.count = 0 /\ out.thr = NONE /\ got = <<>>
        /\ calls = [arrived |-> FALSE, written |-> FALSE]
    BY PacedInit DEF PacedInv, Init
  <2>2. Waiting(in) = <<>> /\ Buffered(out) = <<>>
    BY <2>1, WaitingFacts, LineFacts, EmptySeq
  <2>3. Unread = <<>> /\ Unsent = <<>>
    <3>1. Unread = Waiting(in) /\ Unsent = InTransmitter(out) \o Buffered(out)
      BY DEF Unread, Waiting, Unsent, InTransmitter, Buffered
    <3>2. InTransmitter(out) = <<>>
      BY <2>1 DEF InTransmitter
    <3> QED BY <2>2, <3>1, <3>2
  <2> QED BY <2>1, <2>3 DEF Abs!AbsInit
<1> QED BY <1>1, PacedInit, PacedStep, PTL DEF Spec, Refines, Abs!AbsSpec

=============================================================================
