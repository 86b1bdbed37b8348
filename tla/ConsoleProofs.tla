--------------------------- MODULE ConsoleProofs ----------------------------
(***************************************************************************)
(* The console: the keyboard's circular buffer gives its readers what was  *)
(* typed, for every size of the buffer, and the cursor stays in the region *)
(* of the screen that scrolls, for every size of the screen.               *)
(*                                                                         *)
(* What waits in the buffer is read as a sequence, of the places from      *)
(* next_char on, by the arithmetic of one wrap.                            *)
(***************************************************************************)
EXTENDS MCTerminal, InductionFacts

-----------------------------------------------------------------------------
(* Places in the buffer.                                                   *)

\* n places behind p.
Place(p, n) == IF p + n < C_BUFSIZE THEN p + n ELSE p + n - C_BUFSIZE

LEMMA BufferSize ==
  /\ C_BUFSIZE \in Nat /\ C_BUFSIZE >= 2 /\ C_BUFSIZE \in Int
  /\ \A p \in Offsets : p \in Nat /\ p < C_BUFSIZE
  /\ \A p \in Nat : p < C_BUFSIZE => p \in Offsets
BY ConsoleAssumption DEF Offsets

LEMMA PlaceFacts ==
  ASSUME NEW p \in Offsets
  PROVE  /\ \A n \in 0..C_BUFSIZE : Place(p, n) \in Offsets
         /\ Place(p, 0) = p
         /\ \A n \in 1..C_BUFSIZE : Increment(Place(p, n - 1)) = Place(p, n)
         /\ \A m, n \in 0..(C_BUFSIZE - 1) : Place(p, m) = Place(p, n) => m = n
         /\ \A m, n \in 0..C_BUFSIZE : m + n <= C_BUFSIZE => Place(Place(p, m), n) = Place(p, m + n)
BY BufferSize DEF Offsets, Place, Increment

\* What the loop of c_getchar calls comes to.
LEMMA AheadIs ==
  ASSUME next_char \in Offsets, NEW n \in 0..C_BUFSIZE
  PROVE  Ahead(n) = Place(next_char, n)
<1> DEFINE B == 1..n
           G == [q \in Offsets \X B |-> Increment(q[1])]
           s == [i \in 1..n |-> i]
           F == CHOOSE f : f = [T \in SUBSET (1..n) |->
                  IF T = {} THEN next_char ELSE Increment(f[T \ {Max(T)}])]
<1>1. n \in Nat /\ s \in [1..n -> B] /\ DOMAIN s = 1..n
  BY BufferSize
<1>2. G \in [Offsets \X B -> Offsets]
  BY BufferSize DEF Increment, Offsets
<1>3. Ahead(n) = F[1..n]
  BY DEF Ahead, FoldLeft, MapThenFoldSet
<1>4. F = [T \in SUBSET (1..n) |-> IF T = {} THEN next_char ELSE Increment(F[T \ {Max(T)}])]
  <2>1. PICK f \in [SUBSET (1..n) -> Offsets] : IsFold(f, G, next_char, s, n)
    <3> HIDE DEF G, B, s
    <3> QED BY <1>1, <1>2, FoldExists
  <2>2. ASSUME NEW T \in SUBSET (1..n), T # {}
        PROVE  G[<<f[T \ {Max(T)}], s[Max(T)]>>] = Increment(f[T \ {Max(T)}])
    <3>1. Max(T) \in 1..n /\ T \ {Max(T)} \in SUBSET (1..n)
      BY <1>1, <2>2, MaxFacts
    <3> QED BY <3>1
  <2> HIDE DEF G, s
  <2>3. f = [T \in SUBSET (1..n) |-> IF T = {} THEN next_char ELSE Increment(f[T \ {Max(T)}])]
    BY <2>1, <2>2 DEF IsFold
  <2>4. \E g : g = [T \in SUBSET (1..n) |->
                      IF T = {} THEN next_char ELSE Increment(g[T \ {Max(T)}])]
    BY <2>3
  <2> QED BY <2>4
<1> HIDE DEF F
<1>5. IsFoldIn(Offsets, F, G, next_char, s, n)
  <2>1. F[{}] = next_char
    BY <1>4
  <2>2. ASSUME NEW T \in SUBSET (1..n), T # {}, F[T \ {Max(T)}] \in Offsets
        PROVE  F[T] = G[<<F[T \ {Max(T)}], s[Max(T)]>>]
    <3>1. Max(T) \in 1..n
      BY <1>1, <2>2, MaxFacts
    <3>2. F[T] = Increment(F[T \ {Max(T)}])
      BY <1>4, <2>2
    <3> QED BY <2>2, <3>1, <3>2
  <2> HIDE DEF G, s
  <2> QED BY <2>1, <2>2 DEF IsFoldIn
<1> HIDE DEF B, G, s
<1>6. PICK h \in [0..n -> Offsets] : IsFoldChain(h, G, next_char, s, n) /\ F[1..n] = h[n]
  <2>1. IsFoldEnd(Offsets, F[1..n], G, next_char, s, n)
    BY <1>1, <1>2, <1>5, FoldChain
  <2> QED BY <2>1 DEF IsFoldEnd
<1>7. h[0] = next_char /\ \A k \in 1..n : h[k] = Increment(h[k - 1])
  <2>1. ASSUME NEW k \in 1..n PROVE h[k] = Increment(h[k - 1])
    <3>1. h[k] = G[<<h[k - 1], s[k]>>] /\ k - 1 \in 0..n /\ s[k] \in B
      BY <1>1, <1>6 DEF IsFoldChain
    <3> QED BY <3>1 DEF G
  <2> QED BY <1>6, <2>1 DEF IsFoldChain
<1> DEFINE T == {k \in 0..n : h[k] = Place(next_char, k)}
<1>8. 0 \in T
  BY <1>1, <1>7, PlaceFacts
<1>9. ASSUME NEW k \in 0..(n - 1), k \in T PROVE k + 1 \in T
  <2>1. k + 1 \in 1..n /\ k + 1 \in 0..n /\ (k + 1) - 1 = k /\ k + 1 \in 1..C_BUFSIZE
    BY BufferSize
  <2>2. Increment(Place(next_char, k)) = Place(next_char, k + 1)
    BY <2>1, PlaceFacts
  <2>3. h[k + 1] = Increment(h[k])
    BY <1>7, <2>1
  <2> QED BY <1>9, <2>1, <2>2, <2>3
<1> HIDE DEF T
<1>10. n \in T
  <2>1. 0..n \subseteq T
    BY <1>1, <1>8, <1>9, IntervalInduction
  <2> QED BY <1>1, <2>1
<1> QED BY <1>3, <1>6, <1>10 DEF T

LEMMA QueueLength ==
  ASSUME next_char \in Offsets, next_space \in Offsets
  PROVE  /\ InputQueue \in 0..(C_BUFSIZE - 1)
         /\ next_space = Place(next_char, InputQueue)
         /\ InputQueue = 0 <=> next_char = next_space
         /\ Room <=> InputQueue + 1 < C_BUFSIZE
BY BufferSize DEF Offsets, InputQueue, Place, Room, Increment

-----------------------------------------------------------------------------
(* The keyboard.                                                           *)

\* What waits between the pointers are characters.
KeyboardInv ==
  /\ TypeOK
  /\ \A i \in 0..(InputQueue - 1) : input_buffer[Place(next_char, i)] \in Chars

Typed == [i \in 1..InputQueue |-> input_buffer[Ahead(i - 1)]]

LEMMA TypedIs ==
  KeyboardInv =>
    /\ Typed = [i \in 1..InputQueue |-> input_buffer[Place(next_char, i - 1)]]
    /\ InputQueue \in 0..(C_BUFSIZE - 1)
    /\ Typed \in Seq(Chars) /\ Len(Typed) = InputQueue
<1> SUFFICES ASSUME KeyboardInv
             PROVE  /\ Typed = [i \in 1..InputQueue |-> input_buffer[Place(next_char, i - 1)]]
                    /\ InputQueue \in 0..(C_BUFSIZE - 1)
                    /\ Typed \in Seq(Chars) /\ Len(Typed) = InputQueue
  OBVIOUS
<1> DEFINE q == InputQueue
<1>1. next_char \in Offsets /\ next_space \in Offsets
  BY DEF KeyboardInv, TypeOK
<1>2. q \in 0..(C_BUFSIZE - 1)
  BY <1>1, QueueLength
<1> HIDE DEF q
<1>3. ASSUME NEW i \in 1..q
      PROVE  Ahead(i - 1) = Place(next_char, i - 1) /\ input_buffer[Place(next_char, i - 1)] \in Chars
  <2>1. i - 1 \in 0..C_BUFSIZE /\ i - 1 \in 0..(q - 1)
    BY <1>2, BufferSize
  <2> QED BY <1>1, <2>1, AheadIs DEF KeyboardInv, q
<1>4. Typed = [i \in 1..q |-> input_buffer[Place(next_char, i - 1)]]
  BY <1>3 DEF Typed, q
<1>5. Typed \in [1..q -> Chars] /\ q \in Nat
  BY <1>2, <1>3, <1>4, BufferSize
<1> QED BY <1>2, <1>4, <1>5, FunctionIsSeq DEF q

LEMMA TypedIsNext ==
  (KeyboardInv =>
    /\ Typed = [i \in 1..InputQueue |-> input_buffer[Place(next_char, i - 1)]]
    /\ InputQueue \in 0..(C_BUFSIZE - 1)
    /\ Typed \in Seq(Chars) /\ Len(Typed) = InputQueue)'
BY TypedIs, PTL

\* What a reader that asks for no more than there is finds in the buffer.
LEMMA GetcharsFacts ==
  ASSUME KeyboardInv, NEW n \in 0..InputQueue, Getchars(n)
  PROVE  /\ got' = SubSeq(Typed, 1, n) /\ got' \in Seq(Chars)
         /\ next_char' = Place(next_char, n) /\ next_char' \in Offsets
         /\ UNCHANGED <<input_buffer, next_space, shift, control>> /\ lost' = FALSE
<1> DEFINE q == InputQueue
<1>1. /\ Typed = [i \in 1..q |-> input_buffer[Place(next_char, i - 1)]]
      /\ q \in 0..(C_BUFSIZE - 1) /\ Typed \in Seq(Chars) /\ Len(Typed) = q
  BY TypedIs
<1>2. next_char \in Offsets
  BY DEF KeyboardInv, TypeOK
<1> HIDE DEF q
<1>3. n \in 0..q /\ n \in 0..C_BUFSIZE /\ n \in Nat
  BY <1>1, BufferSize DEF q
<1>4. ASSUME NEW i \in 1..n
      PROVE  input_buffer[Ahead(i - 1)] = Typed[i] /\ i \in 1..q /\ Typed[i] \in Chars
  <2>1. i \in 1..q /\ i - 1 \in 0..C_BUFSIZE
    BY <1>1, <1>3, BufferSize
  <2> QED BY <1>1, <1>2, <2>1, AheadIs, ElementOfSeq
<1> DEFINE g == [i \in 1..n |-> input_buffer[Ahead(i - 1)]]
           b == SubSeq(Typed, 1, n)
<1>5. g \in Seq(Chars) /\ Len(g) = n /\ \A i \in 1..n : g[i] = Typed[i]
  <2>1. g \in [1..n -> Chars]
    BY <1>4
  <2>2. \A i \in 1..n : g[i] = Typed[i]
    BY <1>4
  <2> HIDE DEF g
  <2> QED BY <1>3, <2>1, <2>2, FunctionIsSeq
<1>6. b \in Seq(Chars) /\ Len(b) = n /\ \A i \in 1..n : b[i] = Typed[i]
  <2>1. 1 \in Int /\ n \in Int /\ \A i \in 1..n : Typed[i] \in Chars
    BY <1>3, <1>4
  <2>2. /\ b \in Seq(Chars) /\ Len(b) = IF 1 <= n THEN n - 1 + 1 ELSE 0
        /\ \A i \in 1..(n - 1 + 1) : b[i] = Typed[1 + i - 1]
    BY <2>1, SubSeqProperties
  <2> HIDE DEF b
  <2>3. n - 1 + 1 = n /\ (~(1 <= n) => n = 0) /\ \A i \in 1..n : 1 + i - 1 = i
    BY <1>3
  <2> QED BY <2>2, <2>3
<1> HIDE DEF g, b
<1>7. g = b
  BY <1>5, <1>6, SeqEqual
<1>8. /\ got' = g /\ next_char' = Ahead(n) /\ lost' = FALSE
      /\ UNCHANGED <<input_buffer, next_space, shift, control>>
  BY DEF Getchars, g
<1>9. Ahead(n) = Place(next_char, n) /\ Place(next_char, n) \in Offsets
  BY <1>2, <1>3, AheadIs, PlaceFacts
<1> QED BY <1>5, <1>7, <1>8, <1>9 DEF b

\* How long the queue is then.
LEMMA QueueShrinks ==
  ASSUME next_char \in Offsets, next_space \in Offsets, NEW n \in 0..InputQueue,
         next_char' = Place(next_char, n), next_space' = next_space
  PROVE  InputQueue' = InputQueue - n
BY BufferSize DEF Offsets, InputQueue, Place

LEMMA QueueGrows ==
  ASSUME next_char \in Offsets, next_space \in Offsets, Room,
         next_char' = next_char, next_space' = Increment(next_space)
  PROVE  InputQueue' = InputQueue + 1 /\ next_space' \in Offsets
BY BufferSize DEF Offsets, InputQueue, Increment, Room

LEMMA GetcharsKeeps ==
  ASSUME KeyboardInv, NEW n \in 0..InputQueue, Getchars(n), booting' \in BOOLEAN
  PROVE  KeyboardInv' /\ Typed' = SubSeq(Typed, n + 1, Len(Typed))
<1> DEFINE q == InputQueue
<1>1. /\ got' \in Seq(Chars)
      /\ next_char' = Place(next_char, n) /\ next_char' \in Offsets /\ lost' \in BOOLEAN
      /\ UNCHANGED <<input_buffer, next_space, shift, control>>
  BY GetcharsFacts
<1>2. next_char \in Offsets /\ next_space \in Offsets
  BY DEF KeyboardInv, TypeOK
<1>3. /\ Typed = [i \in 1..q |-> input_buffer[Place(next_char, i - 1)]]
      /\ q \in 0..(C_BUFSIZE - 1) /\ Typed \in Seq(Chars) /\ Len(Typed) = q
  BY TypedIs
<1>4. InputQueue' = q - n
  BY <1>1, <1>2, QueueShrinks
<1>5. \A i \in 0..(q - 1) : input_buffer[Place(next_char, i)] \in Chars
  BY DEF KeyboardInv
<1> HIDE DEF q
<1>6. n \in 0..q
  BY DEF q
<1>7. \A i \in 0..(q - n) : Place(next_char', i) = Place(next_char, n + i)
  <2> TAKE i \in 0..(q - n)
  <2>1. n \in 0..C_BUFSIZE /\ i \in 0..C_BUFSIZE /\ n + i <= C_BUFSIZE
    BY <1>3, <1>6, BufferSize
  <2>2. Place(Place(next_char, n), i) = Place(next_char, n + i)
    BY <1>2, <2>1, PlaceFacts
  <2> QED BY <1>1, <2>2
<1>8. KeyboardInv'
  <2>1. TypeOK'
    BY <1>1 DEF KeyboardInv, TypeOK
  <2>2. ASSUME NEW i \in 0..((q - n) - 1)
        PROVE  input_buffer'[Place(next_char', i)] \in Chars
    <3>1. i \in 0..(q - n) /\ n + i \in 0..(q - 1)
      BY <1>3, <1>6, BufferSize
    <3> QED BY <1>1, <1>5, <1>7, <3>1
  <2> QED BY <1>4, <2>1, <2>2 DEF KeyboardInv
<1>9. /\ Typed' = [i \in 1..(q - n) |-> input_buffer'[Place(next_char', i - 1)]]
      /\ Typed' \in Seq(Chars) /\ Len(Typed') = q - n
  BY <1>4, <1>8, TypedIsNext
<1> DEFINE b == SubSeq(Typed, n + 1, Len(Typed))
<1>10. b \in Seq(Chars) /\ Len(b) = q - n /\ \A i \in 1..(q - n) : b[i] = Typed[n + i]
  <2>1. n + 1 \in Int /\ q \in Int /\ n \in Int /\ \A i \in (n + 1)..q : Typed[i] \in Chars
    BY <1>3, <1>6, BufferSize, ElementOfSeq
  <2>2. /\ b \in Seq(Chars) /\ Len(b) = IF n + 1 <= q THEN q - (n + 1) + 1 ELSE 0
        /\ \A i \in 1..(q - (n + 1) + 1) : b[i] = Typed[(n + 1) + i - 1]
    BY <1>3, <2>1, SubSeqProperties
  <2> HIDE DEF b
  <2>3. /\ q - (n + 1) + 1 = q - n /\ (~(n + 1 <= q) => q - n = 0)
        /\ \A i \in 1..(q - n) : (n + 1) + i - 1 = n + i
    BY <1>6, <2>1
  <2> QED BY <2>2, <2>3
<1> HIDE DEF b
<1>11. \A i \in 1..(q - n) : Typed'[i] = b[i]
  <2> TAKE i \in 1..(q - n)
  <2>1. n + i \in 1..q /\ i - 1 \in 0..(q - n) /\ n + (i - 1) = (n + i) - 1
    BY <1>3, <1>6, BufferSize
  <2>2. Typed'[i] = input_buffer[Place(next_char, n + (i - 1))]
    BY <1>1, <1>7, <1>9, <2>1
  <2>3. b[i] = input_buffer[Place(next_char, (n + i) - 1)]
    BY <1>3, <1>10, <2>1
  <2> QED BY <2>1, <2>2, <2>3
<1>12. Typed' = b
  BY <1>9, <1>10, <1>11, SeqEqual
<1> QED BY <1>8, <1>12 DEF b

\* What a key does to the buffer.
LEMMA ScanCodeKeeps ==
  ASSUME KeyboardInv, NEW code \in Codes, InputScanCode(code),
         UNCHANGED <<next_char, booting, got>>
  PROVE  /\ KeyboardInv'
         /\ Typed' = IF code.press /\ code.key \in Keys /\ Room
                     THEN Append(Typed, Char(code.key)) ELSE Typed
<1> DEFINE q == InputQueue
           x == Char(code.key)
           p == Place(next_char, q)
<1>1. /\ input_buffer \in [Offsets -> Chars \cup {NONE}]
      /\ next_char \in Offsets /\ next_space \in Offsets
      /\ shift \in BOOLEAN /\ control \in BOOLEAN /\ booting \in BOOLEAN /\ got \in Seq(Chars)
      /\ lost \in BOOLEAN
      /\ \A i \in 0..(q - 1) : input_buffer[Place(next_char, i)] \in Chars
  BY DEF KeyboardInv, TypeOK
<1>2. /\ Typed = [i \in 1..q |-> input_buffer[Place(next_char, i - 1)]]
      /\ q \in 0..(C_BUFSIZE - 1) /\ Typed \in Seq(Chars) /\ Len(Typed) = q
      /\ next_space = p
  BY <1>1, TypedIs, QueueLength
<1>3. shift' \in BOOLEAN /\ control' \in BOOLEAN /\ lost' \in BOOLEAN
  BY <1>1 DEF InputScanCode, Codes
<1>4. CASE ~(code.press /\ code.key \in Keys /\ Room)
  <2>1. UNCHANGED <<input_buffer, next_space, next_char, booting, got>>
    BY <1>4 DEF InputScanCode
  <2>2. InputQueue' = InputQueue
    BY <2>1 DEF InputQueue
  <2>3. TypeOK'
    BY <1>1, <1>3, <2>1 DEF TypeOK
  <2>4. KeyboardInv'
    BY <1>1, <2>1, <2>2, <2>3 DEF KeyboardInv
  <2>5. Typed' = [i \in 1..q |-> input_buffer'[Place(next_char', i - 1)]]
    BY <2>2, <2>4, TypedIsNext
  <2> QED BY <1>2, <1>4, <2>1, <2>4, <2>5
<1>5. CASE code.press /\ code.key \in Keys /\ Room
  <2>1. /\ input_buffer' = [input_buffer EXCEPT ![next_space] = x]
        /\ next_space' = Increment(next_space)
        /\ UNCHANGED <<next_char, booting, got>>
    BY <1>5 DEF InputScanCode
  <2>2. InputQueue' = q + 1 /\ next_space' \in Offsets
    BY <1>1, <1>5, <2>1, QueueGrows
  <2>3. x \in Chars
    BY <1>1, <1>5 DEF Char, Chars
  <2> HIDE DEF q, x
  <2>4. TypeOK'
    BY <1>1, <1>3, <2>1, <2>2, <2>3 DEF TypeOK
  <2>5. q \in 0..(C_BUFSIZE - 1) /\ q \in Nat
    BY <1>2, BufferSize
  <2>6. \A i \in 0..(q - 1) : Place(next_char, i) # p /\ Place(next_char, i) \in Offsets
    <3> TAKE i \in 0..(q - 1)
    <3>1. i \in 0..(C_BUFSIZE - 1) /\ i \in 0..C_BUFSIZE /\ i # q
      BY <2>5, BufferSize
    <3> QED BY <1>1, <2>5, <3>1, PlaceFacts
  <2>7. /\ input_buffer'[p] = x
        /\ \A i \in 0..(q - 1) : input_buffer'[Place(next_char, i)] = input_buffer[Place(next_char, i)]
    BY <1>1, <1>2, <2>1, <2>6
  <2> HIDE DEF p
  <2>8. \A i \in 0..q : input_buffer'[Place(next_char', i)] \in Chars
    <3>1. \A i \in 0..q : i = q \/ i \in 0..(q - 1)
      BY <2>5
    <3> QED BY <1>1, <2>1, <2>3, <2>7, <3>1 DEF p
  <2>9. KeyboardInv'
    <3>1. (q + 1) - 1 = q
      BY <2>5
    <3> QED BY <2>2, <2>4, <2>8, <3>1 DEF KeyboardInv
  <2>10. /\ Typed' = [i \in 1..(q + 1) |-> input_buffer'[Place(next_char', i - 1)]]
         /\ Typed' \in Seq(Chars) /\ Len(Typed') = q + 1
    BY <2>2, <2>9, TypedIsNext
  <2> DEFINE a == Append(Typed, x)
  <2>11. /\ a \in Seq(Chars) /\ Len(a) = q + 1 /\ a[q + 1] = x
         /\ \A i \in 1..q : a[i] = Typed[i]
    BY <1>2, <2>3, AppendProperties
  <2> HIDE DEF a
  <2>12. \A i \in 1..(q + 1) : Typed'[i] = a[i]
    <3> TAKE i \in 1..(q + 1)
    <3>1. CASE i = q + 1
      <4>1. i - 1 = q
        BY <2>5, <3>1
      <4> QED BY <2>1, <2>7, <2>10, <2>11, <3>1, <4>1 DEF p
    <3>2. CASE i # q + 1
      <4>1. i \in 1..q /\ i - 1 \in 0..(q - 1)
        BY <2>5, <3>2
      <4> QED BY <1>2, <2>1, <2>7, <2>10, <2>11, <4>1
    <3> QED BY <3>1, <3>2
  <2>13. Typed' = a
    BY <2>10, <2>11, <2>12, SeqEqual
  <2> QED BY <1>5, <2>9, <2>13 DEF a, x
<1> QED BY <1>4, <1>5

LEMMA KeyboardStarts ==
  ASSUME Init
  PROVE  KeyboardInv /\ Typed = <<>>
<1>1. 0 \in Offsets /\ <<>> \in Seq(Chars)
  <2>1. 0 \in Nat /\ 0 < C_BUFSIZE
    BY BufferSize
  <2>2. 0 \in Offsets
    BY BufferSize DEF Offsets
  <2>3. <<>> \in Seq(Chars)
    OBVIOUS
  <2> QED BY <2>2, <2>3
<1>2. InputQueue = 0 /\ TypeOK
  BY <1>1 DEF Init, InputQueue, TypeOK
<1>3. KeyboardInv
  BY <1>2 DEF KeyboardInv
<1>4. Typed \in Seq(Chars) /\ Len(Typed) = 0
  BY <1>2, <1>3, TypedIs
<1> QED BY <1>3, <1>4, EmptySeq

LEMMA FirstKeyKeeps ==
  ASSUME KeyboardInv, FirstKey
  PROVE  KeyboardInv' /\ Abs!AbsRead(1)
<1>1. next_char # next_space /\ Getchars(1) /\ booting' = FALSE
  BY DEF FirstKey
<1>2. InputQueue \in 0..(C_BUFSIZE - 1) /\ InputQueue # 0 /\ Len(Typed) = InputQueue
  BY <1>1, TypedIs, QueueLength DEF KeyboardInv, TypeOK
<1>3. 1 \in 0..InputQueue /\ Len(Typed) \in Int /\ 1 <= Len(Typed)
  BY <1>2, BufferSize
<1>4. /\ got' = SubSeq(Typed, 1, 1) /\ lost' = FALSE /\ UNCHANGED <<shift, control>>
      /\ KeyboardInv' /\ Typed' = SubSeq(Typed, 1 + 1, Len(Typed))
  BY <1>1, <1>3, GetcharsFacts, GetcharsKeeps
<1>5. Min({1, Len(Typed)}) = 1
  BY <1>3, MinMaxOfTwo
<1> QED BY <1>4, <1>5 DEF Abs!AbsRead, Abs!Min, Min, Typed

LEMMA ReadKeeps ==
  ASSUME KeyboardInv, NEW count \in 0..C_BUFSIZE, Read(count)
  PROVE  KeyboardInv' /\ Abs!AbsRead(count)
<1> DEFINE n == Min({count, InputQueue})
<1>1. Getchars(n) /\ booting' = booting
  BY DEF Read
<1>2. InputQueue \in 0..(C_BUFSIZE - 1) /\ Len(Typed) = InputQueue
  BY TypedIs
<1>3. n = IF count <= InputQueue THEN count ELSE InputQueue
  <2>1. count \in Int /\ InputQueue \in Int
    BY <1>2, BufferSize
  <2> QED BY <2>1, MinMaxOfTwo
<1> HIDE DEF n
<1>4. n \in 0..InputQueue
  BY <1>2, <1>3, BufferSize
<1>5. booting' \in BOOLEAN
  BY <1>1 DEF KeyboardInv, TypeOK
<1>6. /\ got' = SubSeq(Typed, 1, n) /\ lost' = FALSE /\ UNCHANGED <<shift, control>>
      /\ KeyboardInv' /\ Typed' = SubSeq(Typed, n + 1, Len(Typed))
  BY <1>1, <1>4, <1>5, GetcharsFacts, GetcharsKeeps
<1>7. n = Min({count, Len(Typed)})
  BY <1>2 DEF n
<1> QED BY <1>6, <1>7 DEF Abs!AbsRead, Abs!Min, Min, Typed

\* A scan code is a modifier, a character or the release of a key.
LEMMA ScanCodeImplements ==
  ASSUME KeyboardInv, NEW code \in Codes, InputScanCode(code),
         UNCHANGED <<next_char, booting, got>>
  PROVE  KeyboardInv' /\ (Undefined = {} => [Abs!AbsNext]_(Abs!absVars))
<1>1. /\ KeyboardInv'
      /\ Typed' = IF code.press /\ code.key \in Keys /\ Room
                  THEN Append(Typed, Char(code.key)) ELSE Typed
  BY ScanCodeKeeps
<1>2. /\ shift' = (IF code.key = "shift" THEN code.press ELSE shift)
      /\ control' = (IF code.key = "control" THEN code.press ELSE control)
      /\ code.press \in BOOLEAN /\ code.key \in Keys \cup {"shift", "control"}
      /\ lost' = (lost \/ (code.press /\ code.key \in Keys /\ next_space' = next_space))
      /\ lost \in BOOLEAN
      /\ UNCHANGED got
  BY DEF InputScanCode, Codes, KeyboardInv, TypeOK
<1>3. "shift" \notin Keys /\ "control" \notin Keys /\ "shift" # "control"
  BY ConsoleAssumption
<1>4. CASE code.key = "shift"
  <2>1. Typed' = Typed /\ shift' \in BOOLEAN /\ control' = control /\ lost' = lost
    BY <1>1, <1>2, <1>3, <1>4
  <2>2. Abs!AbsShift
    BY <1>2, <2>1 DEF Abs!AbsShift, Typed
  <2> QED BY <1>1, <2>2 DEF Abs!AbsNext
<1>5. CASE code.key = "control"
  <2>1. Typed' = Typed /\ control' \in BOOLEAN /\ shift' = shift /\ lost' = lost
    BY <1>1, <1>2, <1>3, <1>5
  <2>2. Abs!AbsControl
    BY <1>2, <2>1 DEF Abs!AbsControl, Typed
  <2> QED BY <1>1, <2>2 DEF Abs!AbsNext
<1>6. CASE code.key \in Keys /\ code.press
  <2>1. UNCHANGED <<shift, control, got>>
    BY <1>2, <1>3, <1>6
  <2>2. Room <=> Len(Typed) < C_BUFSIZE - 1
    <3>1. InputQueue \in 0..(C_BUFSIZE - 1) /\ Len(Typed) = InputQueue
      BY TypedIs
    <3>2. Room <=> InputQueue + 1 < C_BUFSIZE
      BY QueueLength DEF KeyboardInv, TypeOK
    <3> QED BY <3>1, <3>2, BufferSize
  <2>3. Typed' = IF Len(Typed) < C_BUFSIZE - 1
                 THEN Append(Typed, <<code.key, shift, control>>) ELSE Typed
    BY <1>1, <1>6, <2>2 DEF Char
  <2>4. lost' = (lost \/ ~Room)
    <3>1. CASE Room
      <4>1. next_space' = Increment(next_space) /\ next_space \in Offsets
        BY <1>6, <3>1 DEF InputScanCode, KeyboardInv, TypeOK
      <4>2. Increment(next_space) # next_space
        BY <4>1, BufferSize DEF Increment, Offsets
      <4> QED BY <1>2, <3>1, <4>1, <4>2
    <3>2. CASE ~Room
      <4>1. next_space' = next_space
        BY <3>2 DEF InputScanCode
      <4> QED BY <1>2, <1>6, <3>2, <4>1
    <3> QED BY <3>1, <3>2
  <2>5. ASSUME Len(Typed) < C_BUFSIZE - 1 PROVE Abs!AbsPress(code.key)
    <3>1. /\ Typed' = Append(Typed, <<code.key, shift, control>>)
          /\ lost' = lost
      BY <1>2, <2>2, <2>3, <2>4, <2>5
    <3> QED BY <2>1, <2>5, <3>1 DEF Abs!AbsPress, Typed
  <2>6. ASSUME ~(Len(Typed) < C_BUFSIZE - 1) PROVE Abs!AbsPress(code.key)
    <3>1. Typed' = Typed /\ lost' = TRUE
      BY <1>2, <2>2, <2>3, <2>4, <2>6
    <3> QED BY <2>1, <2>6, <3>1 DEF Abs!AbsPress, Typed
  <2>7. Abs!AbsPress(code.key)
    BY <2>5, <2>6
  <2> QED BY <1>1, <1>6, <2>7 DEF Abs!AbsNext
<1>7. CASE code.key \in Keys /\ ~code.press
  <2>1. UNCHANGED <<shift, control, got, lost>> /\ Typed' = Typed
    BY <1>1, <1>2, <1>3, <1>7
  <2> QED BY <1>1, <2>1 DEF Abs!absVars, Typed
<1> QED BY <1>2, <1>4, <1>5, <1>6, <1>7

LEMMA KeyboardStep ==
  ASSUME KeyboardInv, [Next]_vars
  PROVE  KeyboardInv' /\ (Undefined = {} => [Abs!AbsNext]_(Abs!absVars))
<1>1. CASE \E code \in Codes : KeyboardInterrupt(code)
  BY <1>1, ScanCodeImplements DEF KeyboardInterrupt
<1>2. CASE \E code \in Codes : PollKeyboard(code)
  BY <1>2, ScanCodeImplements DEF PollKeyboard
<1>3. CASE FirstKey
  <2>1. 1 \in 0..C_BUFSIZE
    BY BufferSize
  <2> QED BY <1>3, <2>1, FirstKeyKeeps DEF Abs!AbsNext
<1>4. CASE \E count \in 0..C_BUFSIZE : Read(count)
  BY <1>4, ReadKeeps DEF Abs!AbsNext
<1>5. CASE UNCHANGED vars
  <2>1. UNCHANGED <<input_buffer, next_char, next_space, shift, control, booting, got, lost>>
    BY <1>5 DEF vars, pointers
  <2>2. InputQueue' = InputQueue
    BY <2>1 DEF InputQueue
  <2>4. KeyboardInv'
    BY <2>1, <2>2 DEF KeyboardInv, TypeOK
  <2>3. Typed' = Typed
    BY <2>1, <2>2, <2>4, TypedIs, TypedIsNext
  <2> QED BY <2>1, <2>3, <2>4 DEF Abs!absVars, Typed
<1> QED BY <1>1, <1>2, <1>3, <1>4, <1>5 DEF Next

LEMMA KeyboardAlways == Spec => [](KeyboardInv)
<1>1. Init => KeyboardInv
  BY KeyboardStarts
<1>2. KeyboardInv /\ [Next]_vars => KeyboardInv'
  BY KeyboardStep
<1> QED BY <1>1, <1>2, PTL DEF Spec

\* The pointers stay in the buffer, and what a reader is given is what keys typed,
\* never a place that nothing was stored in (c_io.c:566-573, 683-690).
THEOREM KeyboardTypeOK == Spec => []TypeOK
<1>1. KeyboardInv => TypeOK
  BY DEF KeyboardInv
<1> QED BY <1>1, KeyboardAlways, PTL

\* The circular buffer gives its readers what is typed, in order and once, and loses
\* none while it has room, of whatever size it is (c_io.c:566-573, 619-630, 653-654,
\* 683-690), as long as no key is pressed that types nothing.
THEOREM ImplementsKeyboard ==
  ASSUME Undefined = {}
  PROVE  Spec => Refines
<1>1. Init => Abs!AbsInit
  <2> SUFFICES ASSUME Init PROVE Abs!AbsInit
    OBVIOUS
  <2>1. Typed = <<>>
    BY KeyboardStarts
  <2> QED BY <2>1 DEF Init, Abs!AbsInit, Typed
<1>2. KeyboardInv /\ [Next]_vars => [Abs!AbsNext]_(Abs!absVars)
  BY KeyboardStep
<1> QED BY <1>1, <1>2, KeyboardAlways, PTL DEF Spec, Refines, Abs!AbsSpec

-----------------------------------------------------------------------------
(* The screen: what the routines of the output half do to the cursor.      *)

\* A screen whose cells hold what is in V, with the cursor anywhere.
Screens(V) == [cells : [Grid -> V], x : Int, y : Int]

RegionOK ==
  /\ scroll \in [min_x : Nat, min_y : Nat, max_x : Nat, max_y : Nat]
  /\ scroll.min_x <= scroll.max_x /\ scroll.max_x <= max_x
  /\ scroll.min_y <= scroll.max_y /\ scroll.max_y <= max_y

\* CursorInRegion of any screen.
CursorAt(s) ==
  \/ s.x \in scroll.min_x..scroll.max_x /\ s.y \in scroll.min_y..scroll.max_y
  \/ s.x = scroll.min_x /\ s.y = scroll.max_y + 1
Printed(V) == {s \in Screens(V) : CursorAt(s)}

ScreenInv == RegionOK /\ \E V : screen \in Printed(V)

LEMMA ScreenSize == max_x \in Nat /\ max_y \in Nat /\ X_SIZE \in Nat /\ Y_SIZE \in Nat
                    /\ Grid = (0..max_x) \X (0..max_y)
BY ScreenAssumption DEF max_x, max_y, Grid

LEMMA CursorFollows == ScreenInv => CursorInRegion
BY DEF ScreenInv, RegionOK, Printed, Screens, CursorAt, CursorInRegion, InRegion

\* Drawing and erasing change cells only.
LEMMA DrawKeeps ==
  ASSUME NEW V, NEW s \in Screens(V), NEW x, NEW y, NEW c \in V
  PROVE  Draw(s, x, y, c) \in Screens(V) /\ Draw(s, x, y, c).x = s.x /\ Draw(s, x, y, c).y = s.y
BY DEF Screens, Draw

LEMMA EraseKeeps ==
  ASSUME NEW V, BLANK \in V, NEW s \in Screens(V), NEW x, NEW y, NEW limit
  PROVE  /\ Erase(s, x, y, limit) \in Screens(V)
         /\ Erase(s, x, y, limit).x = s.x /\ Erase(s, x, y, limit).y = s.y
BY DEF Screens, Erase

LEMMA ClearedKeeps ==
  ASSUME NEW V, BLANK \in V, NEW s \in Screens(V)
  PROVE  Cleared(s) \in Screens(V) /\ Cleared(s).x = s.x /\ Cleared(s).y = s.y
BY DEF Screens, Cleared

\* A scroll of more lines than the region has puts the cursor at its beginning, any
\* other one leaves it alone.
LEMMA ScrolledKeeps ==
  ASSUME RegionOK, NEW V, BLANK \in V, NEW s \in Screens(V), NEW lines \in Nat
  PROVE  LET t == Scrolled(s, lines)
         IN /\ t \in Screens(V)
            /\ IF lines > scroll.max_y - scroll.min_y
               THEN t.x = scroll.min_x /\ t.y = scroll.min_y ELSE t.x = s.x /\ t.y = s.y
<1>1. CASE lines > scroll.max_y - scroll.min_y
  <2>1. Cleared(s) \in Screens(V)
    BY ClearedKeeps
  <2>2. Home(Cleared(s)) \in Screens(V) /\ Home(Cleared(s)).x = scroll.min_x
        /\ Home(Cleared(s)).y = scroll.min_y
    <3>1. scroll.min_x \in Int /\ scroll.min_y \in Int
      BY DEF RegionOK
    <3> DEFINE u == Cleared(s)
    <3>2. Home(u) = [u EXCEPT !.x = scroll.min_x, !.y = scroll.min_y] /\ u \in Screens(V)
      BY <2>1 DEF Home
    <3> HIDE DEF u
    <3> DEFINE v == Home(u)
    <3> HIDE DEF v
    <3>3. v = [u EXCEPT !.x = scroll.min_x, !.y = scroll.min_y]
      BY <3>2 DEF v
    <3>4. v \in Screens(V) /\ v.x = scroll.min_x /\ v.y = scroll.min_y
      BY <3>1, <3>2, <3>3 DEF Screens
    <3> QED BY <3>4 DEF u, v
  <2> QED BY <1>1, <2>2 DEF Scrolled
<1>2. CASE ~(lines > scroll.max_y - scroll.min_y)
  <2> DEFINE at(p) == CASE ~InRegion(p) -> s.cells[p]
                        [] InRegion(p) /\ p[2] <= scroll.max_y - lines -> s.cells[<<p[1], p[2] + lines>>]
                        [] OTHER -> BLANK
             t == [s EXCEPT !.cells = [p \in Grid |-> at(p)]]
  <2>1. ASSUME NEW p \in Grid PROVE at(p) \in V
    <3>1. s.cells[p] \in V
      BY DEF Screens
    <3>2. CASE InRegion(p) /\ p[2] <= scroll.max_y - lines
      <4>1. p[1] \in 0..max_x /\ p[2] \in 0..max_y
        BY ScreenSize
      <4>2. p[2] + lines \in 0..max_y
        BY <3>2, <4>1, ScreenSize DEF RegionOK
      <4>3. <<p[1], p[2] + lines>> \in Grid
        BY <4>1, <4>2, ScreenSize
      <4>4. s.cells[<<p[1], p[2] + lines>>] \in V
        BY <4>3 DEF Screens
      <4> QED BY <3>2, <4>4
    <3> QED BY <3>1, <3>2
  <2> HIDE DEF at
  <2>2. [p \in Grid |-> at(p)] \in [Grid -> V]
    BY <2>1
  <2>3. t \in Screens(V) /\ t.x = s.x /\ t.y = s.y
    BY <2>2 DEF Screens
  <2>4. Scrolled(s, lines) = t
    BY <1>2 DEF Scrolled, at
  <2> QED BY <1>2, <2>3, <2>4
<1> QED BY <1>1, <1>2

\* c_putchar draws in the region, and the cursor goes on in it or to the line below.
LEMMA PutcharKeeps ==
  ASSUME RegionOK, NEW V, BLANK \in V, NEW s \in Printed(V), NEW c \in V
  PROVE  Putchar(s, c) \in Printed(V)
<1> DEFINE t == Caught(s)
<1>1. s \in Screens(V) /\ CursorAt(s)
  BY DEF Printed
<1>2. /\ scroll.min_x \in Nat /\ scroll.max_x \in Nat /\ scroll.min_y \in Nat
      /\ scroll.max_y \in Nat /\ scroll.min_x <= scroll.max_x /\ scroll.min_y <= scroll.max_y
  BY DEF RegionOK
<1>3. t \in Screens(V) /\ t.x \in scroll.min_x..scroll.max_x /\ t.y \in scroll.min_y..scroll.max_y
  <2>1. CASE s.y > scroll.max_y
    <3>1. s.x = scroll.min_x /\ s.y = scroll.max_y + 1 /\ s.y - scroll.max_y = 1
      BY <1>1, <1>2, <2>1 DEF CursorAt
    <3> DEFINE u == Scrolled(s, 1)
    <3>2. u \in Screens(V) /\ u.x = scroll.min_x
      BY <1>1, <3>1, ScrolledKeeps
    <3>3. t = [u EXCEPT !.y = scroll.max_y]
      BY <2>1, <3>1 DEF Caught
    <3> HIDE DEF t, u
    <3> QED BY <1>2, <3>2, <3>3 DEF Screens
  <2>2. CASE ~(s.y > scroll.max_y)
    <3>1. t = s /\ s.x \in Int /\ s.y \in Int
      BY <1>1, <2>2 DEF Caught, Screens
    <3> QED BY <1>1, <1>2, <2>2, <3>1 DEF CursorAt
  <2> QED BY <2>1, <2>2
<1> HIDE DEF t
<1>4. ASSUME NEW u \in Screens(V), u.y = t.y
      PROVE  NewLine(u) \in Printed(V)
  <2>1. NewLine(u) \in Screens(V) /\ NewLine(u).x = scroll.min_x /\ NewLine(u).y = t.y + 1
    <3>1. u.y + 1 \in Int /\ scroll.min_x \in Int
      BY <1>2, <1>4 DEF Screens
    <3>2. NewLine(u) = [u EXCEPT !.x = scroll.min_x, !.y = u.y + 1]
      BY DEF NewLine, Screens
    <3> DEFINE v == NewLine(u)
    <3> HIDE DEF v
    <3>3. v = [u EXCEPT !.x = scroll.min_x, !.y = u.y + 1]
      BY <3>2 DEF v
    <3>4. v \in Screens(V) /\ v.x = scroll.min_x /\ v.y = u.y + 1
      BY <1>4, <3>1, <3>3 DEF Screens
    <3> QED BY <1>4, <3>4 DEF v
  <2>2. CursorAt(NewLine(u))
    BY <1>2, <1>3, <2>1 DEF CursorAt
  <2> QED BY <2>1, <2>2 DEF Printed
<1>5. CASE c = NEWLINE
  <2>1. Putchar(s, c) = NewLine(Erase(t, t.x, t.y, scroll.max_x))
    BY <1>5 DEF Putchar, t, NEWLINE, RETURN
  <2>2. /\ Erase(t, t.x, t.y, scroll.max_x) \in Screens(V)
        /\ Erase(t, t.x, t.y, scroll.max_x).y = t.y
    BY <1>3, EraseKeeps
  <2> QED BY <1>4, <2>1, <2>2
<1>6. CASE c = RETURN
  <2>1. Putchar(s, c) = [t EXCEPT !.x = scroll.min_x]
    BY <1>6 DEF Putchar, t, RETURN, NEWLINE
  <2> QED BY <1>2, <1>3, <2>1 DEF Printed, Screens, CursorAt
<1>7. CASE c # NEWLINE /\ c # RETURN
  <2> DEFINE e == Draw(t, t.x, t.y, c)
             d == [e EXCEPT !.x = @ + 1]
  <2>1. e \in Screens(V) /\ e.x = t.x /\ e.y = t.y
    BY <1>3, DrawKeeps
  <2>2. Putchar(s, c) = IF d.x > scroll.max_x THEN NewLine(d) ELSE d
    BY <1>7 DEF Putchar, t
  <2> HIDE DEF e
  <2>3. d \in Screens(V) /\ d.x = t.x + 1 /\ d.y = t.y
    BY <2>1 DEF Screens
  <2> HIDE DEF d
  <2>4. CASE d.x > scroll.max_x
    BY <1>4, <2>2, <2>3, <2>4
  <2>5. CASE ~(d.x > scroll.max_x)
    <3>1. CursorAt(d)
      BY <1>2, <1>3, <2>3, <2>5 DEF CursorAt
    <3> QED BY <2>2, <2>3, <2>5, <3>1 DEF Printed
  <2> QED BY <2>4, <2>5
<1> QED BY <1>5, <1>6, <1>7

\* The screens that c_puts goes through, one for every character.
IsPutting(h, p, text) ==
  h[0] = p /\ \A k \in 1..Len(text) : h[k] = Putchar(h[k - 1], text[k])

LEMMA PuttingExists ==
  ASSUME RegionOK, NEW V, BLANK \in V, NEW p \in Printed(V), NEW text \in Seq(V)
  PROVE  \E h \in [0..Len(text) -> Printed(V)] :
           IsPutting(h, p, text) /\ FoldLeft(Putchar, p, text) = h[Len(text)]
<1> DEFINE n == Len(text)
           s == text
           A == Printed(V)
           B == V
           G == [q \in A \X B |-> Putchar(q[1], q[2])]
           F == CHOOSE f : f = [T \in SUBSET (1..n) |->
                  IF T = {} THEN p ELSE Putchar(f[T \ {Max(T)}], s[Max(T)])]
<1>1. n \in Nat /\ s \in [1..n -> B] /\ DOMAIN s = 1..n /\ p \in A
  BY LenProperties, ElementOfSeq
<1>2. ASSUME NEW r \in A, NEW e \in B PROVE Putchar(r, e) \in A
  BY <1>2, PutcharKeeps
<1>3. G \in [A \X B -> A]
  BY <1>2
<1>4. FoldLeft(Putchar, p, text) = F[1..n]
  BY <1>1 DEF FoldLeft, MapThenFoldSet
<1> HIDE DEF n, s, A, B
<1>5. F = [T \in SUBSET (1..n) |-> IF T = {} THEN p ELSE Putchar(F[T \ {Max(T)}], s[Max(T)])]
  <2>1. PICK f \in [SUBSET (1..n) -> A] : IsFold(f, G, p, s, n)
    <3> HIDE DEF G
    <3> QED BY <1>1, <1>3, FoldExists
  <2>2. ASSUME NEW T \in SUBSET (1..n), T # {}
        PROVE  G[<<f[T \ {Max(T)}], s[Max(T)]>>] = Putchar(f[T \ {Max(T)}], s[Max(T)])
    <3>1. Max(T) \in 1..n /\ T \ {Max(T)} \in SUBSET (1..n)
      BY <1>1, <2>2, MaxFacts
    <3>2. f[T \ {Max(T)}] \in A /\ s[Max(T)] \in B
      BY <1>1, <3>1
    <3> QED BY <3>2
  <2> HIDE DEF G
  <2>3. f = [T \in SUBSET (1..n) |-> IF T = {} THEN p ELSE Putchar(f[T \ {Max(T)}], s[Max(T)])]
    BY <2>1, <2>2 DEF IsFold
  <2>4. \E g : g = [T \in SUBSET (1..n) |-> IF T = {} THEN p ELSE Putchar(g[T \ {Max(T)}], s[Max(T)])]
    BY <2>3
  <2> QED BY <2>4
<1> HIDE DEF F
<1>6. IsFoldIn(A, F, G, p, s, n)
  <2>1. F[{}] = p
    BY <1>5
  <2>2. ASSUME NEW T \in SUBSET (1..n), T # {}, F[T \ {Max(T)}] \in A
        PROVE  F[T] = G[<<F[T \ {Max(T)}], s[Max(T)]>>]
    <3>1. Max(T) \in 1..n
      BY <1>1, <2>2, MaxFacts
    <3>2. F[T] = Putchar(F[T \ {Max(T)}], s[Max(T)]) /\ s[Max(T)] \in B
      BY <1>1, <1>5, <2>2, <3>1
    <3> QED BY <2>2, <3>2
  <2> HIDE DEF G
  <2> QED BY <2>1, <2>2 DEF IsFoldIn
<1> HIDE DEF G
<1>7. IsFoldEnd(A, F[1..n], G, p, s, n)
  BY <1>1, <1>3, <1>6, FoldChain
<1>9. PICK h \in [0..n -> A] : IsFoldChain(h, G, p, s, n) /\ F[1..n] = h[n]
  BY <1>7 DEF IsFoldEnd
<1>10. ASSUME NEW i \in 1..n PROVE h[i] = Putchar(h[i - 1], s[i])
  <2>1. i - 1 \in 0..n /\ s[i] \in B
    BY <1>1
  <2>2. h[i] = G[<<h[i - 1], s[i]>>] /\ h[i - 1] \in A
    BY <1>9, <2>1 DEF IsFoldChain
  <2> QED BY <2>1, <2>2 DEF G
<1>11. h[0] = p /\ FoldLeft(Putchar, p, text) = h[n]
  BY <1>4, <1>9 DEF IsFoldChain
<1> QED BY <1>9, <1>10, <1>11 DEF IsPutting, n, s, A

\* c_puts: every character of the text.
LEMMA PutsKeeps ==
  ASSUME RegionOK, NEW V, BLANK \in V, NEW p \in Printed(V), NEW text \in Seq(V)
  PROVE  FoldLeft(Putchar, p, text) \in Printed(V)
<1>1. PICK h \in [0..Len(text) -> Printed(V)] : FoldLeft(Putchar, p, text) = h[Len(text)]
  BY PuttingExists
<1>2. Len(text) \in 0..Len(text)
  BY LenProperties
<1> QED BY <1>1, <1>2

\* Putting a character somewhere else leaves the cursor where it is.
Stays(V, p) == {s \in Screens(V) : s.x = p.x /\ s.y = p.y}

LEMMA PutAtKeeps ==
  ASSUME NEW V, BLANK \in V, NEW p, NEW s \in Stays(V, p), NEW x, NEW y, NEW c \in V
  PROVE  PutAt(s, x, y, c) \in Stays(V, p)
BY DrawKeeps, EraseKeeps DEF PutAt, Stays

\* c_puts_at: the screens that it goes through, one for every character.
LEMMA PutsAtChain ==
  ASSUME NEW V, BLANK \in V, NEW x, NEW y, NEW text \in Seq(V), screen \in Screens(V),
         PutsAt(x, y, text)
  PROVE  \E h \in [0..Len(text) -> Stays(V, screen)] :
           /\ h[0] = screen /\ h[Len(text)] = screen'
           /\ \A k \in 1..Len(text) :
                h[k] = IF x + k - 1 > max_x THEN h[k - 1] ELSE PutAt(h[k - 1], x + k - 1, y, text[k])
<1> DEFINE n == Len(text)
           s == [i \in 1..Len(text) |-> i]
           A == Stays(V, screen)
           B == 1..Len(text)
           G == [q \in A \X B |-> (IF x + q[2] - 1 > max_x THEN q[1] ELSE PutAt(q[1], x + q[2] - 1, y, text[q[2]]))]
           F == CHOOSE f : f = [T \in SUBSET (1..n) |->
                  IF T = {} THEN screen ELSE (IF x + s[Max(T)] - 1 > max_x THEN f[T \ {Max(T)}] ELSE PutAt(f[T \ {Max(T)}], x + s[Max(T)] - 1, y, text[s[Max(T)]]))]
<1>1. n \in Nat /\ s \in [1..n -> B] /\ DOMAIN s = 1..n /\ screen \in A
  BY LenProperties DEF Stays
<1>2. ASSUME NEW r \in A, NEW e \in B PROVE (IF x + e - 1 > max_x THEN r ELSE PutAt(r, x + e - 1, y, text[e])) \in A
  <2>1. text[e] \in V
    BY LenProperties, ElementOfSeq
  <2> QED BY <1>2, <2>1, PutAtKeeps
<1>3. G \in [A \X B -> A]
  BY <1>2
<1>4. screen' = F[1..n]
  BY <1>1 DEF FoldLeft, MapThenFoldSet, PutsAt
<1> HIDE DEF n, s, A, B
<1>5. F = [T \in SUBSET (1..n) |-> IF T = {} THEN screen ELSE (IF x + s[Max(T)] - 1 > max_x THEN F[T \ {Max(T)}] ELSE PutAt(F[T \ {Max(T)}], x + s[Max(T)] - 1, y, text[s[Max(T)]]))]
  <2>1. PICK f \in [SUBSET (1..n) -> A] : IsFold(f, G, screen, s, n)
    <3> HIDE DEF G
    <3> QED BY <1>1, <1>3, FoldExists
  <2>2. ASSUME NEW T \in SUBSET (1..n), T # {}
        PROVE  G[<<f[T \ {Max(T)}], s[Max(T)]>>] = (IF x + s[Max(T)] - 1 > max_x THEN f[T \ {Max(T)}] ELSE PutAt(f[T \ {Max(T)}], x + s[Max(T)] - 1, y, text[s[Max(T)]]))
    <3>1. Max(T) \in 1..n /\ T \ {Max(T)} \in SUBSET (1..n)
      BY <1>1, <2>2, MaxFacts
    <3>2. f[T \ {Max(T)}] \in A /\ s[Max(T)] \in B
      BY <1>1, <3>1
    <3> QED BY <3>2
  <2> HIDE DEF G
  <2>3. f = [T \in SUBSET (1..n) |-> IF T = {} THEN screen ELSE (IF x + s[Max(T)] - 1 > max_x THEN f[T \ {Max(T)}] ELSE PutAt(f[T \ {Max(T)}], x + s[Max(T)] - 1, y, text[s[Max(T)]]))]
    BY <2>1, <2>2 DEF IsFold
  <2>4. \E g : g = [T \in SUBSET (1..n) |-> IF T = {} THEN screen ELSE (IF x + s[Max(T)] - 1 > max_x THEN g[T \ {Max(T)}] ELSE PutAt(g[T \ {Max(T)}], x + s[Max(T)] - 1, y, text[s[Max(T)]]))]
    BY <2>3
  <2> QED BY <2>4
<1> HIDE DEF F
<1>6. IsFoldIn(A, F, G, screen, s, n)
  <2>1. F[{}] = screen
    BY <1>5
  <2>2. ASSUME NEW T \in SUBSET (1..n), T # {}, F[T \ {Max(T)}] \in A
        PROVE  F[T] = G[<<F[T \ {Max(T)}], s[Max(T)]>>]
    <3>1. Max(T) \in 1..n
      BY <1>1, <2>2, MaxFacts
    <3>2. F[T] = (IF x + s[Max(T)] - 1 > max_x THEN F[T \ {Max(T)}] ELSE PutAt(F[T \ {Max(T)}], x + s[Max(T)] - 1, y, text[s[Max(T)]])) /\ s[Max(T)] \in B
      BY <1>1, <1>5, <2>2, <3>1
    <3> QED BY <2>2, <3>2
  <2> HIDE DEF G
  <2> QED BY <2>1, <2>2 DEF IsFoldIn
<1> HIDE DEF G
<1>7. IsFoldEnd(A, F[1..n], G, screen, s, n)
  BY <1>1, <1>3, <1>6, FoldChain
<1>9. PICK h \in [0..n -> A] : IsFoldChain(h, G, screen, s, n) /\ F[1..n] = h[n]
  BY <1>7 DEF IsFoldEnd
<1>10. ASSUME NEW i \in 1..n
       PROVE  h[i] = IF x + i - 1 > max_x THEN h[i - 1] ELSE PutAt(h[i - 1], x + i - 1, y, text[i])
  <2>1. i - 1 \in 0..n /\ s[i] = i /\ i \in B
    BY <1>1 DEF s, B, n
  <2>2. h[i] = G[<<h[i - 1], s[i]>>] /\ h[i - 1] \in A
    BY <1>9, <2>1 DEF IsFoldChain
  <2> QED BY <2>1, <2>2 DEF G
<1>11. h[0] = screen /\ screen' = h[n]
  BY <1>4, <1>9 DEF IsFoldChain
<1> QED BY <1>9, <1>10, <1>11 DEF n, A

LEMMA PutsAtKeeps ==
  ASSUME NEW V, BLANK \in V, NEW x, NEW y, NEW text \in Seq(V), screen \in Screens(V),
         PutsAt(x, y, text)
  PROVE  screen' \in Stays(V, screen) /\ UNCHANGED scroll
<1>1. PICK h \in [0..Len(text) -> Stays(V, screen)] : h[Len(text)] = screen'
  BY PutsAtChain
<1>2. Len(text) \in 0..Len(text)
  BY LenProperties
<1> QED BY <1>1, <1>2 DEF PutsAt

\* c_printf_at: a character, and where the next one goes.
Stepped(a, c) ==
  [s |-> PutAt(a.s, a.x, a.y, c),
   x |-> IF c \in {NEWLINE, RETURN} THEN scroll.min_x ELSE a.x + 1,
   y |-> IF c = NEWLINE THEN a.y + 1 ELSE a.y]

LEMMA PrintAtChain ==
  ASSUME RegionOK, NEW V, BLANK \in V, NEW x \in Int, NEW y \in Int, NEW text \in Seq(V),
         screen \in Screens(V), PrintAt(x, y, text)
  PROVE  \E h \in [0..Len(text) -> [s : Stays(V, screen), x : Int, y : Int]] :
           /\ h[0] = [s |-> screen, x |-> x, y |-> y] /\ h[Len(text)].s = screen'
           /\ \A k \in 1..Len(text) : h[k] = Stepped(h[k - 1], text[k])
<1> DEFINE start == [s |-> screen, x |-> x, y |-> y]
           end == FoldLeft(Stepped, start, text)
           n == Len(text)
           s == text
           A == [s : Stays(V, screen), x : Int, y : Int]
           B == V
           G == [q \in A \X B |-> Stepped(q[1], q[2])]
           F == CHOOSE f : f = [T \in SUBSET (1..n) |->
                  IF T = {} THEN start ELSE Stepped(f[T \ {Max(T)}], s[Max(T)])]
<1>0. screen' = end.s
  BY DEF PrintAt, Stepped, FoldLeft, MapThenFoldSet
<1>1. n \in Nat /\ s \in [1..n -> B] /\ DOMAIN s = 1..n /\ start \in A
  BY LenProperties, ElementOfSeq DEF Stays
<1>2. ASSUME NEW r \in A, NEW e \in B PROVE Stepped(r, e) \in A
  <2>1. PutAt(r.s, r.x, r.y, e) \in Stays(V, screen)
    BY <1>2, PutAtKeeps
  <2>2. scroll.min_x \in Int
    BY DEF RegionOK
  <2> QED BY <1>2, <2>1, <2>2 DEF Stepped
<1>3. G \in [A \X B -> A]
  BY <1>2
<1>4. end = F[1..n]
  BY <1>1 DEF FoldLeft, MapThenFoldSet
<1> HIDE DEF n, s, A, B, end
<1>5. F = [T \in SUBSET (1..n) |-> IF T = {} THEN start ELSE Stepped(F[T \ {Max(T)}], s[Max(T)])]
  <2>1. PICK f \in [SUBSET (1..n) -> A] : IsFold(f, G, start, s, n)
    <3> HIDE DEF G
    <3> QED BY <1>1, <1>3, FoldExists
  <2>2. ASSUME NEW T \in SUBSET (1..n), T # {}
        PROVE  G[<<f[T \ {Max(T)}], s[Max(T)]>>] = Stepped(f[T \ {Max(T)}], s[Max(T)])
    <3>1. Max(T) \in 1..n /\ T \ {Max(T)} \in SUBSET (1..n)
      BY <1>1, <2>2, MaxFacts
    <3>2. f[T \ {Max(T)}] \in A /\ s[Max(T)] \in B
      BY <1>1, <3>1
    <3> QED BY <3>2
  <2> HIDE DEF G
  <2>3. f = [T \in SUBSET (1..n) |-> IF T = {} THEN start ELSE Stepped(f[T \ {Max(T)}], s[Max(T)])]
    BY <2>1, <2>2 DEF IsFold
  <2>4. \E g : g = [T \in SUBSET (1..n) |-> IF T = {} THEN start ELSE Stepped(g[T \ {Max(T)}], s[Max(T)])]
    BY <2>3
  <2> QED BY <2>4
<1> HIDE DEF F
<1>6. IsFoldIn(A, F, G, start, s, n)
  <2>1. F[{}] = start
    BY <1>5
  <2>2. ASSUME NEW T \in SUBSET (1..n), T # {}, F[T \ {Max(T)}] \in A
        PROVE  F[T] = G[<<F[T \ {Max(T)}], s[Max(T)]>>]
    <3>1. Max(T) \in 1..n
      BY <1>1, <2>2, MaxFacts
    <3>2. F[T] = Stepped(F[T \ {Max(T)}], s[Max(T)]) /\ s[Max(T)] \in B
      BY <1>1, <1>5, <2>2, <3>1
    <3> QED BY <2>2, <3>2
  <2> HIDE DEF G
  <2> QED BY <2>1, <2>2 DEF IsFoldIn
<1> HIDE DEF G
<1>7. IsFoldEnd(A, F[1..n], G, start, s, n)
  BY <1>1, <1>3, <1>6, FoldChain
<1>9. PICK h \in [0..n -> A] : IsFoldChain(h, G, start, s, n) /\ F[1..n] = h[n]
  BY <1>7 DEF IsFoldEnd
<1>10. ASSUME NEW i \in 1..n PROVE h[i] = Stepped(h[i - 1], s[i])
  <2>1. i - 1 \in 0..n /\ s[i] \in B
    BY <1>1
  <2>2. h[i] = G[<<h[i - 1], s[i]>>] /\ h[i - 1] \in A
    BY <1>9, <2>1 DEF IsFoldChain
  <2> QED BY <2>1, <2>2 DEF G
<1>11. h[0] = start /\ h[n].s = screen'
  BY <1>0, <1>4, <1>9 DEF IsFoldChain
<1> QED BY <1>9, <1>10, <1>11 DEF n, s, A

LEMMA PrintAtKeeps ==
  ASSUME RegionOK, NEW V, BLANK \in V, NEW x \in Int, NEW y \in Int, NEW text \in Seq(V),
         screen \in Screens(V), PrintAt(x, y, text)
  PROVE  screen' \in Stays(V, screen) /\ UNCHANGED scroll
<1>1. PICK h \in [0..Len(text) -> [s : Stays(V, screen), x : Int, y : Int]] :
        /\ h[0] = [s |-> screen, x |-> x, y |-> y] /\ h[Len(text)].s = screen'
        /\ \A k \in 1..Len(text) : h[k] = Stepped(h[k - 1], text[k])
  BY ONLY RegionOK, BLANK \in V, x \in Int, y \in Int, text \in Seq(V), screen \in Screens(V),
          PrintAt(x, y, text), PrintAtChain
<1>2. Len(text) \in 0..Len(text)
  BY LenProperties
<1> QED BY <1>1, <1>2 DEF PrintAt

-----------------------------------------------------------------------------
(* Numbers are printed as what they are.                                   *)

\* The powers of two are doubled, as far as they are needed.
LEMMA Power2Facts ==
  /\ Power2[0] = 1
  /\ \A n \in 0..WORD_BITS : Power2[n] \in Nat /\ Power2[n] >= 1
  /\ \A n \in 0..WORD_BITS : n + 1 \in 0..WORD_BITS => Power2[n + 1] = 2 * Power2[n]
<1> DEFINE N == WORD_BITS
           A == Nat \ {0}
           G == [x \in A |-> 2 * x]
           Step(f, n) == IF n = 0 THEN 1 ELSE 2 * f[n - 1]
<1>1. N \in Nat /\ N >= 1 /\ 0 \in 0..N
  BY ConversionsAssumption
<1>2. G \in [A -> A] /\ 1 \in A
  OBVIOUS
<1>3. PICK h \in [0..N -> A] : IsIteration(h, G, 1, N)
  <2> HIDE DEF A, G
  <2> QED BY <1>1, <1>2, IterationExists
<1>4. ASSUME NEW n \in 0..N PROVE h[n] = Step(h, n)
  <2>1. CASE n = 0
    BY <1>3, <2>1 DEF IsIteration
  <2>2. CASE n # 0
    <3>1. n \in 1..N /\ n - 1 \in 0..N
      BY <1>1, <2>2
    <3>2. h[n] = G[h[n - 1]] /\ h[n - 1] \in A
      BY <1>3, <3>1 DEF IsIteration
    <3> QED BY <2>2, <3>2
  <2> QED BY <2>1, <2>2
<1>5. h = [n \in 0..N |-> Step(h, n)]
  <2> HIDE DEF Step
  <2> QED BY <1>4
<1>6. \E f : f = [n \in 0..N |-> Step(f, n)]
  BY <1>5
<1>7. Power2 = CHOOSE f : f = [n \in 0..N |-> Step(f, n)]
  BY DEF Power2
<1>8. Power2 = [n \in 0..N |-> Step(Power2, n)]
  BY <1>6, <1>7
<1>9. ASSUME NEW n \in 0..N PROVE Power2[n] = Step(Power2, n)
  <2> HIDE DEF Step
  <2> QED BY <1>8
<1>10. Power2[0] = 1
  BY <1>1, <1>9
<1>11. \A n \in 0..N : n + 1 \in 0..N => Power2[n + 1] = 2 * Power2[n]
  <2>1. ASSUME NEW n \in 0..N, n + 1 \in 0..N PROVE Power2[n + 1] = 2 * Power2[n]
    <3>1. n + 1 # 0 /\ (n + 1) - 1 = n
      BY <1>1
    <3> QED BY <1>9, <2>1, <3>1
  <2> QED BY <2>1
<1> DEFINE S == {n \in 0..N : Power2[n] \in A}
<1>12. 0 \in S
  BY <1>1, <1>10
<1>13. ASSUME NEW n \in 0..(N - 1), n \in S PROVE n + 1 \in S
  <2>1. n \in 0..N /\ n + 1 \in 0..N /\ Power2[n] \in A
    BY <1>1, <1>13
  <2>2. Power2[n + 1] = 2 * Power2[n]
    BY <1>11, <2>1
  <2> QED BY <2>1, <2>2
<1>14. 0..N \subseteq S
  <2> HIDE DEF S
  <2> QED BY <1>1, <1>12, <1>13, IntervalInduction
<1>15. \A n \in 0..N : Power2[n] \in Nat /\ Power2[n] >= 1
  BY <1>14
<1> QED BY <1>10, <1>11, <1>15

LEMMA HalfIsNumber == HALF \in Nat /\ HALF >= 1
<1>1. WORD_BITS - 1 \in 0..WORD_BITS
  BY ConversionsAssumption
<1> QED BY <1>1, Power2Facts DEF HALF

\* Four bits on, and twelve bits on.
LEMMA Power2Jumps ==
  /\ \A n \in Nat : n + 4 <= WORD_BITS => Power2[n + 4] = 16 * Power2[n]
  /\ \A n \in Nat : n + 12 <= WORD_BITS => Power2[n + 12] = 4096 * Power2[n]
<1>1. WORD_BITS \in Nat
  BY ConversionsAssumption
<1>2. ASSUME NEW n \in Nat, n + 4 <= WORD_BITS PROVE Power2[n + 4] = 16 * Power2[n]
  <2>1. /\ n \in 0..WORD_BITS /\ n + 1 \in 0..WORD_BITS /\ n + 2 \in 0..WORD_BITS
        /\ n + 3 \in 0..WORD_BITS /\ n + 4 \in 0..WORD_BITS
    BY <1>1, <1>2
  <2>2. (n + 1) + 1 = n + 2 /\ (n + 2) + 1 = n + 3 /\ (n + 3) + 1 = n + 4
    OBVIOUS
  <2>3. /\ Power2[n + 1] = 2 * Power2[n] /\ Power2[n + 2] = 2 * Power2[n + 1]
        /\ Power2[n + 3] = 2 * Power2[n + 2] /\ Power2[n + 4] = 2 * Power2[n + 3]
    BY <2>1, <2>2, Power2Facts
  <2>4. Power2[n] \in Nat
    BY <2>1, Power2Facts
  <2> QED BY <2>3, <2>4
<1>3. ASSUME NEW n \in Nat, n + 12 <= WORD_BITS PROVE Power2[n + 12] = 4096 * Power2[n]
  <2>1. n + 4 \in Nat /\ n + 8 \in Nat /\ (n + 4) + 4 = n + 8 /\ (n + 8) + 4 = n + 12
    OBVIOUS
  <2>2. n + 4 <= WORD_BITS /\ n + 8 <= WORD_BITS /\ n \in 0..WORD_BITS
    BY <1>1, <1>3
  <2>3. /\ Power2[n + 4] = 16 * Power2[n] /\ Power2[n + 8] = 16 * Power2[n + 4]
        /\ Power2[n + 12] = 16 * Power2[n + 8]
    BY <1>2, <1>3, <2>1, <2>2
  <2>4. Power2[n] \in Nat
    BY <2>2, Power2Facts
  <2> QED BY <2>3, <2>4
<1> QED BY <1>2, <1>3

\* The largest power of two ends in 8, and the word is a number of nibbles.
LEMMA HalfFacts ==
  /\ \E q \in Nat : HALF = 10 * q + 8
  /\ Power2[WORD_BITS] = 2 * HALF
  /\ HEX_DIGITS \in Nat /\ HEX_DIGITS >= 2 /\ WORD_BITS = 4 * HEX_DIGITS
<1> DEFINE S == {k \in Nat : 12 * k + 7 <= WORD_BITS => \E q \in Nat : Power2[12 * k + 7] = 10 * q + 8}
<1>1. WORD_BITS \in Nat /\ WORD_BITS >= 8 /\ WORD_BITS % 12 = 8
  BY ConversionsAssumption
<1>2. 0 \in S
  <2>1. /\ 0 \in 0..WORD_BITS /\ 1 \in 0..WORD_BITS /\ 2 \in 0..WORD_BITS /\ 3 \in 0..WORD_BITS
        /\ 4 \in 0..WORD_BITS /\ 5 \in 0..WORD_BITS /\ 6 \in 0..WORD_BITS /\ 7 \in 0..WORD_BITS
    BY <1>1
  <2>2. 0 + 1 = 1 /\ 1 + 1 = 2 /\ 2 + 1 = 3 /\ 3 + 1 = 4 /\ 4 + 1 = 5 /\ 5 + 1 = 6 /\ 6 + 1 = 7
    OBVIOUS
  <2>3. Power2[1] = 2 /\ Power2[2] = 4 /\ Power2[3] = 8
    BY <2>1, <2>2, Power2Facts
  <2>4. Power2[4] = 16 /\ Power2[5] = 32
    BY <2>1, <2>2, <2>3, Power2Facts
  <2>5. Power2[6] = 64 /\ Power2[7] = 128
    BY <2>1, <2>2, <2>4, Power2Facts
  <2>6. 12 \in Nat /\ 12 * 0 + 7 = 7 /\ 128 = 10 * 12 + 8
    OBVIOUS
  <2> QED BY <2>5, <2>6
<1>3. ASSUME NEW k \in Nat, k \in S PROVE k + 1 \in S
  <2>1. SUFFICES ASSUME 12 * (k + 1) + 7 <= WORD_BITS
                 PROVE  \E q \in Nat : Power2[12 * (k + 1) + 7] = 10 * q + 8
    BY <1>3
  <2> DEFINE n == 12 * k + 7
  <2>2. n \in Nat /\ n + 12 = 12 * (k + 1) + 7 /\ n + 12 <= WORD_BITS /\ n <= WORD_BITS
    BY <1>1, <2>1
  <2>3. PICK q \in Nat : Power2[n] = 10 * q + 8
    BY <1>3, <2>2
  <2>4. Power2[n + 12] = 4096 * Power2[n]
    BY <2>2, Power2Jumps
  <2> HIDE DEF n
  <2>5. PICK r \in Nat : r = 4096 * q + 3276
    OBVIOUS
  <2>6. \E p \in Nat : Power2[n + 12] = 10 * p + 8
    <3>1. Power2[n + 12] = 10 * r + 8
      BY <2>3, <2>4, <2>5
    <3> QED BY <3>1
  <2>7. n + 12 = 12 * (k + 1) + 7
    BY <2>2
  <2> QED BY ONLY <2>6, <2>7, Zenon
<1>4. Nat \subseteq S
  <2> HIDE DEF S
  <2> QED BY <1>2, <1>3, NatSetInduction
<1>5. PICK k \in Nat : WORD_BITS = 12 * k + 8
  <2>1. WORD_BITS \div 12 \in Nat /\ WORD_BITS = 12 * (WORD_BITS \div 12) + 8
    BY <1>1
  <2> QED BY <2>1
<1>6. WORD_BITS - 1 = 12 * k + 7 /\ 12 * k + 7 <= WORD_BITS
  BY <1>1, <1>5
<1>7. \E q \in Nat : HALF = 10 * q + 8
  BY <1>4, <1>6 DEF HALF
<1>8. Power2[WORD_BITS] = 2 * HALF
  <2>1. WORD_BITS - 1 \in 0..WORD_BITS /\ (WORD_BITS - 1) + 1 \in 0..WORD_BITS
        /\ (WORD_BITS - 1) + 1 = WORD_BITS
    BY <1>1
  <2> QED BY <2>1, Power2Facts DEF HALF
<1>9. WORD_BITS \div 4 = 3 * k + 2
  BY <1>5
<1> QED BY <1>5, <1>7, <1>8, <1>9 DEF HEX_DIGITS

\* Digits are told apart by their characters.
LEMMA DigitValueIs ==
  ASSUME NEW d \in 0..15
  PROVE  DigitValue(Digit(d)) = d
<1>1. \A e \in 0..15 : Digit(e) = Digit(d) => e = d
  BY DEF Digit
<1> QED BY <1>1 DEF DigitValue
IsText(text) == \E W : text \in Seq(W)

Signs == {Digit(d) : d \in Int} \cup {"-"}

LEMMA WordsAre ==
  /\ HALF \in Nat /\ HALF >= 1
  /\ \A v \in Words : v \in Int /\ -HALF <= v /\ v < HALF
BY HalfIsNumber DEF Words

\* The recursion of cvtdec0 ends: a quotient is smaller than what was divided.
LEMMA SplitFacts ==
  ASSUME NEW v \in Words
  PROVE  /\ Split(v).quotient \in 0..(HALF - 1) /\ Split(v).value \in Nat
         /\ v >= 0 /\ Split(v).quotient # 0 => Split(v).quotient \in 0..(v - 1)
BY WordsAre DEF Split

\* What cvtdec0 makes of a word from what it makes of the quotient.
Cvtdec0Step(f, w) == (IF Split(w).quotient # 0 THEN f[Split(w).quotient] ELSE <<>>)
                     \o <<Digit(Split(w).value % 10)>>

LEMMA Cvtdec0Unfolds ==
  /\ \A w \in Words : Cvtdec0[w] = Cvtdec0Step(Cvtdec0, w)
  /\ \A v \in Words : Cvtdec0[v] \in Seq(Signs)
<1> DEFINE Step(f, w) == (IF Split(w).quotient # 0 THEN f[Split(w).quotient] ELSE <<>>)
                         \o <<Digit(Split(w).value % 10)>>
           n == HALF - 1
           R == {m \in 0..n : \E f \in [0..m -> Seq(Signs)] : \A k \in 0..m : f[k] = Step(f, k)}
<1>1. HALF \in Nat /\ HALF >= 1 /\ n \in Nat /\ \A w \in Words : w \in Int /\ w < HALF
  BY WordsAre
<1>2. ASSUME NEW w \in Words
      PROVE  /\ Split(w).quotient \in 0..n /\ Split(w).value \in Nat
             /\ w >= 0 /\ Split(w).quotient # 0 => Split(w).quotient \in 0..(w - 1)
  BY SplitFacts
<1>3. \A w \in 0..n : w \in Words
  BY <1>1 DEF Words
<1>4. ASSUME NEW w \in Words, NEW f,
             Split(w).quotient # 0 => f[Split(w).quotient] \in Seq(Signs)
      PROVE  Step(f, w) \in Seq(Signs)
  <2>1. Digit(Split(w).value % 10) \in Signs
    <3>1. Split(w).value % 10 \in Int
      BY <1>2
    <3> QED BY <3>1 DEF Signs
  <2> QED BY <1>4, <2>1
<1>5. 0 \in R
  <2> DEFINE f == [k \in 0..0 |-> Step(<<>>, k)]
  <2>1. 0 \in Words /\ 0 \in 0..n
    BY <1>1, <1>3
  <2>2. Split(0).quotient = 0
    BY DEF Split
  <2>3. \A g : Step(g, 0) = Step(<<>>, 0) /\ Step(g, 0) \in Seq(Signs)
    BY <1>4, <2>1, <2>2
  <2> HIDE DEF Step
  <2>4. f \in [0..0 -> Seq(Signs)] /\ \A k \in 0..0 : f[k] = Step(f, k)
    BY <2>3
  <2> HIDE DEF f
  <2> QED BY <2>1, <2>4
<1>6. ASSUME NEW m \in 0..(n - 1), m \in R PROVE m + 1 \in R
  <2>1. PICK f \in [0..m -> Seq(Signs)] : \A k \in 0..m : f[k] = Step(f, k)
    BY <1>6
  <2> DEFINE g == [k \in 0..(m + 1) |-> IF k = m + 1 THEN Step(f, k) ELSE f[k]]
  <2>2. m + 1 \in 0..n /\ m \in Nat /\ \A k \in 0..m : k \in 0..n /\ k \in Words /\ k >= 0
    BY <1>1, <1>3
  <2>3. m + 1 \in Words /\ m + 1 >= 0 /\ (m + 1) - 1 = m
    BY <1>3, <2>2
  <2>4. \A k \in 0..(m + 1) : k = m + 1 \/ k \in 0..m
    BY <2>2
  <2>5. Step(f, m + 1) \in Seq(Signs)
    <3>1. Split(m + 1).quotient # 0 => f[Split(m + 1).quotient] \in Seq(Signs)
      BY <1>2, <2>3
    <3> HIDE DEF Step
    <3> QED BY <1>4, <2>3, <3>1
  <2>6. g \in [0..(m + 1) -> Seq(Signs)]
    <3> HIDE DEF Step
    <3> QED BY <2>4, <2>5
  <2>7. \A k \in 0..m : g[k] = f[k]
    BY <2>2
  <2>8. ASSUME NEW k \in 0..(m + 1) PROVE g[k] = Step(g, k)
    <3>1. k \in Words /\ k >= 0 /\ k - 1 <= m
      BY <2>2, <2>3, <2>4
    <3>2. Split(k).quotient # 0 => Split(k).quotient \in 0..m
      <4>1. \A j \in 0..(k - 1) : j \in 0..m
        BY <2>2, <3>1
      <4> QED BY <1>2, <3>1, <4>1
    <3>3. Step(g, k) = Step(f, k)
      <4> HIDE DEF g
      <4> QED BY <2>7, <3>2
    <3>4. g[k] = Step(f, k)
      <4> HIDE DEF Step
      <4> QED BY <2>1, <2>4
    <3> QED BY <3>3, <3>4
  <2> HIDE DEF g
  <2> QED BY <2>2, <2>6, <2>8
<1>7. n \in R
  <2> HIDE DEF R
  <2>1. 0..n \subseteq R
    BY <1>1, <1>5, <1>6, IntervalInduction
  <2> QED BY <1>1, <2>1
<1>8. PICK f \in [0..n -> Seq(Signs)] : \A k \in 0..n : f[k] = Step(f, k)
  BY <1>7
<1> DEFINE g == [w \in Words |-> Step(f, w)]
<1>9. \A w \in 0..n : g[w] = f[w]
  BY <1>3, <1>8
<1>10. ASSUME NEW w \in Words
       PROVE  Step(g, w) = Step(f, w) /\ Step(f, w) \in Seq(Signs)
  <2>1. Split(w).quotient \in 0..n
    BY <1>2
  <2>2. Step(f, w) \in Seq(Signs)
    <3>1. f[Split(w).quotient] \in Seq(Signs)
      BY <2>1
    <3> HIDE DEF Step
    <3> QED BY <1>4, <3>1
  <2> HIDE DEF g
  <2> QED BY <1>9, <2>1, <2>2
<1>11. g = [w \in Words |-> Step(g, w)]
  <2> HIDE DEF Step
  <2> QED BY <1>10
<1>12. \E h : h = [w \in Words |-> Step(h, w)]
  BY <1>11
<1> DEFINE Body(h) == [w \in Words |->
                        LET s == Split(w)
                        IN (IF s.quotient # 0 THEN h[s.quotient] ELSE <<>>)
                           \o <<Digit(s.value % 10)>>]
<1>13. Cvtdec0 = CHOOSE h : h = Body(h)
  BY DEF Cvtdec0
<1>14. Cvtdec0 = [w \in Words |-> Step(Cvtdec0, w)]
  BY <1>12, <1>13
<1>15. \A w \in Words : Cvtdec0[w] = Cvtdec0Step(Cvtdec0, w)
  <2> HIDE DEF Body, Step
  <2> QED BY <1>14 DEF Cvtdec0Step, Step
<1> HIDE DEF Body
<1> DEFINE S == {m \in 0..n : \A k \in 0..m : Cvtdec0[k] \in Seq(Signs)}
<1>16. ASSUME NEW w \in Words,
              Split(w).quotient # 0 => Cvtdec0[Split(w).quotient] \in Seq(Signs)
       PROVE  Cvtdec0[w] \in Seq(Signs)
  <2>1. Cvtdec0[w] = Step(Cvtdec0, w)
    <3> HIDE DEF Step
    <3> QED BY <1>14
  <2> HIDE DEF Step
  <2> QED BY <1>4, <1>16, <2>1
<1> HIDE DEF Step
<1>17. 0 \in S
  <2>1. 0 \in Words /\ 0 \in 0..n /\ Split(0).quotient = 0
    BY <1>1, <1>3 DEF Split
  <2> QED BY <1>16, <2>1
<1>18. ASSUME NEW m \in 0..(n - 1), m \in S PROVE m + 1 \in S
  <2>1. m + 1 \in 0..n /\ m + 1 \in Words /\ m + 1 >= 0 /\ (m + 1) - 1 = m
    BY <1>1, <1>3
  <2>2. Cvtdec0[m + 1] \in Seq(Signs)
    <3>1. Split(m + 1).quotient # 0 => Split(m + 1).quotient \in 0..m
      BY <1>2, <2>1
    <3> QED BY <1>16, <1>18, <2>1, <3>1
  <2>3. \A k \in 0..(m + 1) : k = m + 1 \/ k \in 0..m
    OBVIOUS
  <2> QED BY <1>18, <2>1, <2>2, <2>3
<1>19. \A k \in 0..n : Cvtdec0[k] \in Seq(Signs)
  <2> HIDE DEF S
  <2>1. 0..n \subseteq S
    BY <1>1, <1>17, <1>18, IntervalInduction
  <2>2. n \in 0..n
    BY <1>1
  <2> QED BY <2>1, <2>2 DEF S
<1>20. \A v \in Words : Cvtdec0[v] \in Seq(Signs)
  BY <1>2, <1>16, <1>19
<1> QED BY <1>20, <1>15

LEMMA CvtdecIsText ==
  ASSUME NEW v \in Words
  PROVE  Cvtdec(v) \in Seq(Signs)
<1>1. CASE v < 0
  <2>1. Negated(v) \in Words
    BY <1>1, WordsAre DEF Negated, Words
  <2>2. <<"-">> \in Seq(Signs) /\ Cvtdec0[Negated(v)] \in Seq(Signs)
    BY <2>1, Cvtdec0Unfolds DEF Signs
  <2>3. <<"-">> \o Cvtdec0[Negated(v)] \in Seq(Signs)
    BY <2>2, ConcatProperties
  <2> QED BY <1>1, <2>3 DEF Cvtdec
<1>2. CASE ~(v < 0)
  BY <1>2, Cvtdec0Unfolds DEF Cvtdec
<1> QED BY <1>1, <1>2

\* What a fold over a text makes of it, one character behind the other.
IsReading(h, s, base) ==
  /\ h[0] = 0
  /\ \A k \in 1..Len(s) : h[k] = h[k - 1] * base + DigitValue(s[k])

IsNumberText(s) == s \in Seq({Digit(d) : d \in 0..15})

LEMMA ReadingExists ==
  ASSUME NEW s, IsNumberText(s), NEW base \in Nat
  PROVE  \E h \in [0..Len(s) -> Nat] : IsReading(h, s, base) /\ ValueOf(s, base) = h[Len(s)]
<1> DEFINE n == Len(s)
           A == Nat
           B == {Digit(d) : d \in 0..15}
           G == [q \in A \X B |-> q[1] * base + DigitValue(q[2])]
           F == CHOOSE f : f = [T \in SUBSET (1..n) |->
                  IF T = {} THEN 0 ELSE f[T \ {Max(T)}] * base + DigitValue(s[Max(T)])]
<1>1. n \in Nat /\ s \in [1..n -> B] /\ DOMAIN s = 1..n /\ 0 \in A
  BY DEF IsNumberText
<1>2. ASSUME NEW r \in A, NEW e \in B PROVE r * base + DigitValue(e) \in A
  <2>1. PICK d \in 0..15 : e = Digit(d)
    BY <1>2 DEF B
  <2>2. DigitValue(e) \in Nat
    BY <2>1, DigitValueIs
  <2>3. r * base \in Nat
    BY <1>2
  <2> QED BY <2>2, <2>3
<1>3. G \in [A \X B -> A]
  BY <1>2
<1>4. ValueOf(s, base) = F[1..n]
  BY <1>1 DEF FoldLeft, MapThenFoldSet, ValueOf
<1> HIDE DEF n, A, B
<1>5. F = [T \in SUBSET (1..n) |-> IF T = {} THEN 0 ELSE F[T \ {Max(T)}] * base + DigitValue(s[Max(T)])]
  <2>1. PICK f \in [SUBSET (1..n) -> A] : IsFold(f, G, 0, s, n)
    <3> HIDE DEF G
    <3> QED BY <1>1, <1>3, FoldExists
  <2>2. ASSUME NEW T \in SUBSET (1..n), T # {}
        PROVE  G[<<f[T \ {Max(T)}], s[Max(T)]>>] = f[T \ {Max(T)}] * base + DigitValue(s[Max(T)])
    <3>1. Max(T) \in 1..n /\ T \ {Max(T)} \in SUBSET (1..n)
      BY <1>1, <2>2, MaxFacts
    <3>2. f[T \ {Max(T)}] \in A /\ s[Max(T)] \in B
      BY <1>1, <3>1
    <3> QED BY <3>2
  <2> HIDE DEF G
  <2>3. f = [T \in SUBSET (1..n) |-> IF T = {} THEN 0 ELSE f[T \ {Max(T)}] * base + DigitValue(s[Max(T)])]
    BY <2>1, <2>2 DEF IsFold
  <2>4. \E g : g = [T \in SUBSET (1..n) |-> IF T = {} THEN 0 ELSE g[T \ {Max(T)}] * base + DigitValue(s[Max(T)])]
    BY <2>3
  <2> QED BY <2>4
<1> HIDE DEF F
<1>6. IsFoldIn(A, F, G, 0, s, n)
  <2>1. F[{}] = 0
    BY <1>5
  <2>2. ASSUME NEW T \in SUBSET (1..n), T # {}, F[T \ {Max(T)}] \in A
        PROVE  F[T] = G[<<F[T \ {Max(T)}], s[Max(T)]>>]
    <3>1. Max(T) \in 1..n
      BY <1>1, <2>2, MaxFacts
    <3>2. F[T] = F[T \ {Max(T)}] * base + DigitValue(s[Max(T)]) /\ s[Max(T)] \in B
      BY <1>1, <1>5, <2>2, <3>1
    <3> QED BY <2>2, <3>2
  <2> HIDE DEF G
  <2> QED BY <2>1, <2>2 DEF IsFoldIn
<1> HIDE DEF G
<1>7. IsFoldEnd(A, F[1..n], G, 0, s, n)
  BY <1>1, <1>3, <1>6, FoldChain
<1>8. ValueOf(s, base) \in A
  BY <1>1, <1>4, <1>7 DEF IsFoldEnd
<1>9. PICK h \in [0..n -> A] : IsFoldChain(h, G, 0, s, n) /\ F[1..n] = h[n]
  BY <1>7 DEF IsFoldEnd
<1>10. ASSUME NEW k \in 1..n PROVE h[k] = h[k - 1] * base + DigitValue(s[k])
  <2>1. k - 1 \in 0..n /\ s[k] \in B
    BY <1>1
  <2>2. h[k] = G[<<h[k - 1], s[k]>>] /\ h[k - 1] \in A
    BY <1>9, <2>1 DEF IsFoldChain
  <2> QED BY <2>1, <2>2 DEF G
<1>11. h[0] = 0 /\ ValueOf(s, base) = h[n]
  BY <1>4, <1>9 DEF IsFoldChain
<1> QED BY <1>9, <1>10, <1>11 DEF IsReading, n, A

\* There is one reading only.
ReadsSo(g, s, base, n) ==
  g[0] = 0 /\ \A k \in 1..n : g[k] = g[k - 1] * base + DigitValue(s[k])

LEMMA ReadingIsOne ==
  ASSUME NEW s, NEW n \in Nat, NEW g, NEW h, NEW base,
         ReadsSo(g, s, base, n), ReadsSo(h, s, base, n)
  PROVE  g[n] = h[n]
<1> DEFINE S == {k \in 0..n : g[k] = h[k]}
<1>1. 0 \in S
  BY DEF ReadsSo
<1>2. ASSUME NEW k \in 0..(n - 1), k \in S PROVE k + 1 \in S
  <2>1. k + 1 \in 1..n /\ k + 1 \in 0..n /\ (k + 1) - 1 = k /\ g[k] = h[k]
    BY <1>2
  <2>2. g[k + 1] = g[k] * base + DigitValue(s[k + 1]) /\ h[k + 1] = h[k] * base + DigitValue(s[k + 1])
    BY <2>1 DEF ReadsSo
  <2> QED BY <2>1, <2>2, Zenon
<1> HIDE DEF S
<1>3. 0..n \subseteq S
  BY <1>1, <1>2, IntervalInduction
<1>4. n \in 0..n
  OBVIOUS
<1> QED BY <1>3, <1>4 DEF S

\* A text with one more digit stands for base times the number, and the digit.
LEMMA ValueOfAppend ==
  ASSUME NEW s, IsNumberText(s), NEW base \in Nat, NEW d \in 0..15
  PROVE  /\ ValueOf(s, base) \in Nat
         /\ IsNumberText(Append(s, Digit(d)))
         /\ ValueOf(Append(s, Digit(d)), base) = ValueOf(s, base) * base + d
<1> DEFINE C == {Digit(e) : e \in 0..15}
           t == Append(s, Digit(d))
           n == Len(s)
<1>1. Digit(d) \in C
  OBVIOUS
<1>2. s \in Seq(C) /\ t \in Seq(C) /\ n \in Nat /\ Len(t) = n + 1 /\ t[n + 1] = Digit(d)
      /\ \A k \in 1..n : t[k] = s[k]
  <2> HIDE DEF C
  <2>1. s \in Seq(C)
    BY DEF IsNumberText, C
  <2> QED BY <1>1, <2>1
<1>3. IsNumberText(s) /\ IsNumberText(t)
  BY <1>2 DEF IsNumberText
<1> HIDE DEF C, t
<1>4. PICK g \in [0..n -> Nat] : IsReading(g, s, base) /\ ValueOf(s, base) = g[n]
  BY <1>3, ReadingExists
<1>5. PICK h \in [0..Len(t) -> Nat] : IsReading(h, t, base) /\ ValueOf(t, base) = h[Len(t)]
  BY <1>3, ReadingExists
<1>6. g[n] = h[n]
  <2>1. ReadsSo(g, s, base, n)
    BY <1>4 DEF IsReading, ReadsSo
  <2>2. \A k \in 1..n : k \in 1..Len(t) /\ t[k] = s[k]
    BY <1>2
  <2>3. \A k \in 1..n : h[k] = h[k - 1] * base + DigitValue(t[k])
    BY <1>5, <2>2 DEF IsReading
  <2>4. \A k \in 1..n : h[k] = h[k - 1] * base + DigitValue(s[k])
    BY ONLY <2>2, <2>3, Zenon
  <2>5. ReadsSo(h, s, base, n)
    BY <1>5, <2>4 DEF IsReading, ReadsSo
  <2> QED BY ONLY <1>2, <2>1, <2>5, ReadingIsOne
<1>7. n + 1 \in 1..Len(t) /\ (n + 1) - 1 = n
  BY <1>2
<1>8. h[n + 1] = h[n] * base + DigitValue(t[n + 1])
  BY <1>5, <1>7 DEF IsReading
<1>9. DigitValue(t[n + 1]) = d
  BY <1>2, DigitValueIs
<1>10. ValueOf(t, base) = g[n] * base + d
  BY <1>2, <1>5, <1>6, <1>8, <1>9
<1>11. g[n] \in Nat
  BY <1>2
<1> QED BY <1>3, <1>4, <1>10, <1>11 DEF t

LEMMA ValueOfNothing ==
  ASSUME NEW base \in Nat
  PROVE  IsNumberText(<<>>) /\ ValueOf(<<>>, base) = 0
<1>1. IsNumberText(<<>>) /\ Len(<<>>) = 0
  BY DEF IsNumberText
<1>2. PICK h \in [0..0 -> Nat] : IsReading(h, <<>>, base) /\ ValueOf(<<>>, base) = h[0]
  BY <1>1, ReadingExists
<1> QED BY <1>1, <1>2 DEF IsReading

\* The text s is a numeral of n.
Writes(s, n, base) == s \in Seq({Digit(d) : d \in 0..(base - 1)}) /\ IsNumeral(s, n, base)

LEMMA DigitsAreText ==
  ASSUME NEW base \in {10, 16}, NEW s \in Seq({Digit(d) : d \in 0..(base - 1)})
  PROVE  IsNumberText(s)
<1> DEFINE C == {Digit(d) : d \in 0..(base - 1)}
           D == {Digit(d) : d \in 0..15}
<1>1. \A d \in 0..(base - 1) : d \in 0..15
  OBVIOUS
<1>2. C \subseteq D
  BY <1>1
<1>3. s \in Seq(C)
  OBVIOUS
<1> HIDE DEF C, D
<1>4. s \in Seq(D)
  BY <1>2, <1>3
<1> QED BY <1>4 DEF D, IsNumberText

\* A digit behind the numeral of n.
LEMMA NumeralGrows ==
  ASSUME NEW base \in {10, 16}, NEW n \in Nat, n # 0, NEW d \in 0..(base - 1),
         NEW s, Writes(s, n, base)
  PROVE  Writes(Append(s, Digit(d)), n * base + d, base)
<1> DEFINE C == {Digit(e) : e \in 0..(base - 1)}
           t == Append(s, Digit(d))
<1>1. Digit(d) \in C /\ base \in Nat /\ d \in 0..15 /\ 0 \in 0..15
  OBVIOUS
<1>2. s \in Seq(C) /\ s # <<>> /\ ValueOf(s, base) = n /\ (s[1] = Digit(0) => Len(s) = 1)
  BY DEF Writes, IsNumeral
<1>3. IsNumberText(s)
  BY <1>2, DigitsAreText
<1> HIDE DEF C
<1>4. t \in Seq(C) /\ t # <<>> /\ Len(t) = Len(s) + 1 /\ t[1] = s[1] /\ DOMAIN t = 1..Len(t)
      /\ \A i \in 1..Len(t) : t[i] \in C
  BY <1>1, <1>2
<1>5. ValueOf(t, base) = n * base + d
  BY <1>1, <1>2, <1>3, ValueOfAppend
<1>6. t[1] # Digit(0)
  <2>1. SUFFICES ASSUME s[1] = Digit(0) PROVE FALSE
    BY <1>4
  <2>2. s = Append(<<>>, Digit(0))
    BY <1>2, <2>1
  <2>3. ValueOf(s, base) = ValueOf(<<>>, base) * base + 0
    BY ONLY <1>1, <2>2, ValueOfNothing, ValueOfAppend
  <2>4. ValueOf(s, base) = 0
    BY <1>1, <2>3, ValueOfNothing
  <2> QED BY <1>2, <2>4
<1> HIDE DEF t
<1>7. IsNumeral(t, n * base + d, base)
  BY <1>4, <1>5, <1>6 DEF IsNumeral, C
<1> QED BY <1>4, <1>7 DEF Writes, C, t

\* A digit is its own numeral.
LEMMA DigitIsNumeral ==
  ASSUME NEW base \in {10, 16}, NEW d \in 0..(base - 1)
  PROVE  Writes(<<Digit(d)>>, d, base)
<1> DEFINE C == {Digit(e) : e \in 0..(base - 1)}
           t == <<Digit(d)>>
<1>1. Digit(d) \in C /\ base \in Nat /\ d \in 0..15
  OBVIOUS
<1> HIDE DEF C
<1>2. t \in Seq(C) /\ t # <<>> /\ Len(t) = 1 /\ DOMAIN t = 1..1 /\ t = Append(<<>>, Digit(d))
      /\ \A i \in 1..1 : t[i] \in C
  BY <1>1
<1> HIDE DEF t
<1>3. ValueOf(t, base) = 0 * base + d
  BY ONLY <1>1, <1>2, ValueOfNothing, ValueOfAppend
<1>4. ValueOf(t, base) = d
  BY <1>1, <1>3
<1>5. IsNumeral(t, d, base)
  BY <1>2, <1>4 DEF IsNumeral, C
<1> QED BY <1>2, <1>5 DEF Writes, C, t

\* The digits of a number that is not negative.
LEMMA Cvtdec0IsNumeral ==
  ASSUME \A w \in Words : Cvtdec0[w] = Cvtdec0Step(Cvtdec0, w),
         NEW v \in Words, v >= 0
  PROVE  Writes(Cvtdec0[v], v, 10)
<1> DEFINE n == HALF - 1
           S == {m \in 0..n : \A k \in 0..m : Writes(Cvtdec0[k], k, 10)}
<1>1. HALF \in Nat /\ HALF >= 1 /\ n \in Nat /\ \A w \in Words : w \in Int /\ w < HALF
  BY WordsAre
<1>2. \A w \in 0..n : w \in Words
  BY <1>1 DEF Words
<1>3. ASSUME NEW w \in 0..n, w < 10 PROVE Writes(Cvtdec0[w], w, 10)
  <2>1. w \in Words /\ Split(w).quotient = 0 /\ Split(w).value % 10 = w /\ w \in 0..9
    BY <1>1, <1>2, <1>3 DEF Split
  <2>2. Cvtdec0[w] = <<Digit(w)>>
    <3>1. Cvtdec0Step(Cvtdec0, w) = <<>> \o <<Digit(w)>>
      BY <2>1 DEF Cvtdec0Step
    <3> QED BY <2>1, <3>1
  <2>3. 10 \in {10, 16} /\ w \in 0..(10 - 1)
    BY <2>1
  <2> QED BY <2>2, <2>3, DigitIsNumeral
<1>4. ASSUME NEW w \in 0..n, w >= 10, Writes(Cvtdec0[w \div 10], w \div 10, 10)
      PROVE  Writes(Cvtdec0[w], w, 10)
  <2>1. PICK q \in Nat, d \in 0..9 : q = w \div 10 /\ d = w % 10 /\ w = q * 10 + d /\ q # 0
    <3>1. /\ w \div 10 \in Nat /\ w % 10 \in 0..9 /\ w = (w \div 10) * 10 + (w % 10)
          /\ w \div 10 # 0
      BY <1>1, <1>4
    <3> QED BY <3>1
  <2>2. w \in Words /\ Split(w).quotient = q /\ Split(w).value % 10 = d
    BY <1>1, <1>2, <2>1 DEF Split
  <2>3. Cvtdec0[w] = Cvtdec0[q] \o <<Digit(d)>>
    BY <2>1, <2>2 DEF Cvtdec0Step
  <2>4. Writes(Cvtdec0[q], q, 10)
    BY <1>4, <2>1
  <2>5. Cvtdec0[q] \o <<Digit(d)>> = Append(Cvtdec0[q], Digit(d))
    BY <2>4 DEF Writes
  <2>6. 10 \in {10, 16} /\ d \in 0..(10 - 1)
    OBVIOUS
  <2>7. Writes(Append(Cvtdec0[q], Digit(d)), q * 10 + d, 10)
    BY <2>1, <2>4, <2>6, NumeralGrows
  <2> QED BY <2>1, <2>3, <2>5, <2>7
<1>5. 0 \in S
  BY <1>1, <1>3
<1>6. ASSUME NEW m \in 0..(n - 1), m \in S PROVE m + 1 \in S
  <2>1. m + 1 \in 0..n /\ (m + 1 >= 10 => (m + 1) \div 10 \in 0..m)
    BY <1>1
  <2>2. Writes(Cvtdec0[m + 1], m + 1, 10)
    BY <1>3, <1>4, <1>6, <2>1
  <2>3. \A k \in 0..(m + 1) : k = m + 1 \/ k \in 0..m
    OBVIOUS
  <2> QED BY <1>6, <2>1, <2>2, <2>3
<1>7. 0..n \subseteq S
  <2> HIDE DEF S
  <2> QED BY <1>1, <1>5, <1>6, IntervalInduction
<1>8. v \in 0..n
  BY <1>1
<1>9. v \in S /\ v \in 0..v
  BY <1>7, <1>8
<1> QED BY <1>9

\* A quotient by 16 times as much is the quotient without its last digit.
LEMMA QuotientIs ==
  ASSUME NEW u \in Nat, NEW m \in Nat, m >= 1, NEW a \in Nat,
         a * m <= u, u < a * m + m
  PROVE  u \div m = a
<1> DEFINE b == u \div m
<1>1. b \in Nat /\ b * m <= u /\ u < b * m + m
  BY SMT
<1> HIDE DEF b
<1>2. ~(a < b)
  <2>1. SUFFICES ASSUME a < b PROVE FALSE
    OBVIOUS
  <2>2. PICK c \in Nat : b = a + 1 + c
    <3>1. b - a - 1 \in Nat /\ b = a + 1 + (b - a - 1)
      BY <1>1, <2>1
    <3> QED BY <3>1
  <2>3. b * m = a * m + m + c * m
    BY <2>2
  <2>4. c * m \in Nat /\ a * m \in Nat
    OBVIOUS
  <2> DEFINE x == c * m
             y == a * m
             z == b * m
  <2> HIDE DEF x, y, z
  <2>5. x \in Nat /\ y \in Nat /\ z = y + m + x /\ z <= u /\ u < y + m
    BY <1>1, <2>3, <2>4 DEF x, y, z
  <2> QED BY ONLY <2>5, u \in Nat, m \in Nat
<1>3. ~(b < a)
  <2>1. SUFFICES ASSUME b < a PROVE FALSE
    OBVIOUS
  <2>2. PICK c \in Nat : a = b + 1 + c
    <3>1. a - b - 1 \in Nat /\ a = b + 1 + (a - b - 1)
      BY <1>1, <2>1
    <3> QED BY <3>1
  <2>3. a * m = b * m + m + c * m
    BY <1>1, <2>2
  <2>4. c * m \in Nat /\ b * m \in Nat
    BY <1>1
  <2> DEFINE x == c * m
             y == b * m
             z == a * m
  <2> HIDE DEF x, y, z
  <2>5. x \in Nat /\ y \in Nat /\ z = y + m + x /\ z <= u /\ u < y + m
    BY <1>1, <2>3, <2>4 DEF x, y, z
  <2> QED BY ONLY <2>5, u \in Nat, m \in Nat
<1>4. b = a
  BY <1>1, <1>2, <1>3
<1> QED BY <1>4 DEF b

LEMMA QuotientStep ==
  ASSUME NEW u \in Nat, NEW m \in Nat, m >= 1
  PROVE  /\ u \div m \in Nat /\ u \div (16 * m) \in Nat /\ (u \div m) % 16 \in 0..15
         /\ u \div m = (u \div (16 * m)) * 16 + ((u \div m) % 16)
<1> DEFINE q == u \div m
           a == q \div 16
           r == q % 16
<1>1. q \in Nat /\ q * m <= u /\ u < q * m + m
  BY SMT
<1> HIDE DEF q
<1>2. a \in Nat /\ r \in 0..15 /\ q = a * 16 + r
  BY <1>1
<1> HIDE DEF a, r
<1>3. q * m = 16 * (a * m) + r * m /\ a * (16 * m) = 16 * (a * m)
  BY <1>2
<1>4. a * m \in Nat /\ r * m \in Nat /\ 16 * m \in Nat /\ 16 * m >= 1
  BY <1>2
<1>5. r * m <= 15 * m
  <2>1. 15 * m = r * m + (15 - r) * m /\ (15 - r) * m \in Nat
    BY <1>2
  <2> DEFINE x == (15 - r) * m
             y == r * m
  <2> HIDE DEF x, y
  <2>2. x \in Nat /\ y \in Nat /\ 15 * m = y + x
    BY <1>4, <2>1 DEF x, y
  <2>3. y <= 15 * m
    BY <2>2
  <2> QED BY <2>3 DEF y
<1>6. a * (16 * m) <= u /\ u < a * (16 * m) + 16 * m
  <2> DEFINE x == a * m
             y == r * m
             z == q * m
             w == a * (16 * m)
  <2> HIDE DEF x, y, z, w
  <2>1. x \in Nat /\ y \in Nat /\ z = 16 * x + y /\ w = 16 * x /\ z <= u /\ u < z + m /\ y <= 15 * m
    BY <1>1, <1>3, <1>4, <1>5 DEF x, y, z, w
  <2>2. w <= u /\ u < w + 16 * m
    BY <2>1
  <2> QED BY <2>2 DEF w
<1>7. u \div (16 * m) = a
  BY <1>2, <1>4, <1>6, QuotientIs
<1> QED BY <1>1, <1>2, <1>7 DEF q, r

\* The nibbles of a word, put one behind the other.
IsSpelled(u, v) ==
  /\ u[0] = 0 /\ u[HEX_DIGITS] = Unsigned(v)
  /\ \A k \in 1..HEX_DIGITS : Nibble(v, k) \in 0..15 /\ u[k] = u[k - 1] * 16 + Nibble(v, k)

LEMMA NibblesSpell ==
  ASSUME NEW v \in Words
  PROVE  \E u \in [0..HEX_DIGITS -> Nat] : IsSpelled(u, v)
<1> DEFINE H == HEX_DIGITS
           U == Unsigned(v)
           u == [k \in 0..H |-> U \div Power2[4 * (H - k)]]
<1>1. H \in Nat /\ H >= 2 /\ WORD_BITS = 4 * H /\ Power2[WORD_BITS] = 2 * HALF
  BY HalfFacts
<1>2. U \in Nat /\ U < 2 * HALF
  BY WordsAre DEF Unsigned
<1> HIDE DEF H, U
<1>3. ASSUME NEW k \in 0..H
      PROVE  4 * (H - k) \in 0..WORD_BITS /\ Power2[4 * (H - k)] \in Nat /\ Power2[4 * (H - k)] >= 1
  <2>1. 4 * (H - k) \in 0..WORD_BITS
    BY <1>1
  <2> QED BY <2>1, Power2Facts
<1>4. ASSUME NEW k \in 1..H
      PROVE  Nibble(v, k) \in 0..15 /\ u[k] = u[k - 1] * 16 + Nibble(v, k) /\ u[k] \in Nat
  <2>1. k \in 0..H /\ k - 1 \in 0..H /\ 4 * (H - (k - 1)) = 4 * (H - k) + 4
    BY <1>1
  <2>2. PICK m \in Nat : m = Power2[4 * (H - k)] /\ m >= 1
    BY <1>3, <2>1
  <2>3. Power2[4 * (H - (k - 1))] = 16 * m
    <3>1. 4 * (H - k) \in Nat /\ 4 * (H - k) + 4 <= WORD_BITS
      BY <1>1
    <3>2. Power2[4 * (H - k) + 4] = 16 * Power2[4 * (H - k)]
      BY <3>1, Power2Jumps
    <3> QED BY <2>1, <2>2, <3>2
  <2>4. u[k] = U \div m /\ u[k - 1] = U \div (16 * m) /\ Nibble(v, k) = (U \div m) % 16
    BY <2>1, <2>2, <2>3 DEF Nibble, U, H
  <2>5. /\ U \div m \in Nat /\ (U \div m) % 16 \in 0..15
        /\ U \div m = (U \div (16 * m)) * 16 + ((U \div m) % 16)
    BY <1>2, <2>2, QuotientStep
  <2> HIDE DEF u
  <2> QED BY <2>4, <2>5
<1>5. u[0] = 0
  <2>1. 0 \in 0..H /\ 4 * (H - 0) = WORD_BITS
    BY <1>1
  <2>2. u[0] = U \div (2 * HALF)
    BY <1>1, <2>1
  <2>3. HALF \in Nat /\ HALF >= 1
    BY WordsAre
  <2>4. U \div (2 * HALF) = 0
    BY <1>2, <2>3, QuotientIs
  <2> QED BY <2>2, <2>4
<1>6. u[H] = U
  <2>1. H \in 0..H /\ 4 * (H - H) = 0
    BY <1>1
  <2>2. Power2[0] = 1
    BY Power2Facts
  <2>3. u[H] = U \div 1
    BY <2>1, <2>2
  <2> HIDE DEF u
  <2> QED BY <1>2, <2>3
<1>7. u \in [0..H -> Nat]
  <2>1. ASSUME NEW k \in 0..H PROVE U \div Power2[4 * (H - k)] \in Nat
    BY <1>2, <1>3
  <2> QED BY <2>1
<1> HIDE DEF u
<1>8. IsSpelled(u, v)
  BY <1>4, <1>5, <1>6 DEF IsSpelled, H, U
<1> QED BY <1>7, <1>8 DEF H

\* Digits are stored one behind the other.
IsStoring(h, digits, n) ==
  /\ h[0] = <<>>
  /\ \A k \in 1..n : h[k] = Store(h[k - 1], digits[k], k = n)

LEMMA StoringExists ==
  ASSUME NEW digits, NEW k \in Nat
  PROVE  \E h \in [0..k -> Seq({Digit(digits[i]) : i \in 1..k})] :
           IsStoring(h, digits, k) /\ Stored(digits, k) = h[k]
<1> DEFINE W == {Digit(digits[i]) : i \in 1..k}
<1> DEFINE n == k
           s == [i \in 1..k |-> i]
           A == Seq(W)
           B == 1..k
           G == [q \in A \X B |-> Store(q[1], digits[q[2]], q[2] = k)]
           F == CHOOSE f : f = [T \in SUBSET (1..n) |->
                  IF T = {} THEN <<>> ELSE Store(f[T \ {Max(T)}], digits[s[Max(T)]], s[Max(T)] = k)]
<1>1. n \in Nat /\ s \in [1..n -> B] /\ DOMAIN s = 1..n /\ <<>> \in A
  OBVIOUS
<1>2. ASSUME NEW r \in A, NEW e \in B PROVE Store(r, digits[e], e = k) \in A
  <2>1. Digit(digits[e]) \in W
    OBVIOUS
  <2> HIDE DEF W
  <2> QED BY <1>2, <2>1 DEF Store
<1>3. G \in [A \X B -> A]
  BY <1>2
<1>4. Stored(digits, k) = F[1..n]
  BY <1>1 DEF FoldLeft, MapThenFoldSet, Stored
<1> HIDE DEF n, s, A, B, W
<1>5. F = [T \in SUBSET (1..n) |-> IF T = {} THEN <<>> ELSE Store(F[T \ {Max(T)}], digits[s[Max(T)]], s[Max(T)] = k)]
  <2>1. PICK f \in [SUBSET (1..n) -> A] : IsFold(f, G, <<>>, s, n)
    <3> HIDE DEF G
    <3> QED BY <1>1, <1>3, FoldExists
  <2>2. ASSUME NEW T \in SUBSET (1..n), T # {}
        PROVE  G[<<f[T \ {Max(T)}], s[Max(T)]>>] = Store(f[T \ {Max(T)}], digits[s[Max(T)]], s[Max(T)] = k)
    <3>1. Max(T) \in 1..n /\ T \ {Max(T)} \in SUBSET (1..n)
      BY <1>1, <2>2, MaxFacts
    <3>2. f[T \ {Max(T)}] \in A /\ s[Max(T)] \in B
      BY <1>1, <3>1
    <3> QED BY <3>2
  <2> HIDE DEF G
  <2>3. f = [T \in SUBSET (1..n) |-> IF T = {} THEN <<>> ELSE Store(f[T \ {Max(T)}], digits[s[Max(T)]], s[Max(T)] = k)]
    BY <2>1, <2>2 DEF IsFold
  <2>4. \E g : g = [T \in SUBSET (1..n) |-> IF T = {} THEN <<>> ELSE Store(g[T \ {Max(T)}], digits[s[Max(T)]], s[Max(T)] = k)]
    BY <2>3
  <2> QED BY <2>4
<1> HIDE DEF F
<1>6. IsFoldIn(A, F, G, <<>>, s, n)
  <2>1. F[{}] = <<>>
    BY <1>5
  <2>2. ASSUME NEW T \in SUBSET (1..n), T # {}, F[T \ {Max(T)}] \in A
        PROVE  F[T] = G[<<F[T \ {Max(T)}], s[Max(T)]>>]
    <3>1. Max(T) \in 1..n
      BY <1>1, <2>2, MaxFacts
    <3>2. F[T] = Store(F[T \ {Max(T)}], digits[s[Max(T)]], s[Max(T)] = k) /\ s[Max(T)] \in B
      BY <1>1, <1>5, <2>2, <3>1
    <3> QED BY <2>2, <3>2
  <2> HIDE DEF G
  <2> QED BY <2>1, <2>2 DEF IsFoldIn
<1> HIDE DEF G
<1>7. IsFoldEnd(A, F[1..n], G, <<>>, s, n)
  BY <1>1, <1>3, <1>6, FoldChain
<1>8. PICK h \in [0..n -> A] : IsFoldChain(h, G, <<>>, s, n) /\ F[1..n] = h[n]
  BY <1>7 DEF IsFoldEnd
<1>9. ASSUME NEW i \in 1..n PROVE h[i] = Store(h[i - 1], digits[i], i = k)
  <2>1. i - 1 \in 0..n /\ s[i] = i /\ i \in B
    BY <1>1 DEF s, B, n
  <2>2. h[i] = G[<<h[i - 1], s[i]>>] /\ h[i - 1] \in A
    BY <1>8, <2>1 DEF IsFoldChain
  <2> QED BY <2>1, <2>2 DEF G
<1>10. h[0] = <<>> /\ Stored(digits, k) = h[n]
  BY <1>4, <1>8 DEF IsFoldChain
<1> QED BY <1>8, <1>9, <1>10 DEF IsStoring, n, A, W

LEMMA StoredIsText ==
  ASSUME NEW digits, NEW k \in Nat
  PROVE  IsText(Stored(digits, k))
<1> DEFINE W == {Digit(digits[i]) : i \in 1..k}
<1>1. PICK h \in [0..k -> Seq(W)] : Stored(digits, k) = h[k]
  BY StoringExists
<1> HIDE DEF W
<1>2. Stored(digits, k) \in Seq(W)
  BY <1>1
<1> QED BY <1>2 DEF IsText

\* cvthex leaves the zeroes in front out.
LEMMA CvthexIsNumeral ==
  ASSUME NEW v \in Words
  PROVE  Writes(Cvthex(v), Unsigned(v), 16)
<1> DEFINE H == HEX_DIGITS
           digits == [i \in 1..H |-> Nibble(v, i)]
           Right(x, y) == (y = 0 /\ x = <<>>) \/ (y # 0 /\ Writes(x, y, 16))
<1>1. H \in Nat /\ H >= 2
  BY HalfFacts
<1>2. PICK u \in [0..H -> Nat] : IsSpelled(u, v)
  BY NibblesSpell
<1>3. PICK h : IsStoring(h, digits, H) /\ Cvthex(v) = h[H]
  BY <1>1, StoringExists DEF Cvthex
<1> HIDE DEF H
<1>4. ASSUME NEW k \in 1..H
      PROVE  /\ u[k - 1] \in Nat /\ Nibble(v, k) \in 0..15 /\ u[k] = u[k - 1] * 16 + Nibble(v, k)
             /\ h[k] = Store(h[k - 1], Nibble(v, k), k = H)
  BY <1>1, <1>2, <1>3 DEF IsSpelled, IsStoring, H
<1> HIDE DEF digits
<1>5. ASSUME NEW k \in 1..H, Right(h[k - 1], u[k - 1]),
             u[k - 1] # 0 \/ Nibble(v, k) # 0 \/ k = H
      PROVE  Writes(h[k], u[k], 16)
  <2> DEFINE d == Nibble(v, k)
  <2>1. 16 \in {10, 16} /\ d \in 0..(16 - 1)
    BY <1>4
  <2>2. CASE u[k - 1] # 0
    <3>1. Writes(h[k - 1], u[k - 1], 16)
      BY <1>5, <2>2
    <3>2. h[k - 1] # <<>>
      BY <3>1 DEF Writes, IsNumeral
    <3>3. h[k] = Append(h[k - 1], Digit(d))
      BY <1>4, <3>2 DEF Store
    <3>4. Writes(Append(h[k - 1], Digit(d)), u[k - 1] * 16 + d, 16)
      <4> HIDE DEF d
      <4> QED BY <1>4, <2>1, <2>2, <3>1, NumeralGrows
    <3> QED BY <1>4, <3>3, <3>4
  <2>3. CASE u[k - 1] = 0
    <3>1. h[k - 1] = <<>> /\ (d # 0 \/ k = H)
      BY <1>5, <2>3
    <3>2. h[k] = Append(<<>>, Digit(d))
      BY <1>4, <3>1 DEF Store
    <3>3. Append(<<>>, Digit(d)) = <<Digit(d)>>
      OBVIOUS
    <3>4. u[k] = d
      <4>1. u[k] = 0 * 16 + d /\ d \in 0..15
        BY <1>4, <2>3
      <4> HIDE DEF d
      <4> QED BY <4>1
    <3>5. Writes(<<Digit(d)>>, d, 16)
      <4> HIDE DEF d
      <4> QED BY <2>1, DigitIsNumeral
    <3> QED BY <3>2, <3>3, <3>4, <3>5
  <2> QED BY <2>2, <2>3
<1>6. ASSUME NEW k \in 1..H, Right(h[k - 1], u[k - 1]), u[k - 1] = 0, Nibble(v, k) = 0, k # H
      PROVE  u[k] = 0 /\ h[k] = <<>>
  <2>1. h[k - 1] = <<>> /\ u[k] = 0
    BY <1>4, <1>6
  <2> QED BY <1>4, <1>6, <2>1 DEF Store
<1> DEFINE S == {k \in 0..(H - 1) : Right(h[k], u[k])}
<1>7. 0 \in S
  BY <1>1, <1>2, <1>3 DEF IsSpelled, IsStoring
<1>8. ASSUME NEW k \in 0..((H - 1) - 1), k \in S PROVE k + 1 \in S
  <2>1. k + 1 \in 1..H /\ (k + 1) - 1 = k /\ k + 1 # H /\ k + 1 \in 0..(H - 1)
    BY <1>1
  <2>2. Right(h[(k + 1) - 1], u[(k + 1) - 1])
    BY <1>8, <2>1
  <2>3. CASE u[k] # 0 \/ Nibble(v, k + 1) # 0
    <3>1. Writes(h[k + 1], u[k + 1], 16)
      BY <1>5, <2>1, <2>2, <2>3
    <3>2. u[k] \in Nat /\ Nibble(v, k + 1) \in 0..15 /\ u[k + 1] = u[k] * 16 + Nibble(v, k + 1)
      BY <1>4, <2>1
    <3>3. u[k + 1] # 0
      <4>1. ASSUME NEW a \in Nat, NEW b \in 0..15, a # 0 \/ b # 0 PROVE a * 16 + b # 0
        BY <4>1
      <4> QED BY ONLY <2>3, <3>2, <4>1
    <3> QED BY <2>1, <3>1, <3>3
  <2>4. CASE u[k] = 0 /\ Nibble(v, k + 1) = 0
    BY <1>6, <2>1, <2>2, <2>4
  <2> QED BY <2>3, <2>4
<1>9. H - 1 \in S
  <2> HIDE DEF S
  <2>1. H - 1 \in Nat /\ H - 1 \in 0..(H - 1)
    BY <1>1
  <2>2. 0..(H - 1) \subseteq S
    BY <1>7, <1>8, <2>1, IntervalInduction
  <2> QED BY <2>1, <2>2
<1>10. H \in 1..H
  BY <1>1
<1>11. Writes(h[H], u[H], 16)
  BY <1>5, <1>9, <1>10
<1>12. u[H] = Unsigned(v)
  BY <1>2 DEF IsSpelled, H
<1> QED BY <1>3, <1>11, <1>12

\* itos16 with all its digits.
LEMMA Itos16AllIs ==
  ASSUME NEW v \in Words
  PROVE  Len(Itos16All(v)) = HEX_DIGITS /\ ValueOf(Itos16All(v), 16) = Unsigned(v)
<1> DEFINE H == HEX_DIGITS
           t == Itos16All(v)
<1>1. H \in Nat /\ H >= 2
  BY HalfFacts
<1>2. PICK u \in [0..H -> Nat] : IsSpelled(u, v)
  BY NibblesSpell
<1>3. \A k \in 1..H : Nibble(v, k) \in 0..15 /\ u[k] = u[k - 1] * 16 + Nibble(v, k)
  BY <1>2 DEF IsSpelled
<1>4. t = [k \in 1..H |-> Digit(Nibble(v, k))]
  BY DEF Itos16All
<1> HIDE DEF H, t
<1>5. IsNumberText(t) /\ Len(t) = H
  <2> DEFINE C == {Digit(d) : d \in 0..15}
  <2>1. \A k \in 1..H : Digit(Nibble(v, k)) \in C
    BY <1>3
  <2> HIDE DEF C
  <2>2. t \in [1..H -> C]
    BY <1>4, <2>1
  <2>3. t \in Seq(C) /\ Len(t) = H
    BY <1>1, <2>2
  <2> QED BY <2>3 DEF C, IsNumberText
<1>6. PICK h \in [0..H -> Nat] : IsReading(h, t, 16) /\ ValueOf(t, 16) = h[H]
  <2>1. 16 \in Nat
    OBVIOUS
  <2> QED BY <1>5, <2>1, ReadingExists
<1>7. \A k \in 1..H : DigitValue(t[k]) = Nibble(v, k)
  BY <1>3, <1>4, DigitValueIs
<1>8. ReadsSo(u, t, 16, H)
  BY <1>2, <1>3, <1>7 DEF IsSpelled, ReadsSo
<1>9. ReadsSo(h, t, 16, H)
  BY <1>5, <1>6 DEF IsReading, ReadsSo
<1>10. h[H] = u[H]
  BY <1>1, <1>8, <1>9, ReadingIsOne
<1>11. u[H] = Unsigned(v)
  BY <1>2 DEF IsSpelled, H
<1> QED BY <1>5, <1>6, <1>10, <1>11 DEF H, t

\* Every word is printed as the number that it is.
LEMMA WordIsPrintedRight ==
  ASSUME NEW v \in Words
  PROVE  IsPrintedRight(v)
<1>1. HALF \in Nat /\ HALF >= 1 /\ v \in Int /\ -HALF <= v /\ v < HALF
  BY WordsAre
<1>2. \A w \in Words : w >= 0 => Writes(Cvtdec0[w], w, 10)
  BY Cvtdec0Unfolds, Cvtdec0IsNumeral
<1>3. CASE v >= 0
  <2>1. ~(v < 0) /\ Cvtdec(v) = Cvtdec0[v]
    BY <1>1, <1>3 DEF Cvtdec
  <2>2. IsNumeral(Cvtdec(v), v, 10)
    BY <1>2, <1>3, <2>1 DEF Writes
  <2> QED BY <2>1, <2>2, CvthexIsNumeral, Itos16AllIs DEF IsPrintedRight, Writes
<1>4. CASE v < 0
  <2>1. Writes(Cvtdec0[Negated(v)], -v, 10)
    <3>1. CASE v # -HALF
      <4>1. Negated(v) = -v /\ -v \in Words /\ -v >= 0
        BY <1>1, <1>4, <3>1 DEF Negated, Words
      <4> QED BY <1>2, <4>1
    <3>2. CASE v = -HALF
      <4>1. PICK q \in Nat : HALF = 10 * q + 8
        BY HalfFacts
      <4>2. HALF \div 10 = q /\ 8 % 10 = 8
        BY <4>1
      <4>3. Negated(v) = v /\ Split(v).quotient = q /\ Split(v).value % 10 = 8
        BY <1>4, <3>2, <4>2 DEF Negated, Split
      <4>4. CASE q = 0
        <5>1. Cvtdec0[v] = <<>> \o <<Digit(8)>>
          BY <4>3, <4>4, Cvtdec0Unfolds DEF Cvtdec0Step
        <5>2. 10 \in {10, 16} /\ 8 \in 0..(10 - 1)
          OBVIOUS
        <5>3. HALF = 8 /\ -v = 8
          <6>1. 10 * q = 0
            BY <4>4
          <6>2. HALF = 8
            BY <4>1, <6>1
          <6>3. -v = HALF
            BY <1>1, <3>2
          <6> QED BY <6>2, <6>3
        <5>4. <<>> \o <<Digit(8)>> = <<Digit(8)>>
          OBVIOUS
        <5>5. Writes(<<Digit(8)>>, 8, 10)
          BY <5>2, DigitIsNumeral
        <5> QED BY <4>3, <5>1, <5>3, <5>4, <5>5
      <4>5. CASE q # 0
        <5>1. Cvtdec0[v] = Cvtdec0[q] \o <<Digit(8)>>
          BY <4>3, <4>5, Cvtdec0Unfolds DEF Cvtdec0Step
        <5>2. q \in Words /\ q >= 0
          BY <1>1, <4>1 DEF Words
        <5>3. Writes(Cvtdec0[q], q, 10)
          BY <1>2, <5>2
        <5>4. Cvtdec0[q] \o <<Digit(8)>> = Append(Cvtdec0[q], Digit(8))
          BY <5>3 DEF Writes
        <5>5. 10 \in {10, 16} /\ 8 \in 0..(10 - 1) /\ -v = q * 10 + 8
          BY <1>1, <3>2, <4>1
        <5>6. Writes(Append(Cvtdec0[q], Digit(8)), q * 10 + 8, 10)
          BY <4>5, <5>3, <5>5, NumeralGrows
        <5> QED BY <4>3, <5>1, <5>4, <5>5, <5>6
      <4> QED BY <4>4, <4>5
    <3> QED BY <3>1, <3>2
  <2> DEFINE s == Cvtdec0[Negated(v)]
             C == {Digit(d) : d \in 0..(10 - 1)}
  <2>2. s \in Seq(C) /\ IsNumeral(s, -v, 10)
    BY <2>1 DEF Writes
  <2>3. Cvtdec(v) = <<"-">> \o s
    BY <1>4 DEF Cvtdec
  <2> HIDE DEF s, C
  <2>4. Head(<<"-">> \o s) = "-" /\ Tail(<<"-">> \o s) = s
    <3> DEFINE D == C \cup {"-"}
    <3>1. s \in Seq(D) /\ "-" \in D
      BY <2>2
    <3> HIDE DEF D
    <3> QED BY <3>1
  <2> QED BY <1>4, <2>2, <2>3, <2>4, CvthexIsNumeral, Itos16AllIs DEF IsPrintedRight, Writes
<1> QED BY <1>1, <1>3, <1>4

\* Numbers are printed as what they are (c_io.c:292-347, ulibc.c:70-101,
\* 136-152), the one whose negation overflows and those with zeroes inside too:
\* for every width of a word, whatever else is printed.
THEOREM NumbersAreRightHolds == MCSpec => []NumbersAreRight
<1>1. MCInit => number \in Words
  BY DEF MCInit, MCNumbers
<1>2. number \in Words /\ [MCNext]_MCVars => (number \in Words)'
  BY DEF MCNext, MCVars
<1>3. number \in Words => NumbersAreRight
  BY WordIsPrintedRight DEF NumbersAreRight
<1> QED BY <1>1, <1>2, <1>3, PTL DEF MCSpec

-----------------------------------------------------------------------------
(* What is printed: texts, whatever their characters are.                  *)

\* The echo of what is read.
LEMMA EchoIsShort ==
  ASSUME NEW chars \in Seq(Chars)
  PROVE  \E n \in 0..Len(chars) : Echo(chars) \in [1..n -> {Solid, "\n", "\r"}]
<1> DEFINE W == {Solid, "\n", "\r"}
<1> DEFINE n == Len(chars)
           s == chars
           A == Seq(W)
           B == Chars
           G == [q \in A \X B |-> (IF IsEcho(q[2]) THEN Append(q[1], Glyph(q[2])) ELSE q[1])]
           F == CHOOSE f : f = [T \in SUBSET (1..n) |->
                  IF T = {} THEN <<>> ELSE (IF IsEcho(s[Max(T)]) THEN Append(f[T \ {Max(T)}], Glyph(s[Max(T)])) ELSE f[T \ {Max(T)}])]
<1>1. n \in Nat /\ s \in [1..n -> B] /\ DOMAIN s = 1..n /\ <<>> \in A
  BY LenProperties, ElementOfSeq
<1>2. ASSUME NEW r \in A, NEW e \in B PROVE (IF IsEcho(e) THEN Append(r, Glyph(e)) ELSE r) \in A
  <2>1. Glyph(e) \in W
    BY DEF Glyph, NEWLINE, RETURN
  <2> HIDE DEF W
  <2> QED BY <1>2, <2>1
<1>3. G \in [A \X B -> A]
  BY <1>2
<1>4. Echo(chars) = F[1..n]
  BY <1>1 DEF FoldLeft, MapThenFoldSet, Echo
<1> HIDE DEF n, s, A, B, W
<1>5. F = [T \in SUBSET (1..n) |-> IF T = {} THEN <<>> ELSE (IF IsEcho(s[Max(T)]) THEN Append(F[T \ {Max(T)}], Glyph(s[Max(T)])) ELSE F[T \ {Max(T)}])]
  <2>1. PICK f \in [SUBSET (1..n) -> A] : IsFold(f, G, <<>>, s, n)
    <3> HIDE DEF G
    <3> QED BY <1>1, <1>3, FoldExists
  <2>2. ASSUME NEW T \in SUBSET (1..n), T # {}
        PROVE  G[<<f[T \ {Max(T)}], s[Max(T)]>>] = (IF IsEcho(s[Max(T)]) THEN Append(f[T \ {Max(T)}], Glyph(s[Max(T)])) ELSE f[T \ {Max(T)}])
    <3>1. Max(T) \in 1..n /\ T \ {Max(T)} \in SUBSET (1..n)
      BY <1>1, <2>2, MaxFacts
    <3>2. f[T \ {Max(T)}] \in A /\ s[Max(T)] \in B
      BY <1>1, <3>1
    <3> QED BY <3>2
  <2> HIDE DEF G
  <2>3. f = [T \in SUBSET (1..n) |-> IF T = {} THEN <<>> ELSE (IF IsEcho(s[Max(T)]) THEN Append(f[T \ {Max(T)}], Glyph(s[Max(T)])) ELSE f[T \ {Max(T)}])]
    BY <2>1, <2>2 DEF IsFold
  <2>4. \E g : g = [T \in SUBSET (1..n) |-> IF T = {} THEN <<>> ELSE (IF IsEcho(s[Max(T)]) THEN Append(g[T \ {Max(T)}], Glyph(s[Max(T)])) ELSE g[T \ {Max(T)}])]
    BY <2>3
  <2> QED BY <2>4
<1> HIDE DEF F
<1>6. IsFoldIn(A, F, G, <<>>, s, n)
  <2>1. F[{}] = <<>>
    BY <1>5
  <2>2. ASSUME NEW T \in SUBSET (1..n), T # {}, F[T \ {Max(T)}] \in A
        PROVE  F[T] = G[<<F[T \ {Max(T)}], s[Max(T)]>>]
    <3>1. Max(T) \in 1..n
      BY <1>1, <2>2, MaxFacts
    <3>2. F[T] = (IF IsEcho(s[Max(T)]) THEN Append(F[T \ {Max(T)}], Glyph(s[Max(T)])) ELSE F[T \ {Max(T)}]) /\ s[Max(T)] \in B
      BY <1>1, <1>5, <2>2, <3>1
    <3> QED BY <2>2, <3>2
  <2> HIDE DEF G
  <2> QED BY <2>1, <2>2 DEF IsFoldIn
<1> HIDE DEF G
<1>7. IsFoldEnd(A, F[1..n], G, <<>>, s, n)
  BY <1>1, <1>3, <1>6, FoldChain
<1>8. PICK h \in [0..n -> A] : IsFoldChain(h, G, <<>>, s, n) /\ F[1..n] = h[n]
  BY <1>7 DEF IsFoldEnd
<1> DEFINE S == {k \in 0..n : Len(h[k]) \in 0..k}
<1>9. ASSUME NEW i \in 1..n
      PROVE  /\ h[i] = IF IsEcho(s[i]) THEN Append(h[i - 1], Glyph(s[i])) ELSE h[i - 1]
             /\ i - 1 \in 0..n /\ h[i - 1] \in Seq(W)
  <2>1. i - 1 \in 0..n /\ s[i] \in B
    BY <1>1
  <2>2. h[i] = G[<<h[i - 1], s[i]>>] /\ h[i - 1] \in A
    BY <1>8, <2>1 DEF IsFoldChain
  <2> QED BY <2>1, <2>2 DEF G, A
<1>10. h[0] = <<>> /\ Echo(chars) = h[n]
  BY <1>4, <1>8 DEF IsFoldChain
<1>11. 0 \in S
  BY <1>1, <1>10
<1>12. ASSUME NEW k \in 0..(n - 1), k \in S PROVE k + 1 \in S
  <2>1. k + 1 \in 1..n /\ k + 1 \in 0..n /\ (k + 1) - 1 = k
    BY <1>1
  <2>2. PICK t \in Seq(W) : t = h[k]
    BY <1>9, <2>1
  <2>3. h[k + 1] = t \/ \E c : h[k + 1] = Append(t, c)
    BY <1>9, <2>1, <2>2
  <2>4. Len(h[k + 1]) = Len(t) \/ Len(h[k + 1]) = Len(t) + 1
    BY <2>3
  <2> QED BY <1>12, <2>1, <2>2, <2>4
<1>13. n \in S
  <2> HIDE DEF S
  <2>1. 0..n \subseteq S
    BY <1>1, <1>11, <1>12, IntervalInduction
  <2>2. n \in 0..n
    BY <1>1
  <2> QED BY <2>1, <2>2
<1>14. Echo(chars) \in Seq(W)
  <2>1. n \in 0..n
    BY <1>1
  <2> QED BY <1>8, <1>10, <2>1 DEF A
<1>15. Echo(chars) \in [1..Len(Echo(chars)) -> W]
  BY <1>14
<1> QED BY <1>10, <1>13, <1>15 DEF W, n

LEMMA EchoIsText ==
  ASSUME NEW chars \in Seq(Chars)
  PROVE  IsText(Echo(chars))
<1>1. PICK n \in 0..Len(chars) : Echo(chars) \in [1..n -> {Solid, "\n", "\r"}]
  BY EchoIsShort
<1>2. n \in Nat
  BY LenProperties
<1>3. Echo(chars) \in Seq({Solid, "\n", "\r"})
  BY <1>1, <1>2
<1> QED BY <1>3 DEF IsText

LEMMA PaddedIsText ==
  ASSUME NEW W, NEW str \in Seq(W), NEW width \in Nat, NEW left, NEW fill
  PROVE  IsText(Padded(str, width, left, fill))
<1> DEFINE extra == [i \in 1..(width - Len(str)) |-> fill]
           U == W \cup {fill}
<1>1. extra \in Seq(U)
  <2>1. Len(str) \in Nat
    BY LenProperties
  <2>2. CASE width >= Len(str)
    <3>1. width - Len(str) \in Nat /\ extra \in [1..(width - Len(str)) -> U]
      BY <2>1, <2>2
    <3> HIDE DEF extra
    <3> QED BY <3>1, FunctionIsSeq
  <2>3. CASE ~(width >= Len(str))
    <3>1. 1..(width - Len(str)) = 1..0
      BY <2>1, <2>3
    <3>2. extra \in [1..0 -> U]
      BY <3>1
    <3> HIDE DEF extra
    <3> QED BY <3>2, FunctionIsSeq
  <2> QED BY <2>2, <2>3
<1>2. str \in Seq(U)
  OBVIOUS
<1> HIDE DEF extra, U
<1>3. str \o extra \in Seq(U) /\ extra \o str \in Seq(U)
  BY <1>1, <1>2, ConcatProperties
<1>4. Padded(str, width, left, fill) \in Seq(U)
  BY <1>3 DEF Padded, extra
<1> QED BY <1>4 DEF IsText

LEMMA FieldIsText ==
  ASSUME NEW f \in Formats
  PROVE  IsText(Field(f))
<1> DEFINE str == CASE f.conv = "d" -> Cvtdec(f.value)
                    [] f.conv = "x" -> Cvthex(f.value)
                    [] f.conv = "o" -> Cvtoct(f.value)
                    [] OTHER -> f.value
<1>1. /\ f.width \in Nat
      /\ f.conv \in {"d", "x", "o"} => f.value \in Words
      /\ f.conv \notin {"d", "x", "o"} => f.value \in Seq(STRING)
  BY TerminalAssumption
<1>2. IsText(Cvthex(f.value)) /\ IsText(Cvtoct(f.value))
  <2>1. HEX_DIGITS \in Nat /\ OCT_DIGITS \in Nat
    BY ConversionsAssumption DEF HEX_DIGITS, OCT_DIGITS
  <2> QED BY <2>1, StoredIsText DEF Cvthex, Cvtoct
<1>3. IsText(str)
  <2>1. CASE f.conv = "d"
    <3>1. str = Cvtdec(f.value) /\ f.value \in Words
      BY <1>1, <2>1
    <3> QED BY <3>1, CvtdecIsText DEF IsText
  <2>2. CASE f.conv = "x"
    BY <1>2, <2>2
  <2>3. CASE f.conv = "o"
    BY <1>2, <2>3
  <2>4. CASE f.conv \notin {"d", "x", "o"}
    <3>1. str = f.value /\ f.value \in Seq(STRING)
      BY <1>1, <2>4
    <3> QED BY <3>1 DEF IsText
  <2> QED BY <2>1, <2>2, <2>3, <2>4
<1>4. Field(f) = Padded(str, f.width, f.left, f.fill)
  BY DEF Field
<1> HIDE DEF str
<1>5. PICK W : str \in Seq(W)
  BY <1>3 DEF IsText
<1> QED BY <1>1, <1>4, <1>5, PaddedIsText

LEMMA FlattenIsText ==
  ASSUME NEW b \in Seq(Seq(STRING))
  PROVE  FlattenSeq(b) \in Seq(STRING)
<1>1. PICK f \in [0..Len(b) -> Seq(STRING)] : FlattenSeq(b) = f[Len(b)]
  BY FlattenUnfolds
<1>2. Len(b) \in 0..Len(b)
  BY LenProperties
<1> QED BY <1>1, <1>2

\* Where the parts of a flattened sequence begin.
LEMMA FlattenParts ==
  ASSUME NEW S, NEW t \in Seq(Seq(S))
  PROVE  \E o \in [0..Len(t) -> Nat] :
           /\ o[0] = 0 /\ o[Len(t)] = Len(FlattenSeq(t))
           /\ \A n \in 1..Len(t) :
                /\ o[n] = o[n - 1] + Len(t[n]) /\ o[n] <= Len(FlattenSeq(t))
                /\ \A i \in 1..Len(t[n]) : FlattenSeq(t)[o[n - 1] + i] = t[n][i]
<1> DEFINE N == Len(t)
<1>1. N \in Nat /\ \A n \in 1..N : t[n] \in Seq(S) /\ Len(t[n]) \in Nat
  BY LenProperties, ElementOfSeq
<1>2. PICK f \in [0..N -> Seq(S)] :
        /\ f[0] = <<>>
        /\ \A k \in 1..N : f[k] = f[k - 1] \o t[k]
        /\ FlattenSeq(t) = f[N]
  BY FlattenUnfolds
<1> DEFINE o == [k \in 0..N |-> Len(f[k])]
<1> HIDE DEF N
<1>3. o \in [0..N -> Nat] /\ \A k \in 0..N : o[k] = Len(f[k]) /\ f[k] \in Seq(S)
  <2>1. \A k \in 0..N : f[k] \in Seq(S) /\ Len(f[k]) \in Nat
    BY <1>2, LenProperties
  <2> QED BY <2>1
<1> HIDE DEF o
<1>4. ASSUME NEW k \in 1..N
      PROVE  /\ o[k] = o[k - 1] + Len(t[k]) /\ o[k - 1] \in Nat /\ o[k] \in Nat
             /\ \A i \in 1..o[k - 1] : f[k][i] = f[k - 1][i]
             /\ \A i \in 1..Len(t[k]) : f[k][o[k - 1] + i] = t[k][i]
  <2>1. k \in 0..N /\ k - 1 \in 0..N
    BY <1>1
  <2>2. PICK a \in Seq(S) : a = f[k - 1]
    BY <1>3, <2>1
  <2>3. PICK b \in Seq(S) : b = t[k]
    BY <1>1
  <2>4. f[k] = a \o b /\ o[k - 1] = Len(a) /\ o[k] = Len(a \o b)
    BY <1>2, <1>3, <2>1, <2>2, <2>3
  <2>5. Len(a) \in Nat /\ Len(b) \in Nat
    BY LenProperties
  <2>6. /\ Len(a \o b) = Len(a) + Len(b)
        /\ \A i \in 1..Len(a) : (a \o b)[i] = a[i]
        /\ \A i \in 1..Len(b) : (a \o b)[Len(a) + i] = b[i]
    OBVIOUS
  <2>7. o[k] = o[k - 1] + Len(t[k]) /\ o[k - 1] \in Nat /\ o[k] \in Nat
    BY <2>3, <2>4, <2>5, <2>6
  <2>8. \A i \in 1..o[k - 1] : f[k][i] = f[k - 1][i]
    BY <2>2, <2>4, <2>6
  <2>9. \A i \in 1..Len(t[k]) : f[k][o[k - 1] + i] = t[k][i]
    BY <2>3, <2>4, <2>6
  <2> QED BY <2>7, <2>8, <2>9
<1> DEFINE Prefix(n, k) == o[n] <= o[k] /\ \A i \in 1..o[n] : f[k][i] = f[n][i]
<1>5. ASSUME NEW n \in 0..N PROVE Prefix(n, N)
  <2> DEFINE T == {j \in 0..(N - n) : Prefix(n, n + j)}
  <2>1. 0 \in T
    <3>1. o[n] \in Nat /\ n + 0 = n /\ 0 \in 0..(N - n)
      BY <1>1, <1>3
    <3> QED BY <3>1
  <2>2. ASSUME NEW j \in 0..((N - n) - 1), j \in T PROVE j + 1 \in T
    <3>1. n + j + 1 \in 1..N /\ (n + j + 1) - 1 = n + j /\ j + 1 \in 0..(N - n) /\ n + (j + 1) = n + j + 1
      BY <1>1
    <3>2. PICK m : m = n + j
      OBVIOUS
    <3>3. m + 1 \in 1..N /\ (m + 1) - 1 = m /\ n + (j + 1) = m + 1
      BY <3>1, <3>2
    <3>4. /\ o[m + 1] = o[m] + Len(t[m + 1]) /\ o[m] \in Nat
          /\ \A i \in 1..o[m] : f[m + 1][i] = f[m][i]
      <4>1. /\ o[m + 1] = o[(m + 1) - 1] + Len(t[m + 1]) /\ o[(m + 1) - 1] \in Nat
            /\ \A i \in 1..o[(m + 1) - 1] : f[m + 1][i] = f[(m + 1) - 1][i]
        BY ONLY <1>4, <3>3, Zenon
      <4> QED BY ONLY <3>3, <4>1, Zenon
    <3>5. Prefix(n, m)
      BY <2>2, <3>2
    <3>6. o[n] \in Nat /\ Len(t[m + 1]) \in Nat
      BY <1>1, <1>3, <3>3
    <3>7. Prefix(n, m + 1)
      BY <3>4, <3>5, <3>6
    <3> HIDE DEF Prefix
    <3> QED BY <3>1, <3>3, <3>7
  <2>3. N - n \in T
    <3> HIDE DEF T
    <3>1. N - n \in Nat
      BY <1>1
    <3>2. 0..(N - n) \subseteq T
      BY <2>1, <2>2, <3>1, IntervalInduction
    <3>3. N - n \in 0..(N - n)
      BY <3>1
    <3> QED BY <3>2, <3>3
  <2>4. n + (N - n) = N
    BY <1>1
  <2> HIDE DEF Prefix
  <2> QED BY <2>3, <2>4
<1>6. o[0] = 0 /\ o[N] = Len(FlattenSeq(t))
  BY <1>1, <1>2, <1>3
<1>7. ASSUME NEW n \in 1..N
      PROVE  /\ o[n] <= o[N]
             /\ \A i \in 1..Len(t[n]) : f[N][o[n - 1] + i] = t[n][i]
  <2>1. n \in 0..N /\ Len(t[n]) \in Nat
    BY <1>1
  <2>2. Prefix(n, N)
    BY <1>5, <2>1
  <2>3. ASSUME NEW i \in 1..Len(t[n]) PROVE o[n - 1] + i \in 1..o[n]
    BY <1>4, <2>1
  <2>4. \A i \in 1..Len(t[n]) : f[n][o[n - 1] + i] = t[n][i]
    BY <1>4
  <2>5. o[n] <= o[N] /\ \A i \in 1..o[n] : f[N][i] = f[n][i]
    BY <2>2
  <2> HIDE DEF Prefix
  <2> QED BY ONLY <2>3, <2>4, <2>5
<1> HIDE DEF Prefix
<1>8. \A n \in 1..N :
        /\ o[n] = o[n - 1] + Len(t[n]) /\ o[n] <= Len(FlattenSeq(t))
        /\ \A i \in 1..Len(t[n]) : FlattenSeq(t)[o[n - 1] + i] = t[n][i]
  <2>1. \A n \in 1..N :
          /\ o[n] = o[n - 1] + Len(t[n]) /\ o[n] <= o[N]
          /\ \A i \in 1..Len(t[n]) : f[N][o[n - 1] + i] = t[n][i]
    BY ONLY <1>4, <1>7, Zenon
  <2>2. FlattenSeq(t) = f[N]
    BY <1>2
  <2> QED BY ONLY <1>6, <2>1, <2>2, Zenon
<1> QED BY ONLY <1>3, <1>6, <1>8, Zenon DEF N

-----------------------------------------------------------------------------
(* Steps.                                                                  *)

LEMMA MoreCharacters ==
  ASSUME NEW V, NEW U, V \subseteq U
  PROVE  Printed(V) \subseteq Printed(U) /\ Screens(V) \subseteq Screens(U)
BY DEF Printed, Screens

\* The region stays and the cursor is where it may be.
LEMMA RegionStays ==
  ASSUME RegionOK, UNCHANGED scroll, NEW V, screen' \in Printed(V)
  PROVE  ScreenInv'
<1>1. RegionOK'
  BY DEF RegionOK
<1>2. screen' \in Printed(V)'
  BY DEF Printed, Screens, CursorAt
<1> QED BY <1>1, <1>2 DEF ScreenInv

LEMMA CursorStays ==
  ASSUME RegionOK, UNCHANGED scroll, NEW V, screen \in Printed(V), screen' \in Stays(V, screen)
  PROVE  ScreenInv'
<1>1. screen' \in Printed(V)
  BY DEF Printed, Stays, CursorAt
<1> QED BY <1>1, RegionStays

LEMMA PutsStep ==
  ASSUME ScreenInv, NEW text, IsText(text), Puts(text)
  PROVE  ScreenInv'
<1>1. PICK V : screen \in Printed(V)
  BY DEF ScreenInv
<1>2. PICK W : text \in Seq(W)
  BY DEF IsText
<1> DEFINE U == V \cup W \cup {BLANK}
<1>3. BLANK \in U /\ V \subseteq U /\ text \in Seq(U)
  BY <1>2
<1> HIDE DEF U
<1>4. screen \in Printed(U) /\ RegionOK
  BY <1>1, <1>3, MoreCharacters DEF ScreenInv
<1>5. FoldLeft(Putchar, screen, text) \in Printed(U)
  BY <1>3, <1>4, PutsKeeps
<1>6. screen' = FoldLeft(Putchar, screen, text) /\ UNCHANGED scroll
  BY DEF Puts
<1>7. screen' \in Printed(U) /\ UNCHANGED scroll
  BY <1>5, <1>6
<1> QED BY <1>4, <1>7, RegionStays

LEMMA PutsAtStep ==
  ASSUME ScreenInv, NEW x, NEW y, NEW text, IsText(text), PutsAt(x, y, text)
  PROVE  ScreenInv'
<1>1. PICK V : screen \in Printed(V)
  BY DEF ScreenInv
<1>2. PICK W : text \in Seq(W)
  BY DEF IsText
<1> DEFINE U == V \cup W \cup {BLANK}
<1>3. BLANK \in U /\ V \subseteq U /\ text \in Seq(U)
  BY <1>2
<1> HIDE DEF U
<1>4. screen \in Printed(U) /\ screen \in Screens(U) /\ RegionOK
  BY <1>1, <1>3, MoreCharacters DEF ScreenInv, Printed
<1>5. screen' \in Stays(U, screen) /\ UNCHANGED scroll
  BY <1>3, <1>4, PutsAtKeeps
<1> QED BY <1>4, <1>5, CursorStays

LEMMA PrintAtStep ==
  ASSUME ScreenInv, NEW x \in Int, NEW y \in Int, NEW text, IsText(text), PrintAt(x, y, text)
  PROVE  ScreenInv'
<1>1. PICK V : screen \in Printed(V)
  BY DEF ScreenInv
<1>2. PICK W : text \in Seq(W)
  BY DEF IsText
<1> DEFINE U == V \cup W \cup {BLANK}
<1>3. BLANK \in U /\ V \subseteq U /\ text \in Seq(U)
  BY <1>2
<1> HIDE DEF U
<1>4. screen \in Printed(U) /\ screen \in Screens(U) /\ RegionOK
  BY <1>1, <1>3, MoreCharacters DEF ScreenInv, Printed
<1>5. screen' \in Stays(U, screen) /\ UNCHANGED scroll
  BY <1>3, <1>4, PrintAtKeeps
<1> QED BY <1>4, <1>5, CursorStays

LEMMA BoundFacts ==
  ASSUME NEW lo \in Int, NEW value \in Int, NEW hi \in Int, lo <= hi
  PROVE  Bound(lo, value, hi) \in lo..hi
<1>1. Max({value, lo}) = (IF value >= lo THEN value ELSE lo)
  BY MinMaxOfTwo
<1>2. Max({value, lo}) \in Int /\ Max({value, lo}) >= lo
  BY <1>1
<1>3. Min({Max({value, lo}), hi}) = IF Max({value, lo}) <= hi THEN Max({value, lo}) ELSE hi
  BY <1>2, MinMaxOfTwo
<1> QED BY <1>2, <1>3 DEF Bound

\* A new region has its corners on the screen and in order, whatever is asked for.
LEMMA SetScrollStep ==
  ASSUME ScreenInv, NEW c \in Corners, SetScroll(c)
  PROVE  ScreenInv'
<1> DEFINE left == Bound(0, c[1], max_x)
           top == Bound(0, c[2], max_y)
           right == Bound(left, c[3], max_x)
           bottom == Bound(top, c[4], max_y)
<1>1. c[1] \in Nat /\ c[2] \in Nat /\ c[3] \in Nat /\ c[4] \in Nat
  BY ScreenAssumption, ElementOfSeq
<1>2. left \in 0..max_x /\ top \in 0..max_y
  <2>1. /\ 0 \in Int /\ 0 <= max_x /\ 0 <= max_y
        /\ max_x \in Int /\ max_y \in Int /\ c[1] \in Int /\ c[2] \in Int
    BY <1>1, ScreenSize
  <2> QED BY <2>1, BoundFacts
<1>3. /\ scroll' = [min_x |-> left, min_y |-> top, max_x |-> right, max_y |-> bottom]
      /\ screen' = [screen EXCEPT !.x = left, !.y = top]
  BY DEF SetScroll
<1> HIDE DEF left, top
<1>4. right \in left..max_x /\ bottom \in top..max_y
  <2>1. /\ left \in Int /\ left <= max_x /\ top \in Int /\ top <= max_y
        /\ max_x \in Int /\ max_y \in Int /\ c[3] \in Int /\ c[4] \in Int
    BY <1>1, <1>2, ScreenSize
  <2> QED BY <2>1, BoundFacts
<1> HIDE DEF right, bottom
<1>5. RegionOK'
  BY <1>2, <1>3, <1>4, ScreenSize DEF RegionOK, max_x, max_y
<1>6. PICK V : screen \in Printed(V)
  BY DEF ScreenInv
<1>7. screen' \in Screens(V) /\ screen'.x = left /\ screen'.y = top
  <2>1. left \in Int /\ top \in Int
    BY <1>2
  <2> QED BY <1>3, <1>6, <2>1 DEF Printed, Screens
<1>8. screen' \in Printed(V)'
  <2>1. left \in left..right /\ top \in top..bottom
    BY <1>2, <1>4
  <2>2. CursorAt(screen)'
    BY <1>3, <1>7, <2>1 DEF CursorAt
  <2> QED BY <1>7, <2>2 DEF Printed, Screens
<1> QED BY <1>5, <1>8 DEF ScreenInv

LEMMA MoveToStep ==
  ASSUME ScreenInv, NEW x \in Int, NEW y \in Int, MoveTo(x, y)
  PROVE  ScreenInv'
<1> DEFINE col == Bound(scroll.min_x, x + scroll.min_x, scroll.max_x)
           row == Bound(scroll.min_y, y + scroll.min_y, scroll.max_y)
<1>1. col \in scroll.min_x..scroll.max_x /\ row \in scroll.min_y..scroll.max_y
  <2>1. /\ scroll.min_x \in Int /\ scroll.max_x \in Int /\ scroll.min_x <= scroll.max_x
        /\ scroll.min_y \in Int /\ scroll.max_y \in Int /\ scroll.min_y <= scroll.max_y
        /\ x + scroll.min_x \in Int /\ y + scroll.min_y \in Int
    BY DEF ScreenInv, RegionOK
  <2> QED BY <2>1, BoundFacts
<1>2. screen' = [screen EXCEPT !.x = col, !.y = row] /\ UNCHANGED scroll
  BY DEF MoveTo
<1> HIDE DEF col, row
<1>3. PICK V : screen \in Printed(V)
  BY DEF ScreenInv
<1>4. screen' \in Printed(V)
  <2>1. scroll.min_x \in Nat /\ scroll.min_y \in Nat /\ scroll.max_x \in Nat /\ scroll.max_y \in Nat
    BY DEF ScreenInv, RegionOK
  <2>2. screen' \in Screens(V) /\ screen'.x = col /\ screen'.y = row
    <3>1. col \in Int /\ row \in Int
      BY <1>1, <2>1
    <3> QED BY <1>2, <1>3, <3>1 DEF Printed, Screens
  <2>3. CursorAt(screen')
    BY <1>1, <2>2 DEF CursorAt
  <2> QED BY <2>2, <2>3 DEF Printed
<1> QED BY <1>2, <1>4, RegionStays DEF ScreenInv

\* The routines that move or clear what is printed.
LEMMA ClearingStep ==
  ASSUME ScreenInv, (\E lines \in 0..Y_SIZE : Scroll(lines)) \/ ClearScroll \/ ClearScreen
  PROVE  ScreenInv'
<1>1. PICK V : screen \in Printed(V)
  BY DEF ScreenInv
<1> DEFINE U == V \cup {BLANK}
<1>2. BLANK \in U /\ screen \in Printed(U) /\ screen \in Screens(U) /\ RegionOK
  BY <1>1, MoreCharacters DEF ScreenInv, Printed
<1> HIDE DEF U
<1>3. ASSUME NEW lines \in 0..Y_SIZE, Scroll(lines) PROVE ScreenInv'
  <2> DEFINE t == Scrolled(screen, lines)
  <2>1. lines \in Nat
    BY ScreenSize
  <2>2. /\ t \in Screens(U)
        /\ IF lines > scroll.max_y - scroll.min_y
           THEN t.x = scroll.min_x /\ t.y = scroll.min_y ELSE t.x = screen.x /\ t.y = screen.y
    BY <1>2, <2>1, ScrolledKeeps
  <2>3. screen' = t /\ UNCHANGED scroll
    BY <1>3 DEF Scroll
  <2> HIDE DEF t
  <2>4. CursorAt(t)
    BY <1>2, <2>2 DEF Printed, CursorAt, RegionOK
  <2>5. screen' \in Printed(U)
    BY <2>2, <2>3, <2>4 DEF Printed
  <2> QED BY <1>2, <2>3, <2>5, RegionStays
<1>4. CASE ClearScroll
  <2>1. screen' \in Stays(U, screen) /\ UNCHANGED scroll
    BY <1>2, <1>4, ClearedKeeps DEF ClearScroll, Stays
  <2> QED BY <1>2, <2>1, CursorStays
<1>5. CASE ClearScreen
  <2>1. screen' \in Stays(U, screen) /\ UNCHANGED scroll
    BY <1>2, <1>5 DEF ClearScreen, Stays, Screens
  <2> QED BY <1>2, <2>1, CursorStays
<1> QED BY <1>3, <1>4, <1>5

LEMMA ScreenStep ==
  ASSUME ScreenInv, ScreenNext
  PROVE  ScreenInv'
<1>1. /\ \A t \in Texts \cup Labels : IsText(t)
      /\ \A b \in Blocks : IsText(FlattenSeq(b))
  BY ScreenAssumption, FlattenIsText DEF IsText, IsBlock
<1>2. \A p \in Places : p[1] \in Int /\ p[2] \in Int
  BY ScreenAssumption
<1>3. \A p \in Grid : p[1] \in Int /\ p[2] \in Int
  BY ScreenSize
<1>4. ASSUME NEW c \in Corners, SetScroll(c) PROVE ScreenInv'
  BY <1>4, SetScrollStep
<1>5. ASSUME NEW p \in Grid, MoveTo(p[1], p[2]) PROVE ScreenInv'
  BY <1>3, <1>5, MoveToStep
<1>6. ASSUME NEW t \in Texts, Puts(t) PROVE ScreenInv'
  BY <1>1, <1>6, PutsStep
<1>7. ASSUME NEW t \in Labels, NEW p \in Places, PutsAt(p[1], p[2], t) PROVE ScreenInv'
  BY <1>1, <1>7, PutsAtStep
<1>8. ASSUME NEW b \in Blocks, NEW p \in Places, PrintAt(p[1], p[2], FlattenSeq(b))
      PROVE  ScreenInv'
  BY <1>1, <1>2, <1>8, PrintAtStep
<1> QED BY <1>4, <1>5, <1>6, <1>7, <1>8, ClearingStep DEF ScreenNext

\* With the keys that are typed and read in between.
TerminalInv == KeyboardInv /\ ScreenInv

LEMMA TerminalStarts ==
  ASSUME TerminalInit
  PROVE  TerminalInv
<1>1. KeyboardInv
  BY KeyboardStarts DEF TerminalInit
<1>2. screen \in Printed({BLANK}) /\ RegionOK
  BY ScreenSize DEF TerminalInit, ScreenInit, Printed, Screens, CursorAt, RegionOK
<1> QED BY <1>1, <1>2 DEF TerminalInv, ScreenInv

LEMMA TerminalStep ==
  ASSUME TerminalInv, [TerminalNext]_terminalVars
  PROVE  TerminalInv'
<1> USE DEF TerminalInv
<1>1. ASSUME UNCHANGED vars PROVE KeyboardInv'
  BY <1>1, KeyboardStep
<1>2. ASSUME UNCHANGED <<scroll, screen>> PROVE ScreenInv'
  BY <1>2 DEF ScreenInv, RegionOK, Printed, Screens, CursorAt
<1>3. CASE SetUp
  <2>1. UNCHANGED vars
    BY <1>3 DEF SetUp
  <2>2. ASSUME NEW f \in Formats, Puts(Field(f)) PROVE ScreenInv'
    BY <2>2, FieldIsText, PutsStep
  <2> QED BY <1>1, <1>3, <2>1, <2>2, ScreenStep DEF SetUp
<1>4. CASE AskForKey
  BY <1>1, <1>2, <1>4 DEF AskForKey
<1>5. ASSUME NEW chars \in Seq(Chars), Puts(Echo(chars)) PROVE ScreenInv'
  BY <1>5, EchoIsText, PutsStep
<1>6. CASE GetFirstKey
  <2>1. FirstKey /\ Puts(Echo(got'))
    BY <1>6 DEF GetFirstKey
  <2>2. KeyboardInv'
    BY <2>1, FirstKeyKeeps
  <2>3. got' \in Seq(Chars)
    BY <2>2 DEF KeyboardInv, TypeOK
  <2> QED BY <1>5, <2>1, <2>2, <2>3
<1>7. ASSUME NEW code \in Codes, Wait(code) \/ Key(code) PROVE TerminalInv'
  <2>1. [Next]_vars /\ UNCHANGED <<scroll, screen>>
    BY <1>7 DEF Wait, Key, Next
  <2> QED BY <1>2, <2>1, KeyboardStep
<1>8. ASSUME NEW count \in 0..C_BUFSIZE, ReadAndEcho(count) PROVE TerminalInv'
  <2>1. Read(count) /\ Puts(Echo(got'))
    BY <1>8 DEF ReadAndEcho
  <2>2. KeyboardInv'
    BY <2>1, ReadKeeps
  <2>3. got' \in Seq(Chars)
    BY <2>2 DEF KeyboardInv, TypeOK
  <2> QED BY <1>5, <2>1, <2>2, <2>3
<1>9. ASSUME NEW t \in Texts, KernelPrints(t) PROVE TerminalInv'
  <2>1. UNCHANGED vars /\ Puts(t) /\ IsText(t)
    BY <1>9, ScreenAssumption DEF KernelPrints, IsText
  <2> QED BY <1>1, <2>1, PutsStep
<1>10. ASSUME NEW c, Pinwheel(c) PROVE TerminalInv'
  <2>1. UNCHANGED vars /\ PutsAt(X_SIZE - 1, 0, <<c>>)
    BY <1>10 DEF Pinwheel
  <2>2. <<c>> \in Seq({c})
    OBVIOUS
  <2> QED BY <1>1, <2>1, <2>2, PutsAtStep DEF IsText
<1>11. ASSUME NEW lines \in Contexts, RestoreContext(lines) PROVE TerminalInv'
  <2>1. UNCHANGED vars /\ PrintAt(0, CONTEXT_Y, FlattenSeq(lines)) /\ CONTEXT_Y \in Int
    BY <1>11, TerminalAssumption DEF RestoreContext
  <2>2. IsText(FlattenSeq(lines))
    BY TerminalAssumption, FlattenIsText DEF IsText, IsBlock
  <2> QED BY <1>1, <2>1, <2>2, PrintAtStep
<1>12. CASE UNCHANGED terminalVars
  BY <1>1, <1>2, <1>12 DEF terminalVars
<1> QED
  BY <1>3, <1>4, <1>6, <1>7, <1>8, <1>9, <1>10, <1>11, <1>12 DEF TerminalNext

\* The cursor is in the region, or at the left end of the line below it, where
\* the next character scrolls: however region, cursor and text follow each other,
\* whatever is typed and echoed, c_putchar draws in the region only
\* (c_io.c:118-136, 182-222).
THEOREM CursorInRegionHolds == TerminalSpec => []CursorInRegion
<1>1. TerminalInit => TerminalInv
  BY TerminalStarts
<1>2. TerminalInv /\ [TerminalNext]_terminalVars => TerminalInv'
  BY TerminalStep
<1>3. TerminalInv => CursorInRegion
  BY CursorFollows DEF TerminalInv
<1> QED BY <1>1, <1>2, <1>3, PTL DEF TerminalSpec

-----------------------------------------------------------------------------
(* The page: the region of the screen, as ScreenAbs sees it.               *)

Width == scroll.max_x - scroll.min_x + 1
Height == scroll.max_y - scroll.min_y + 1
Pages(V) == [1..Height -> [1..Width -> V]]

\* The page that a screen shows, and the screen as ScreenAbs has it.
Spot(i, j) == <<scroll.min_x + i - 1, scroll.min_y + j - 1>>
PageIn(s) == [j \in 1..Height |-> [i \in 1..Width |-> s.cells[Spot(i, j)]]]
Mirror(s) == [page |-> PageIn(s), col |-> s.x - scroll.min_x + 1, line |-> s.y - scroll.min_y + 1]
SameBeside(s, t) == \A p \in Grid : ~InRegion(p) => t.cells[p] = s.cells[p]

LEMMA RegionNumbers ==
  ASSUME RegionOK
  PROVE  /\ scroll.min_x \in Nat /\ scroll.max_x \in Nat /\ scroll.min_y \in Nat /\ scroll.max_y \in Nat
         /\ scroll.min_x <= scroll.max_x /\ scroll.min_y <= scroll.max_y
         /\ scroll.max_x <= max_x /\ scroll.max_y <= max_y /\ max_x \in Nat /\ max_y \in Nat
         /\ Width \in Nat /\ Width >= 1 /\ Height \in Nat /\ Height >= 1
         /\ Width = scroll.max_x - scroll.min_x + 1 /\ Height = scroll.max_y - scroll.min_y + 1
BY ScreenSize DEF RegionOK, Width, Height

LEMMA SpotFacts ==
  ASSUME RegionOK
  PROVE  /\ \A i \in 1..Width, j \in 1..Height : Spot(i, j) \in Grid /\ InRegion(Spot(i, j))
         /\ \A p \in Grid : p[1] \in Int /\ p[2] \in Int /\ p = <<p[1], p[2]>>
         /\ \A p \in Grid : InRegion(p) =>
              \E i \in 1..Width, j \in 1..Height : p = Spot(i, j)
<1>1. ASSUME NEW i \in 1..Width, NEW j \in 1..Height
      PROVE  Spot(i, j) \in Grid /\ InRegion(Spot(i, j))
  <2>1. /\ scroll.min_x + i - 1 \in scroll.min_x..scroll.max_x
        /\ scroll.min_y + j - 1 \in scroll.min_y..scroll.max_y
    BY RegionNumbers
  <2>2. scroll.min_x + i - 1 \in 0..max_x /\ scroll.min_y + j - 1 \in 0..max_y
    BY <2>1, RegionNumbers
  <2> QED BY <2>1, <2>2, ScreenSize DEF Spot, InRegion
<1>2. \A p \in Grid : p[1] \in Int /\ p[2] \in Int /\ p = <<p[1], p[2]>>
  BY ScreenSize
<1>3. ASSUME NEW p \in Grid, InRegion(p)
      PROVE  \E i \in 1..Width, j \in 1..Height : p = Spot(i, j)
  <2> DEFINE i == p[1] - scroll.min_x + 1
             j == p[2] - scroll.min_y + 1
  <2>1. i \in 1..Width /\ j \in 1..Height
    BY <1>2, <1>3, RegionNumbers DEF InRegion
  <2>2. scroll.min_x + i - 1 = p[1] /\ scroll.min_y + j - 1 = p[2]
    BY <1>2, RegionNumbers
  <2>3. p = Spot(i, j)
    BY <1>2, <2>2 DEF Spot
  <2> QED BY <2>1, <2>3
<1> QED BY <1>1, <1>2, <1>3

LEMMA PageInIs ==
  ASSUME RegionOK, NEW V, NEW s \in Screens(V)
  PROVE  /\ PageIn(s) \in Pages(V)
         /\ \A i \in 1..Width, j \in 1..Height : PageIn(s)[j][i] = s.cells[Spot(i, j)]
BY SpotFacts DEF PageIn, Pages, Screens

LEMMA SamePage ==
  ASSUME NEW V, NEW W, NEW a \in Pages(V), NEW b \in Pages(W),
         \A j \in 1..Height : \A i \in 1..Width : a[j][i] = b[j][i]
  PROVE  a = b
<1>1. ASSUME NEW j \in 1..Height PROVE a[j] = b[j]
  <2>1. a[j] \in [1..Width -> V] /\ b[j] \in [1..Width -> W]
    BY DEF Pages
  <2>2. a[j] = [i \in 1..Width |-> a[j][i]] /\ b[j] = [i \in 1..Width |-> b[j][i]]
    BY <2>1
  <2>3. [i \in 1..Width |-> a[j][i]] = [i \in 1..Width |-> b[j][i]]
    BY Zenon
  <2> QED BY ONLY <2>2, <2>3
<1>2. a = [j \in 1..Height |-> a[j]] /\ b = [j \in 1..Height |-> b[j]]
  BY DEF Pages
<1>3. [j \in 1..Height |-> a[j]] = [j \in 1..Height |-> b[j]]
  BY ONLY <1>1, Zenon
<1> QED BY ONLY <1>2, <1>3

\* What Picture makes of it.
LEMMA PictureIs ==
  ASSUME RegionOK
  PROVE  /\ Picture!PageOf(screen.cells) = PageIn(screen)
         /\ Picture!BlankLine = [i \in 1..Width |-> BLANK]
         /\ \A p \in Grid : Picture!OnPage(p) <=> InRegion(p)
<1>1. Picture!PageOf(screen.cells) = PageIn(screen)
  BY DEF Picture!PageOf, PageIn, Width, Height, Spot
<1>2. Picture!BlankLine = [i \in 1..Width |-> BLANK]
  BY DEF Picture!BlankLine, Width, BLANK
<1>3. ASSUME NEW p \in Grid PROVE Picture!OnPage(p) <=> InRegion(p)
  <2>1. p[1] \in Int /\ p[2] \in Int
    BY SpotFacts
  <2> QED BY <2>1, RegionNumbers DEF Picture!OnPage, InRegion
<1> QED BY <1>1, <1>2, <1>3

\* The page up by n lines.
LEMMA UpIs ==
  ASSUME RegionOK, NEW V, NEW page \in Pages(V), NEW n \in Nat
  PROVE  Picture!Up(page, n)
           = [j \in 1..Height |-> IF j + n <= Height THEN page[j + n] ELSE [i \in 1..Width |-> BLANK]]
<1> DEFINE H == Height
           L == [i \in 1..Width |-> BLANK]
           R == [1..Width -> V \cup {BLANK}]
           m == IF n <= H THEN n ELSE H
           a == SubSeq(page, n + 1, H)
           b == [i \in 1..m |-> L]
           u == [j \in 1..H |-> IF j + n <= H THEN page[j + n] ELSE L]
<1>1. H \in Nat /\ H >= 1 /\ L \in R
  BY RegionNumbers
<1>2. page \in [1..H -> R]
  BY DEF Pages
<1> HIDE DEF H, R, L
<1>3. Len(page) = H /\ page \in Seq(R)
  BY <1>1, <1>2
<1>4. Min({n, Len(page)}) = m /\ m \in 0..H
  BY <1>1, <1>3, MinMaxOfTwo
<1>5. Picture!Up(page, n) = a \o b
  <2>1. Picture!BlankLine = L
    BY PictureIs DEF L
  <2>2. Picture!Min({n, Len(page)}) = m
    BY <1>4 DEF Picture!Min, Min
  <2> HIDE DEF m
  <2> QED BY <1>3, <2>1, <2>2 DEF Picture!Up
<1> HIDE DEF m
<1>6. b \in Seq(R) /\ Len(b) = m /\ \A j \in 1..m : b[j] = L
  BY <1>1, <1>4
<1>7. a \in Seq(R) /\ Len(a) = (IF n + 1 <= H THEN H - n ELSE 0)
      /\ \A j \in 1..(H - n) : a[j] = page[j + n]
  <2>1. CASE n + 1 <= H
    <3>1. a \in Seq(R) /\ Len(a) = H - n
      BY <1>1, <1>3, <2>1, SubSeqProperties
    <3>2. ASSUME NEW j \in 1..(H - n) PROVE a[j] = page[j + n]
      <4>1. a[j] = page[((n + 1) + j) - 1]
        BY <1>1, <1>3, <2>1, SubSeqProperties
      <4> QED BY <4>1, <1>1
    <3> QED BY <2>1, <3>1, <3>2
  <2>2. CASE ~(n + 1 <= H)
    <3>1. a = <<>>
      BY <1>1, <1>3, <2>2
    <3>2. 1..(H - n) = {}
      BY <1>1, <2>2
    <3>3. Len(<<>>) = 0 /\ <<>> \in Seq(R)
      BY EmptySeq
    <3> HIDE DEF a
    <3> QED BY <2>2, <3>1, <3>2, <3>3
  <2> QED BY <2>1, <2>2
<1> HIDE DEF a, b
<1>8. Len(a) + m = H
  BY <1>1, <1>4, <1>7 DEF m
<1>9. a \o b \in Seq(R) /\ Len(a \o b) = H /\ a \o b = [j \in 1..H |-> (a \o b)[j]]
  <2>1. a \o b \in Seq(R) /\ Len(a \o b) = H
    BY <1>6, <1>7, <1>8, ConcatProperties
  <2> DEFINE c == a \o b
  <2> HIDE DEF c
  <2>2. c \in Seq(R) /\ Len(c) = H
    BY <2>1 DEF c
  <2>3. c = [j \in 1..H |-> c[j]]
    BY <2>2
  <2> QED BY <2>1, <2>3 DEF c
<1>10. ASSUME NEW j \in 1..H PROVE (a \o b)[j] = u[j]
  <2>1. CASE j + n <= H
    <3>1. j \in 1..Len(a) /\ j \in 1..(H - n)
      BY <1>1, <1>7, <2>1
    <3>2. (a \o b)[j] = a[j]
      BY <1>6, <1>7, <3>1
    <3> QED BY <1>7, <2>1, <3>1, <3>2
  <2>2. CASE ~(j + n <= H)
    <3>1. j > Len(a) /\ j - Len(a) \in 1..m /\ j \in 1..(Len(a) + Len(b))
      BY <1>1, <1>6, <1>7, <1>8, <2>2
    <3>2. (a \o b)[j] = b[j - Len(a)]
      BY <1>6, <1>7, <3>1
    <3> QED BY <1>6, <2>2, <3>1, <3>2
  <2> QED BY <2>1, <2>2
<1>11. a \o b = u
  BY <1>9, <1>10
<1> QED BY <1>5, <1>11 DEF H, L

\* A scroll moves the page up and leaves alone what is beside it.
LEMMA ScrolledMoves ==
  ASSUME RegionOK, NEW V, BLANK \in V, NEW s \in Screens(V), NEW lines \in Nat
  PROVE  /\ PageIn(Scrolled(s, lines)) = Picture!Up(PageIn(s), lines)
         /\ SameBeside(s, Scrolled(s, lines))
<1> DEFINE t == Scrolled(s, lines)
           u == Picture!Up(PageIn(s), lines)
<1>1. t \in Screens(V) /\ PageIn(t) \in Pages(V) /\ PageIn(s) \in Pages(V)
  BY ScrolledKeeps, PageInIs
<1>2. \A p \in Grid :
        t.cells[p] = IF ~InRegion(p) THEN s.cells[p]
                     ELSE IF p[2] <= scroll.max_y - lines THEN s.cells[<<p[1], p[2] + lines>>]
                     ELSE BLANK
  <2>1. CASE lines > scroll.max_y - scroll.min_y
    <3>1. \A p \in Grid : t.cells[p] = IF ~InRegion(p) THEN s.cells[p] ELSE BLANK
      BY <2>1 DEF Scrolled, Home, Cleared, Screens
    <3>2. ASSUME NEW p \in Grid, InRegion(p) PROVE ~(p[2] <= scroll.max_y - lines)
      BY <2>1, <3>2, SpotFacts, RegionNumbers DEF InRegion
    <3> HIDE DEF t
    <3> QED BY <3>1, <3>2
  <2>2. CASE ~(lines > scroll.max_y - scroll.min_y)
    BY <2>2 DEF Scrolled, Screens
  <2> QED BY <2>1, <2>2
<1> HIDE DEF t
<1>3. u = [j \in 1..Height |-> IF j + lines <= Height THEN PageIn(s)[j + lines]
                               ELSE [i \in 1..Width |-> BLANK]]
  BY <1>1, UpIs
<1> HIDE DEF u
<1>4. u \in Pages(V)
  <2>1. \A j \in 1..Height : j + lines <= Height => PageIn(s)[j + lines] \in [1..Width -> V]
    BY <1>1, RegionNumbers DEF Pages
  <2>2. [i \in 1..Width |-> BLANK] \in [1..Width -> V]
    OBVIOUS
  <2> QED BY <1>3, <2>1, <2>2 DEF Pages
<1>5. ASSUME NEW j \in 1..Height, NEW i \in 1..Width PROVE PageIn(t)[j][i] = u[j][i]
  <2>1. Spot(i, j) \in Grid /\ InRegion(Spot(i, j)) /\ PageIn(t)[j][i] = t.cells[Spot(i, j)]
        /\ Spot(i, j)[1] = scroll.min_x + i - 1 /\ Spot(i, j)[2] = scroll.min_y + j - 1
    BY <1>1, SpotFacts, PageInIs DEF Spot
  <2>2. (Spot(i, j)[2] <= scroll.max_y - lines) <=> (j + lines <= Height)
    BY <2>1, RegionNumbers
  <2>3. CASE j + lines <= Height
    <3>1. j + lines \in 1..Height
      BY <2>3, RegionNumbers
    <3>2. Spot(i, j + lines) = <<Spot(i, j)[1], Spot(i, j)[2] + lines>>
      BY <2>1, RegionNumbers DEF Spot
    <3>3. PageIn(s)[j + lines][i] = s.cells[Spot(i, j + lines)]
      BY <3>1, PageInIs
    <3> QED BY <1>2, <1>3, <2>1, <2>2, <2>3, <3>2, <3>3
  <2>4. CASE ~(j + lines <= Height)
    BY <1>2, <1>3, <2>1, <2>2, <2>4
  <2> QED BY <2>3, <2>4
<1>6. PageIn(t) = u
  BY <1>1, <1>4, <1>5, SamePage
<1>7. SameBeside(s, t)
  BY <1>2 DEF SameBeside
<1> QED BY <1>6, <1>7 DEF t, u

\* c_putchar scrolls first if the line is the one below the page.
CaughtPage(page, line) == IF line > Height THEN Picture!Up(page, 1) ELSE page
CaughtLine(line) == IF line > Height THEN Height ELSE line

LEMMA CaughtIs ==
  ASSUME RegionOK, NEW V, BLANK \in V, NEW s \in Printed(V)
  PROVE  LET t == Caught(s)
             line == s.y - scroll.min_y + 1
         IN /\ t \in Screens(V)
            /\ t.x = s.x /\ s.x \in scroll.min_x..scroll.max_x
            /\ t.y \in scroll.min_y..scroll.max_y
            /\ t.y - scroll.min_y + 1 = CaughtLine(line)
            /\ PageIn(t) = CaughtPage(PageIn(s), line) /\ SameBeside(s, t)
<1> DEFINE t == Caught(s)
           line == s.y - scroll.min_y + 1
<1>1. s \in Screens(V) /\ CursorAt(s) /\ s.x \in Int /\ s.y \in Int
  BY DEF Printed, Screens
<1>2. s.x \in scroll.min_x..scroll.max_x
  BY <1>1, RegionNumbers DEF CursorAt
<1>3. CASE s.y > scroll.max_y
  <2>1. s.x = scroll.min_x /\ s.y = scroll.max_y + 1 /\ s.y - scroll.max_y = 1
    BY <1>1, <1>3, RegionNumbers DEF CursorAt
  <2>2. line > Height /\ CaughtLine(line) = Height
    BY <2>1, RegionNumbers DEF CaughtLine
  <2> DEFINE u == Scrolled(s, 1)
  <2>3. u \in Screens(V) /\ u.x = scroll.min_x
    BY <1>1, <2>1, ScrolledKeeps
  <2>4. t = [u EXCEPT !.y = scroll.max_y]
    BY <1>3, <2>1 DEF Caught
  <2>5. PageIn(u) = Picture!Up(PageIn(s), 1) /\ SameBeside(s, u)
    BY <1>1, ScrolledMoves
  <2> HIDE DEF t, u
  <2>6. t \in Screens(V) /\ t.x = u.x /\ t.y = scroll.max_y /\ t.cells = u.cells
    BY <2>3, <2>4, RegionNumbers DEF Screens
  <2>7. PageIn(t) = PageIn(u) /\ (SameBeside(s, u) => SameBeside(s, t))
    BY <2>6 DEF PageIn, SameBeside
  <2>8. PageIn(t) = CaughtPage(PageIn(s), line)
    BY <2>2, <2>5, <2>7 DEF CaughtPage
  <2>9. t.y \in scroll.min_y..scroll.max_y /\ t.y - scroll.min_y + 1 = Height
    BY <2>6, RegionNumbers
  <2> QED BY <1>2, <2>1, <2>2, <2>3, <2>5, <2>6, <2>7, <2>8, <2>9 DEF t
<1>4. CASE ~(s.y > scroll.max_y)
  <2>1. t = s
    BY <1>4 DEF Caught
  <2>2. s.y \in scroll.min_y..scroll.max_y /\ ~(line > Height)
    BY <1>1, <1>4, RegionNumbers DEF CursorAt
  <2>3. CaughtLine(line) = line /\ CaughtPage(PageIn(s), line) = PageIn(s)
    BY <2>2 DEF CaughtLine, CaughtPage
  <2>4. SameBeside(s, s)
    BY DEF SameBeside
  <2> HIDE DEF t
  <2> QED BY <1>1, <1>2, <2>1, <2>2, <2>3, <2>4 DEF t
<1> QED BY <1>3, <1>4

\* Put on a page, by the place that it is about.
LEMMA PutIs ==
  ASSUME RegionOK, NEW V, NEW page \in Pages(V), NEW col \in 1..Width, NEW line \in 1..(Height + 1),
         NEW c
  PROVE  LET pg == CaughtPage(page, line)
             at == CaughtLine(line)
         IN Picture!Put([page |-> page, col |-> col, line |-> line], c) =
              IF c = NEWLINE
              THEN [page |-> [pg EXCEPT ![at] = [i \in DOMAIN @ |-> IF i < col THEN @[i] ELSE BLANK]],
                    col |-> 1, line |-> at + 1]
              ELSE IF c = RETURN THEN [page |-> pg, col |-> 1, line |-> at]
              ELSE [page |-> [pg EXCEPT ![at] = [@ EXCEPT ![col] = c]],
                    col |-> IF col < Width THEN col + 1 ELSE 1,
                    line |-> IF col < Width THEN at ELSE at + 1]
<1> DEFINE s == [page |-> page, col |-> col, line |-> line]
           pg == CaughtPage(page, line)
           at == CaughtLine(line)
<1>1. Len(s.page) = Height /\ s.page = page /\ s.col = col /\ s.line = line
  BY RegionNumbers DEF Pages
<1>2. (IF s.line > Len(s.page) THEN Picture!Up(s.page, 1) ELSE s.page) = pg
  BY <1>1 DEF CaughtPage
<1>3. Picture!Min({s.line, Len(s.page)}) = at
  <2>1. Min({line, Height}) = at
    BY RegionNumbers, MinMaxOfTwo DEF CaughtLine
  <2> HIDE DEF at
  <2> QED BY <1>1, <2>1 DEF Picture!Min, Min
<1>4. Picture!Put(s, c) =
        LET next == [page |-> pg, col |-> 1, line |-> at + 1]
        IN CASE c = "\n" -> [next EXCEPT !.page[at] =
                               [i \in DOMAIN @ |-> IF i < s.col THEN @[i] ELSE " "]]
             [] c = "\r" -> [next EXCEPT !.line = at]
             [] OTHER ->
                  LET put == [next EXCEPT !.page[at] = [@ EXCEPT ![s.col] = c]]
                  IN IF s.col < Width THEN [put EXCEPT !.col = s.col + 1, !.line = at] ELSE put
  <2> HIDE DEF pg, at, s
  <2> QED BY <1>2, <1>3 DEF Picture!Put, Width
<1> HIDE DEF s
<1>5. CASE c = NEWLINE
  BY <1>1, <1>4, <1>5 DEF NEWLINE, BLANK, s
<1>6. CASE c = RETURN
  BY <1>1, <1>4, <1>6 DEF NEWLINE, RETURN, s
<1>7. CASE c # NEWLINE /\ c # RETURN
  BY <1>1, <1>4, <1>7 DEF NEWLINE, RETURN, s
<1> QED BY <1>5, <1>6, <1>7

\* Only the line in row y of the screen changes, to the one that is given.
RowIs(t, r, at, row) ==
  /\ \A i \in 1..Width : r.cells[Spot(i, at)] = row[i]
  /\ \A p \in Grid : p[2] # t.y \/ ~InRegion(p) => r.cells[p] = t.cells[p]

LEMMA RowChanges ==
  ASSUME RegionOK, NEW V, NEW t \in Screens(V), NEW r \in Screens(V),
         t.y \in scroll.min_y..scroll.max_y, NEW at, at = t.y - scroll.min_y + 1,
         NEW row \in [1..Width -> V], RowIs(t, r, at, row)
  PROVE  PageIn(r) = [PageIn(t) EXCEPT ![at] = row] /\ SameBeside(t, r)
<1> DEFINE q == [PageIn(t) EXCEPT ![at] = row]
<1>1. at \in 1..Height
  <2>1. PICK y : y = t.y
    OBVIOUS
  <2>2. y \in scroll.min_y..scroll.max_y /\ at = y - scroll.min_y + 1
    BY ONLY <2>1, t.y \in scroll.min_y..scroll.max_y, at = t.y - scroll.min_y + 1
  <2> QED BY ONLY <2>2, RegionOK, RegionNumbers, SMTT(40)
<1>2. PageIn(r) \in Pages(V) /\ PageIn(t) \in Pages(V)
  BY PageInIs
<1>3. q \in Pages(V) /\ q[at] = row /\ \A j \in 1..Height : j # at => q[j] = PageIn(t)[j]
  BY <1>1, <1>2 DEF Pages
<1>4. ASSUME NEW j \in 1..Height, NEW i \in 1..Width PROVE PageIn(r)[j][i] = q[j][i]
  <2>1. PageIn(r)[j][i] = r.cells[Spot(i, j)] /\ PageIn(t)[j][i] = t.cells[Spot(i, j)]
    BY PageInIs
  <2>2. CASE j = at
    BY <1>3, <2>1, <2>2 DEF RowIs
  <2>3. CASE j # at
    <3>1. Spot(i, j) \in Grid
      BY SpotFacts
    <3>2. Spot(i, j)[2] # t.y
      BY <2>3, RegionNumbers DEF Spot
    <3>3. r.cells[Spot(i, j)] = t.cells[Spot(i, j)]
      BY <3>1, <3>2 DEF RowIs
    <3> HIDE DEF q
    <3> QED BY <1>3, <2>1, <2>3, <3>3
  <2> QED BY <2>2, <2>3
<1> HIDE DEF q
<1>5. PageIn(r) = q
  BY <1>2, <1>3, <1>4, SamePage
<1>6. SameBeside(t, r)
  BY DEF SameBeside, RowIs
<1> QED BY <1>5, <1>6 DEF q

\* c_putchar is Put, for the page and the cursor, and touches nothing beside the page.
LEMMA PutcharIsPut ==
  ASSUME RegionOK, NEW V, BLANK \in V, NEW s \in Printed(V), NEW c \in V
  PROVE  Picture!Put(Mirror(s), c) = Mirror(Putchar(s, c)) /\ SameBeside(s, Putchar(s, c))
<1> DEFINE t == Caught(s)
           r == Putchar(s, c)
           col == s.x - scroll.min_x + 1
           line == s.y - scroll.min_y + 1
           at == CaughtLine(line)
           pg == PageIn(t)
<1>1. s \in Screens(V) /\ CursorAt(s) /\ s.x \in Int /\ s.y \in Int /\ r \in Screens(V)
  BY PutcharKeeps DEF Printed, Screens
<1>2. /\ t \in Screens(V) /\ t.x = s.x /\ s.x \in scroll.min_x..scroll.max_x
      /\ t.y \in scroll.min_y..scroll.max_y /\ t.y - scroll.min_y + 1 = at
      /\ pg = CaughtPage(PageIn(s), line) /\ SameBeside(s, t)
  BY CaughtIs
<1>3. col \in 1..Width /\ line \in 1..(Height + 1) /\ at \in 1..Height
  <2>1. line \in 1..(Height + 1)
    BY <1>1, RegionNumbers DEF CursorAt
  <2> QED BY <1>1, <1>2, <2>1, RegionNumbers
<1>4. PageIn(s) \in Pages(V) /\ pg \in Pages(V)
  BY <1>1, <1>2, PageInIs
<1>5. pg[at] \in [1..Width -> V] /\ DOMAIN pg[at] = 1..Width
      /\ \A i \in 1..Width : pg[at][i] = t.cells[Spot(i, at)]
  <2>1. \A i \in 1..Width, j \in 1..Height : pg[j][i] = t.cells[Spot(i, j)]
    BY <1>2, PageInIs
  <2> QED BY <1>3, <1>4, <2>1 DEF Pages
<1>6. Picture!Put(Mirror(s), c) =
        IF c = NEWLINE
        THEN [page |-> [pg EXCEPT ![at] = [i \in DOMAIN @ |-> IF i < col THEN @[i] ELSE BLANK]],
              col |-> 1, line |-> at + 1]
        ELSE IF c = RETURN THEN [page |-> pg, col |-> 1, line |-> at]
        ELSE [page |-> [pg EXCEPT ![at] = [@ EXCEPT ![col] = c]],
              col |-> IF col < Width THEN col + 1 ELSE 1,
              line |-> IF col < Width THEN at ELSE at + 1]
  <2> HIDE DEF t, r, col, line, at, pg
  <2>1. Mirror(s) = [page |-> PageIn(s), col |-> col, line |-> line]
    BY DEF Mirror, col, line
  <2>2. pg = CaughtPage(PageIn(s), line) /\ at = CaughtLine(line)
    BY <1>2 DEF at
  <2>3. PageIn(s) \in Pages(V) /\ col \in 1..Width /\ line \in 1..(Height + 1)
    BY <1>3, <1>4
  <2> QED BY ONLY RegionOK, <2>1, <2>2, <2>3, PutIs
<1>7. ASSUME SameBeside(t, r) PROVE SameBeside(s, r)
  BY <1>2, <1>7 DEF SameBeside
<1>8. \A i \in 1..Width : Spot(i, at) = <<scroll.min_x + i - 1, t.y>> /\ Spot(i, at) \in Grid
  <2>1. scroll.min_y + at - 1 = t.y
    BY <1>2, RegionNumbers
  <2>2. \A i \in 1..Width : Spot(i, at) \in Grid
    BY <1>3, SpotFacts
  <2> HIDE DEF t, at
  <2> QED BY <2>1, <2>2 DEF Spot
<1>9. r = CASE c = NEWLINE -> NewLine(Erase(t, t.x, t.y, scroll.max_x))
            [] c = RETURN -> [t EXCEPT !.x = scroll.min_x]
            [] OTHER -> LET d == [Draw(t, t.x, t.y, c) EXCEPT !.x = @ + 1]
                        IN IF d.x > scroll.max_x THEN NewLine(d) ELSE d
  BY DEF Putchar
<1> HIDE DEF t, r, at, pg
<1>10. CASE c = NEWLINE
  <2> DEFINE row == [i \in DOMAIN pg[at] |-> IF i < col THEN pg[at][i] ELSE BLANK]
             e == Erase(t, t.x, t.y, scroll.max_x)
  <2>1. r = NewLine(e)
    BY <1>9, <1>10 DEF NEWLINE, RETURN
  <2>2. e.x = t.x /\ e.y = t.y /\ e \in Screens(V)
        /\ e.cells = [p \in Grid |-> IF p[2] = t.y /\ p[1] \in t.x..scroll.max_x THEN BLANK ELSE t.cells[p]]
    BY <1>2, EraseKeeps DEF Erase, Screens
  <2> HIDE DEF e
  <2>3. r.x = scroll.min_x /\ r.y = t.y + 1 /\ r.cells = e.cells
    BY <2>1, <2>2 DEF NewLine, Screens
  <2>4. row \in [1..Width -> V]
    BY <1>5
  <2>5. ASSUME NEW i \in 1..Width PROVE r.cells[Spot(i, at)] = row[i]
    <3>1. Spot(i, at)[1] = scroll.min_x + i - 1 /\ Spot(i, at)[2] = t.y /\ Spot(i, at) \in Grid
      BY <1>8
    <3>2. (Spot(i, at)[1] \in t.x..scroll.max_x) <=> ~(i < col)
      BY <1>2, <3>1, RegionNumbers
    <3>3. r.cells[Spot(i, at)] = IF Spot(i, at)[1] \in t.x..scroll.max_x THEN BLANK ELSE t.cells[Spot(i, at)]
      BY <2>2, <2>3, <3>1
    <3>4. row[i] = IF i < col THEN pg[at][i] ELSE BLANK
      BY <1>5
    <3> QED BY <1>5, <3>2, <3>3, <3>4
  <2>6. ASSUME NEW p \in Grid, p[2] # t.y \/ ~InRegion(p) PROVE r.cells[p] = t.cells[p]
    <3>1. ~(p[2] = t.y /\ p[1] \in t.x..scroll.max_x)
      BY <1>2, <2>6, SpotFacts, RegionNumbers DEF InRegion
    <3> QED BY <2>2, <2>3, <3>1
  <2> HIDE DEF row
  <2>7. PageIn(r) = [pg EXCEPT ![at] = row] /\ SameBeside(t, r)
    <3>1. RowIs(t, r, at, row)
      BY <2>5, <2>6 DEF RowIs
    <3>2. at = t.y - scroll.min_y + 1 /\ r \in Screens(V) /\ t \in Screens(V)
          /\ t.y \in scroll.min_y..scroll.max_y
      BY <1>1, <1>2
    <3> QED BY ONLY RegionOK, <2>4, <3>1, <3>2, RowChanges DEF pg
  <2>8. r.x - scroll.min_x + 1 = 1 /\ r.y - scroll.min_y + 1 = at + 1
    BY <1>2, <2>3, RegionNumbers
  <2>9. Mirror(r) = [page |-> [pg EXCEPT ![at] = row], col |-> 1, line |-> at + 1]
    BY <2>7, <2>8 DEF Mirror
  <2>10. Picture!Put(Mirror(s), c) = [page |-> [pg EXCEPT ![at] = row], col |-> 1, line |-> at + 1]
    BY <1>6, <1>10 DEF row
  <2> QED BY <1>7, <2>7, <2>9, <2>10 DEF r
<1>11. CASE c = RETURN
  <2>1. r = [t EXCEPT !.x = scroll.min_x]
    BY <1>9, <1>11 DEF NEWLINE, RETURN
  <2>2. r.x = scroll.min_x /\ r.y = t.y /\ r.cells = t.cells
    BY <1>2, <2>1 DEF Screens
  <2>3. PageIn(r) = pg /\ SameBeside(t, r)
    BY <2>2 DEF PageIn, pg, SameBeside
  <2>4. r.x - scroll.min_x + 1 = 1 /\ r.y - scroll.min_y + 1 = at
    BY <1>2, <2>2, RegionNumbers
  <2>5. Mirror(r) = [page |-> pg, col |-> 1, line |-> at]
    BY <2>3, <2>4 DEF Mirror
  <2>6. Picture!Put(Mirror(s), c) = [page |-> pg, col |-> 1, line |-> at]
    BY <1>6, <1>11 DEF NEWLINE, RETURN
  <2> QED BY <1>7, <2>3, <2>5, <2>6 DEF r
<1>12. CASE c # NEWLINE /\ c # RETURN
  <2> DEFINE row == [pg[at] EXCEPT ![col] = c]
             e == Draw(t, t.x, t.y, c)
             d == [e EXCEPT !.x = @ + 1]
  <2>1. r = IF d.x > scroll.max_x THEN NewLine(d) ELSE d
    BY <1>9, <1>12
  <2>2. <<t.x, t.y>> \in Grid
    BY <1>2, RegionNumbers, ScreenSize
  <2>3. e.x = t.x /\ e.y = t.y /\ e \in Screens(V) /\ e.cells = [t.cells EXCEPT ![<<t.x, t.y>>] = c]
    BY <1>2, <2>2, DrawKeeps DEF Draw, Screens
  <2> HIDE DEF e
  <2>4. d.x = t.x + 1 /\ d.y = t.y /\ d \in Screens(V) /\ d.cells = e.cells
    BY <1>2, <2>3 DEF Screens
  <2> HIDE DEF d
  <2>5. r.cells = e.cells
        /\ IF t.x + 1 > scroll.max_x THEN r.x = scroll.min_x /\ r.y = t.y + 1
           ELSE r.x = t.x + 1 /\ r.y = t.y
    BY <2>1, <2>4 DEF NewLine, Screens
  <2>6. t.cells \in [Grid -> V]
    BY <1>2 DEF Screens
  <2>7. row \in [1..Width -> V] /\ \A i \in 1..Width : row[i] = IF i = col THEN c ELSE pg[at][i]
    <3> HIDE DEF col
    <3> QED BY <1>3, <1>5
  <2> HIDE DEF row
  <2>8. ASSUME NEW i \in 1..Width PROVE r.cells[Spot(i, at)] = row[i]
    <3>1. Spot(i, at) = <<scroll.min_x + i - 1, t.y>> /\ Spot(i, at) \in Grid
      BY <1>8
    <3>2. (Spot(i, at) = <<t.x, t.y>>) <=> i = col
      <4>1. (<<scroll.min_x + i - 1, t.y>> = <<t.x, t.y>>) <=> scroll.min_x + i - 1 = t.x
        BY Zenon
      <4>2. (scroll.min_x + i - 1 = t.x) <=> i = col
        BY <1>2, RegionNumbers
      <4> QED BY <3>1, <4>1, <4>2
    <3>3. r.cells[Spot(i, at)] = IF Spot(i, at) = <<t.x, t.y>> THEN c ELSE t.cells[Spot(i, at)]
      BY <2>3, <2>5, <2>6, <3>1
    <3> HIDE DEF col
    <3> QED BY <1>5, <2>7, <3>2, <3>3
  <2>9. ASSUME NEW p \in Grid, p[2] # t.y \/ ~InRegion(p) PROVE r.cells[p] = t.cells[p]
    <3>1. p # <<t.x, t.y>>
      BY <1>2, <2>9 DEF InRegion
    <3> QED BY <2>3, <2>5, <2>6, <3>1
  <2>10. PageIn(r) = [pg EXCEPT ![at] = row] /\ SameBeside(t, r)
    <3>1. RowIs(t, r, at, row)
      BY <2>8, <2>9 DEF RowIs
    <3>2. at = t.y - scroll.min_y + 1 /\ r \in Screens(V) /\ t \in Screens(V)
          /\ t.y \in scroll.min_y..scroll.max_y
      BY <1>1, <1>2
    <3> QED BY ONLY RegionOK, <2>7, <3>1, <3>2, RowChanges DEF pg
  <2>11. /\ r.x - scroll.min_x + 1 = IF col < Width THEN col + 1 ELSE 1
         /\ r.y - scroll.min_y + 1 = IF col < Width THEN at ELSE at + 1
    BY <1>2, <2>5, RegionNumbers
  <2> HIDE DEF col
  <2>12. Mirror(r) = [page |-> [pg EXCEPT ![at] = row],
                      col |-> IF col < Width THEN col + 1 ELSE 1,
                      line |-> IF col < Width THEN at ELSE at + 1]
    BY <2>10, <2>11 DEF Mirror
  <2>13. Picture!Put(Mirror(s), c) = Mirror(r)
    BY <1>6, <1>12, <2>12 DEF row
  <2> QED BY <1>7, <2>10, <2>13 DEF r
<1> QED BY <1>10, <1>11, <1>12

\* A step that leaves the region, and what it does to the picture.
LEMMA PageStep ==
  ASSUME ScreenInv, ScreenInv', UNCHANGED scroll, SameBeside(screen, screen')
  PROVE  Picture!PageBecomes(PageIn(screen'))
<1>1. RegionOK /\ \A p \in Grid : Picture!OnPage(p) <=> InRegion(p)
  BY PictureIs DEF ScreenInv
<1>2. (Picture!PageOf(screen.cells))' = PageIn(screen')
  BY DEF Picture!PageOf, PageIn, Width, Height, Spot
<1>3. DOMAIN screen.cells = Grid
  BY DEF ScreenInv, Printed, Screens
<1>4. Picture!Beside
  BY <1>1, <1>3 DEF Picture!Beside, SameBeside
<1> QED BY <1>2, <1>4 DEF Picture!PageBecomes

LEMMA PrintBecomes ==
  ASSUME ScreenInv, ScreenInv', UNCHANGED scroll, SameBeside(screen, screen'), NEW text,
         FoldLeft(Picture!Put, Mirror(screen), text) = Mirror(screen')
  PROVE  Picture!AbsPrint(text)
<1> DEFINE end == FoldLeft(Picture!Put, Mirror(screen), text)
<1>1. Mirror(screen) = [page |-> Picture!PageOf(screen.cells), col |-> screen.x - scroll.min_x + 1,
                        line |-> screen.y - scroll.min_y + 1]
  BY PictureIs DEF Mirror, ScreenInv
<1>2. Picture!AbsPrint(text) <=>
        /\ Picture!PageBecomes(end.page)
        /\ (screen.x - scroll.min_x + 1)' = end.col /\ (screen.y - scroll.min_y + 1)' = end.line
  BY <1>1 DEF Picture!AbsPrint, Picture!FoldLeft, FoldLeft, Picture!MapThenFoldSet,
       MapThenFoldSet, Picture!Max, Max
<1>3. end = Mirror(screen')
  OBVIOUS
<1> HIDE DEF end
<1>4. end.page = PageIn(screen') /\ end.col = screen'.x - scroll.min_x + 1
      /\ end.line = screen'.y - scroll.min_y + 1
  BY <1>3 DEF Mirror
<1>5. Picture!PageBecomes(PageIn(screen'))
  BY PageStep
<1> QED BY <1>2, <1>4, <1>5

\* The pages that ScreenAbs goes through for the same text.
IsPrinting(g, p, text) ==
  g[0] = Mirror(p) /\ \A k \in 1..Len(text) : g[k] = Picture!Put(g[k - 1], text[k])

LEMMA PrintingExists ==
  ASSUME RegionOK, NEW V, BLANK \in V, NEW p \in Printed(V), NEW text \in Seq(V)
  PROVE  \E g : IsPrinting(g, p, text) /\ FoldLeft(Picture!Put, Mirror(p), text) = g[Len(text)]
<1> DEFINE n == Len(text)
           s == text
           A == {Mirror(q) : q \in Printed(V)}
           B == V
           G == [q \in A \X B |-> Picture!Put(q[1], q[2])]
           F == CHOOSE f : f = [T \in SUBSET (1..n) |->
                  IF T = {} THEN Mirror(p) ELSE Picture!Put(f[T \ {Max(T)}], s[Max(T)])]
<1>1. n \in Nat /\ s \in [1..n -> B] /\ DOMAIN s = 1..n /\ Mirror(p) \in A
  BY LenProperties, ElementOfSeq
<1>2. ASSUME NEW r \in A, NEW e \in B PROVE Picture!Put(r, e) \in A
  <2>1. PICK q \in Printed(V) : r = Mirror(q)
    BY <1>2
  <2>2. Picture!Put(r, e) = Mirror(Putchar(q, e)) /\ Putchar(q, e) \in Printed(V)
    BY <1>2, <2>1, PutcharIsPut, PutcharKeeps
  <2> QED BY <2>2
<1>3. G \in [A \X B -> A]
  BY <1>2
<1>4. FoldLeft(Picture!Put, Mirror(p), text) = F[1..n]
  BY <1>1 DEF FoldLeft, MapThenFoldSet
<1> HIDE DEF n, s, A, B
<1>5. F = [T \in SUBSET (1..n) |-> IF T = {} THEN Mirror(p) ELSE Picture!Put(F[T \ {Max(T)}], s[Max(T)])]
  <2>1. PICK f \in [SUBSET (1..n) -> A] : IsFold(f, G, Mirror(p), s, n)
    <3> HIDE DEF G
    <3> QED BY <1>1, <1>3, FoldExists
  <2>2. ASSUME NEW T \in SUBSET (1..n), T # {}
        PROVE  G[<<f[T \ {Max(T)}], s[Max(T)]>>] = Picture!Put(f[T \ {Max(T)}], s[Max(T)])
    <3>1. Max(T) \in 1..n /\ T \ {Max(T)} \in SUBSET (1..n)
      BY <1>1, <2>2, MaxFacts
    <3>2. f[T \ {Max(T)}] \in A /\ s[Max(T)] \in B
      BY <1>1, <3>1
    <3> QED BY <3>2
  <2> HIDE DEF G
  <2>3. f = [T \in SUBSET (1..n) |-> IF T = {} THEN Mirror(p) ELSE Picture!Put(f[T \ {Max(T)}], s[Max(T)])]
    BY <2>1, <2>2 DEF IsFold
  <2>4. \E g : g = [T \in SUBSET (1..n) |-> IF T = {} THEN Mirror(p) ELSE Picture!Put(g[T \ {Max(T)}], s[Max(T)])]
    BY <2>3
  <2> QED BY <2>4
<1> HIDE DEF F
<1>6. IsFoldIn(A, F, G, Mirror(p), s, n)
  <2>1. F[{}] = Mirror(p)
    BY <1>5
  <2>2. ASSUME NEW T \in SUBSET (1..n), T # {}, F[T \ {Max(T)}] \in A
        PROVE  F[T] = G[<<F[T \ {Max(T)}], s[Max(T)]>>]
    <3>1. Max(T) \in 1..n
      BY <1>1, <2>2, MaxFacts
    <3>2. F[T] = Picture!Put(F[T \ {Max(T)}], s[Max(T)]) /\ s[Max(T)] \in B
      BY <1>1, <1>5, <2>2, <3>1
    <3> QED BY <2>2, <3>2
  <2> HIDE DEF G
  <2> QED BY <2>1, <2>2 DEF IsFoldIn
<1> HIDE DEF G
<1>7. IsFoldEnd(A, F[1..n], G, Mirror(p), s, n)
  BY <1>1, <1>3, <1>6, FoldChain
<1>9. PICK g \in [0..n -> A] : IsFoldChain(g, G, Mirror(p), s, n) /\ F[1..n] = g[n]
  BY <1>7 DEF IsFoldEnd
<1>10. ASSUME NEW i \in 1..n PROVE g[i] = Picture!Put(g[i - 1], s[i])
  <2>1. i - 1 \in 0..n /\ s[i] \in B
    BY <1>1
  <2>2. g[i] = G[<<g[i - 1], s[i]>>] /\ g[i - 1] \in A
    BY <1>9, <2>1 DEF IsFoldChain
  <2> QED BY <2>1, <2>2 DEF G
<1>11. g[0] = Mirror(p) /\ FoldLeft(Picture!Put, Mirror(p), text) = g[n]
  BY <1>4, <1>9 DEF IsFoldChain
<1> QED BY <1>10, <1>11 DEF IsPrinting, n, s

\* c_puts prints on the page like on paper.
LEMMA PutsIsPrint ==
  ASSUME ScreenInv, NEW text, IsText(text), Puts(text)
  PROVE  Picture!AbsPrint(text)
<1>1. PICK V : screen \in Printed(V)
  BY DEF ScreenInv
<1>2. PICK W : text \in Seq(W)
  BY DEF IsText
<1> DEFINE U == V \cup W \cup {BLANK}
           n == Len(text)
<1>3. BLANK \in U /\ V \subseteq U /\ text \in Seq(U) /\ n \in Nat /\ \A k \in 1..n : text[k] \in U
  BY <1>2
<1> HIDE DEF U
<1>4. screen \in Printed(U) /\ RegionOK
  BY <1>1, <1>3, MoreCharacters DEF ScreenInv
<1>5. PICK h \in [0..n -> Printed(U)] : IsPutting(h, screen, text) /\ FoldLeft(Putchar, screen, text) = h[n]
  BY <1>3, <1>4, PuttingExists
<1>6. PICK g : IsPrinting(g, screen, text) /\ FoldLeft(Picture!Put, Mirror(screen), text) = g[n]
  BY <1>3, <1>4, PrintingExists
<1> DEFINE S == {k \in 0..n : g[k] = Mirror(h[k]) /\ SameBeside(screen, h[k])}
<1>7. 0 \in S
  BY <1>3, <1>5, <1>6 DEF IsPutting, IsPrinting, SameBeside
<1>8. ASSUME NEW k \in 0..(n - 1), k \in S PROVE k + 1 \in S
  <2>1. k + 1 \in 1..n /\ k + 1 \in 0..n /\ (k + 1) - 1 = k /\ k \in 0..n
    BY <1>3
  <2>2. h[k + 1] = Putchar(h[k], text[k + 1]) /\ g[k + 1] = Picture!Put(g[k], text[k + 1])
    BY <1>5, <1>6, <2>1 DEF IsPutting, IsPrinting
  <2>3. h[k] \in Printed(U) /\ text[k + 1] \in U /\ g[k] = Mirror(h[k])
    BY <1>3, <1>8, <2>1
  <2>4. Picture!Put(Mirror(h[k]), text[k + 1]) = Mirror(h[k + 1]) /\ SameBeside(h[k], h[k + 1])
    BY <1>3, <1>4, <2>2, <2>3, PutcharIsPut
  <2>5. SameBeside(screen, h[k + 1])
    BY <1>8, <2>4 DEF SameBeside
  <2> QED BY <2>1, <2>2, <2>3, <2>4, <2>5
<1> HIDE DEF S
<1>9. n \in S
  <2>1. 0..n \subseteq S
    BY <1>3, <1>7, <1>8, IntervalInduction
  <2>2. n \in 0..n
    BY <1>3
  <2> QED BY <2>1, <2>2
<1>10. screen' = h[n] /\ UNCHANGED scroll
  BY <1>5 DEF Puts
<1>11. g[n] = Mirror(screen') /\ SameBeside(screen, screen')
  BY <1>9, <1>10 DEF S
<1>12. ScreenInv'
  BY PutsStep
<1> QED BY <1>6, <1>10, <1>11, <1>12, PrintBecomes

\* A scroll and a clear move the page up, by some of its lines or by all of them.
LEMMA ScrollIsScroll ==
  ASSUME ScreenInv, NEW lines \in 0..Y_SIZE, Scroll(lines)
  PROVE  Picture!AbsScroll(lines)
<1>1. PICK V : screen \in Printed(V)
  BY DEF ScreenInv
<1> DEFINE U == V \cup {BLANK}
<1>2. BLANK \in U /\ screen \in Printed(U) /\ screen \in Screens(U) /\ RegionOK
  BY <1>1, MoreCharacters DEF ScreenInv, Printed
<1> HIDE DEF U
<1>3. lines \in Nat
  BY ScreenSize
<1>4. PICK t : t = Scrolled(screen, lines)
  OBVIOUS
<1>5. screen' = t /\ UNCHANGED scroll
  BY <1>4 DEF Scroll
<1>6. PageIn(t) = Picture!Up(PageIn(screen), lines) /\ SameBeside(screen, t)
  BY <1>2, <1>3, <1>4, ScrolledMoves
<1>7. /\ t \in Screens(U)
      /\ IF lines > scroll.max_y - scroll.min_y
         THEN t.x = scroll.min_x /\ t.y = scroll.min_y ELSE t.x = screen.x /\ t.y = screen.y
  BY <1>2, <1>3, <1>4, ScrolledKeeps
<1>8. ScreenInv'
  BY ClearingStep
<1>9. Picture!PageBecomes(Picture!Up(Picture!PageOf(screen.cells), lines))
  <2>1. Picture!PageBecomes(PageIn(screen'))
    BY <1>5, <1>6, <1>8, PageStep
  <2> QED BY <1>2, <1>5, <1>6, <2>1, PictureIs
<1>10. (lines >= Height) <=> (lines > scroll.max_y - scroll.min_y)
  BY <1>2, <1>3, RegionNumbers
<1>11. CASE lines > scroll.max_y - scroll.min_y
  <2>1. (screen.x - scroll.min_x + 1)' = 1 /\ (screen.y - scroll.min_y + 1)' = 1
    BY <1>2, <1>5, <1>7, <1>11, RegionNumbers
  <2> QED BY <1>9, <1>10, <1>11, <2>1 DEF Picture!AbsScroll, Height
<1>12. CASE ~(lines > scroll.max_y - scroll.min_y)
  <2>1. UNCHANGED <<screen.x - scroll.min_x + 1, screen.y - scroll.min_y + 1>>
    BY <1>5, <1>7, <1>12
  <2> QED BY <1>9, <1>10, <1>12, <2>1 DEF Picture!AbsScroll, Height
<1> QED BY <1>11, <1>12

LEMMA ClearScrollIsClearPage ==
  ASSUME ScreenInv, ClearScroll, screen = Home(screen)
  PROVE  Picture!AbsClearPage
<1>1. PICK V : screen \in Printed(V)
  BY DEF ScreenInv
<1> DEFINE U == V \cup {BLANK}
<1>2. BLANK \in U /\ screen \in Screens(U) /\ RegionOK
  BY <1>1, MoreCharacters DEF ScreenInv, Printed
<1> HIDE DEF U
<1>3. PICK t : t = Cleared(screen)
  OBVIOUS
<1>4. screen' = t /\ UNCHANGED scroll
  BY <1>3 DEF ClearScroll
<1>5. t \in Screens(U) /\ t.x = screen.x /\ t.y = screen.y
  BY <1>2, <1>3, ClearedKeeps
<1>6. \A p \in Grid : t.cells[p] = IF InRegion(p) THEN BLANK ELSE screen.cells[p]
  BY <1>2, <1>3 DEF Cleared, Screens
<1>7. PageIn(t) = Picture!Up(PageIn(screen), Height) /\ SameBeside(screen, t)
  <2> DEFINE L == [i \in 1..Width |-> BLANK]
             u == [j \in 1..Height |-> L]
  <2>1. Picture!Up(PageIn(screen), Height) = u
    <3>1. PageIn(screen) \in Pages(U) /\ Height \in Nat
      BY <1>2, PageInIs, RegionNumbers
    <3>2. \A j \in 1..Height : ~(j + Height <= Height)
      BY <1>2, RegionNumbers
    <3> QED BY <1>2, <3>1, <3>2, UpIs
  <2>2. u \in Pages(U) /\ \A j \in 1..Height : \A i \in 1..Width : u[j][i] = BLANK
    BY <1>2 DEF Pages
  <2>3. PageIn(t) \in Pages(U) /\ \A j \in 1..Height : \A i \in 1..Width : PageIn(t)[j][i] = BLANK
    BY <1>2, <1>5, <1>6, PageInIs, SpotFacts
  <2> HIDE DEF u
  <2>4. PageIn(t) = u
    BY <2>2, <2>3, SamePage
  <2> QED BY <1>6, <2>1, <2>4 DEF SameBeside
<1>8. ScreenInv'
  BY ClearingStep
<1>9. Picture!PageBecomes(Picture!Up(Picture!PageOf(screen.cells), Height))
  <2>1. Picture!PageBecomes(PageIn(screen'))
    BY <1>4, <1>7, <1>8, PageStep
  <2> QED BY <1>2, <1>4, <1>7, <2>1, PictureIs
<1>10. screen'.x - scroll'.min_x + 1 = 1 /\ screen'.y - scroll'.min_y + 1 = 1
  <2>1. screen.x = scroll.min_x /\ screen.y = scroll.min_y
    BY <1>2 DEF Home, Screens
  <2>2. scroll.min_x \in Int /\ scroll.min_y \in Int
    BY <1>2 DEF RegionOK
  <2> QED BY <1>4, <1>5, <2>1, <2>2
<1> QED BY <1>4, <1>9, <1>10 DEF Picture!AbsClearPage, Height

LEMMA ClearScreenIsClear ==
  ASSUME ScreenInv, ClearScreen
  PROVE  Picture!AbsClear
<1>1. PICK V : screen \in Screens(V)
  BY DEF ScreenInv, Printed
<1>2. screen' = [screen EXCEPT !.cells = [p \in Grid |-> BLANK]] /\ UNCHANGED scroll
  BY DEF ClearScreen
<1>3. screen'.cells = [p \in Grid |-> BLANK] /\ screen'.x = screen.x /\ screen'.y = screen.y
  BY <1>1, <1>2 DEF Screens
<1>4. DOMAIN screen.cells = Grid
  BY <1>1 DEF Screens
<1> QED BY <1>2, <1>3, <1>4 DEF Picture!AbsClear, BLANK

\* A new region is a new page, or the page as it was begun again.
LEMMA SetScrollIsSetScroll ==
  ASSUME ScreenInv, NEW c \in Corners, SetScroll(c)
  PROVE  Picture!AbsSetScroll \/ UNCHANGED Picture!absVars
<1>1. PICK V : screen \in Screens(V)
  BY DEF ScreenInv, Printed
<1> DEFINE left == Bound(0, c[1], max_x)
           top == Bound(0, c[2], max_y)
<1>2. ScreenInv' /\ RegionOK'
  BY SetScrollStep DEF ScreenInv
<1>3. scroll'.min_x = left /\ scroll'.min_y = top /\ screen' = [screen EXCEPT !.x = left, !.y = top]
  BY DEF SetScroll
<1> HIDE DEF left, top
<1>4. screen'.cells = screen.cells /\ screen'.x = scroll'.min_x /\ screen'.y = scroll'.min_y
  BY <1>1, <1>3 DEF Screens
<1> DEFINE w == scroll'.max_x - scroll'.min_x + 1
           h == scroll'.max_y - scroll'.min_y + 1
<1>5. /\ scroll'.min_x \in Nat /\ scroll'.max_x \in Nat /\ scroll'.min_x <= scroll'.max_x
      /\ scroll'.max_x <= max_x
      /\ scroll'.min_y \in Nat /\ scroll'.max_y \in Nat /\ scroll'.min_y <= scroll'.max_y
      /\ scroll'.max_y <= max_y
  BY <1>2 DEF RegionOK, max_x, max_y
<1>6. /\ w >= 1 /\ h >= 1
      /\ scroll'.min_x \in 0..(X_SIZE - w) /\ scroll'.min_y \in 0..(Y_SIZE - h)
  BY <1>5, ScreenSize DEF max_x, max_y
<1>7. screen'.x - scroll'.min_x + 1 = 1 /\ screen'.y - scroll'.min_y + 1 = 1
  BY <1>4, <1>5
<1> DEFINE region == [left |-> scroll.min_x, top |-> scroll.min_y,
                      width |-> scroll.max_x - scroll.min_x + 1,
                      height |-> scroll.max_y - scroll.min_y + 1]
<1>8. region'.width = w /\ region'.height = h
      /\ region'.left = scroll'.min_x /\ region'.top = scroll'.min_y
  OBVIOUS
<1>9. CASE region' # region \/ <<screen.x - scroll.min_x + 1, screen.y - scroll.min_y + 1>>'
             # <<screen.x - scroll.min_x + 1, screen.y - scroll.min_y + 1>>
  <2> HIDE DEF w, h
  <2>1. Picture!AbsSetScroll
    BY <1>4, <1>6, <1>7, <1>8, <1>9 DEF Picture!AbsSetScroll
  <2> QED BY <2>1
<1>10. CASE ~(region' # region \/ <<screen.x - scroll.min_x + 1, screen.y - scroll.min_y + 1>>'
             # <<screen.x - scroll.min_x + 1, screen.y - scroll.min_y + 1>>)
  BY <1>4, <1>10 DEF Picture!absVars
<1> QED BY <1>9, <1>10

LEMMA MoveToIsMoveTo ==
  ASSUME ScreenInv, NEW x \in Int, NEW y \in Int, MoveTo(x, y)
  PROVE  Picture!AbsMoveTo
<1> DEFINE a == Bound(scroll.min_x, x + scroll.min_x, scroll.max_x)
           b == Bound(scroll.min_y, y + scroll.min_y, scroll.max_y)
<1>1. RegionOK
  BY DEF ScreenInv
<1>2. a \in scroll.min_x..scroll.max_x /\ b \in scroll.min_y..scroll.max_y
  <2>1. /\ scroll.min_x \in Int /\ scroll.max_x \in Int /\ scroll.min_x <= scroll.max_x
        /\ scroll.min_y \in Int /\ scroll.max_y \in Int /\ scroll.min_y <= scroll.max_y
        /\ x + scroll.min_x \in Int /\ y + scroll.min_y \in Int
    BY <1>1, RegionNumbers
  <2> QED BY <2>1, BoundFacts
<1>3. screen' = [screen EXCEPT !.x = a, !.y = b] /\ UNCHANGED scroll
  BY DEF MoveTo
<1> HIDE DEF a, b
<1>4. PICK V : screen \in Screens(V)
  BY DEF ScreenInv, Printed
<1>5. screen'.cells = screen.cells /\ screen'.x = a /\ screen'.y = b
  BY <1>3, <1>4 DEF Screens
<1>6. a - scroll.min_x + 1 \in 1..Width /\ b - scroll.min_y + 1 \in 1..Height
  BY <1>1, <1>2, RegionNumbers
<1> QED BY <1>3, <1>5, <1>6 DEF Picture!AbsMoveTo, Width, Height

LEMMA PictureStarts ==
  ASSUME ScreenInit
  PROVE  Picture!AbsInit
<1>1. scroll.min_x = 0 /\ scroll.min_y = 0 /\ scroll.max_x = X_SIZE - 1 /\ scroll.max_y = Y_SIZE - 1
      /\ screen.x = 0 /\ screen.y = 0 /\ screen.cells = [p \in Grid |-> BLANK]
  BY DEF ScreenInit, max_x, max_y
<1>2. X_SIZE - 1 - 0 + 1 = X_SIZE /\ Y_SIZE - 1 - 0 + 1 = Y_SIZE /\ 0 - 0 + 1 = 1
  BY ScreenSize
<1> QED BY <1>1, <1>2 DEF Picture!AbsInit, Grid, max_x, max_y, BLANK

\* A character put into column x, as far as it reaches, and what it leaves there.
Reaches(a, x, c) ==
  \/ c # NEWLINE /\ a = x
  \/ c = NEWLINE /\ a >= x /\ Picture!Side(a) = Picture!Side(x)
Mark(c) == IF c = NEWLINE THEN BLANK ELSE c

LEMMA PutAtIs ==
  ASSUME RegionOK, NEW V, NEW s \in Screens(V), NEW x \in Nat, NEW y \in Int, NEW c
  PROVE  \A p \in Grid : PutAt(s, x, y, c).cells[p] =
           IF p[2] = y /\ Reaches(p[1], x, c) THEN Mark(c) ELSE s.cells[p]
<1> SUFFICES ASSUME NEW p \in Grid
             PROVE  PutAt(s, x, y, c).cells[p] =
                      IF p[2] = y /\ Reaches(p[1], x, c) THEN Mark(c) ELSE s.cells[p]
  OBVIOUS
<1>1. p[1] \in 0..max_x /\ p[2] \in 0..max_y /\ p = <<p[1], p[2]>>
  BY ScreenSize
<1>2. CASE c = NEWLINE
  <2>1. (p[1] \in x..Limit(x)) <=> Reaches(p[1], x, c)
    <3>1. \A a : Picture!Side(a) = IF a < scroll.min_x THEN 1
                                  ELSE IF a < scroll.min_x + Width THEN 2 ELSE 3
      BY DEF Picture!Side, Width
    <3>2. CASE x > scroll.max_x
      <4>1. Limit(x) = max_x
        BY <3>2, RegionNumbers DEF Limit
      <4>2. Picture!Side(x) = 3
        BY <3>1, <3>2, RegionNumbers
      <4>3. p[1] >= x => Picture!Side(p[1]) = 3
        BY <1>1, <3>1, <3>2, RegionNumbers
      <4> QED BY <1>1, <1>2, <4>1, <4>2, <4>3, RegionNumbers DEF Reaches
    <3>3. CASE x \in scroll.min_x..scroll.max_x
      <4>1. Limit(x) = scroll.max_x
        BY <3>3, RegionNumbers DEF Limit
      <4>2. Picture!Side(x) = 2
        BY <3>1, <3>3, RegionNumbers
      <4>3. p[1] >= x => (Picture!Side(p[1]) = 2 <=> p[1] <= scroll.max_x)
        BY <1>1, <3>1, <3>3, RegionNumbers
      <4> QED BY <1>1, <1>2, <4>1, <4>2, <4>3, RegionNumbers DEF Reaches
    <3>4. CASE x < scroll.min_x
      <4>1. Limit(x) = scroll.min_x - 1
        BY <3>4, RegionNumbers DEF Limit
      <4>2. Picture!Side(x) = 1
        BY <3>1, <3>4, RegionNumbers
      <4>3. p[1] >= x => (Picture!Side(p[1]) = 1 <=> p[1] <= scroll.min_x - 1)
        BY <1>1, <3>1, <3>4, RegionNumbers
      <4> QED BY <1>1, <1>2, <4>1, <4>2, <4>3, RegionNumbers DEF Reaches
    <3> QED BY <3>2, <3>3, <3>4, RegionNumbers
  <2>2. PutAt(s, x, y, c).cells[p] = IF p[2] = y /\ p[1] \in x..Limit(x) THEN BLANK ELSE s.cells[p]
    BY <1>2 DEF PutAt, Erase, Screens
  <2> QED BY <1>2, <2>1, <2>2 DEF Mark
<1>3. CASE c # NEWLINE
  <2>1. PutAt(s, x, y, c) = Draw(s, x, y, c)
    BY <1>3 DEF PutAt
  <2>2. (p = <<x, y>>) <=> (p[1] = x /\ p[2] = y)
    BY <1>1
  <2>3. CASE <<x, y>> \in Grid
    BY <1>3, <2>1, <2>2, <2>3 DEF Draw, Screens, Reaches, Mark
  <2>4. CASE <<x, y>> \notin Grid
    BY <1>3, <2>1, <2>2, <2>4 DEF Draw, Reaches
  <2> QED BY <2>3, <2>4
<1> QED BY <1>2, <1>3

\* One line of text on a picture, character by character, and what is shown then.
IsRow(g, text, x, y) ==
  \A k \in 1..Len(text), p \in Grid :
    g[k][p] = IF p[2] = y /\ Reaches(p[1], x + k - 1, text[k]) THEN Mark(text[k]) ELSE g[k - 1][p]
Drawn(p, x, text) == {i \in 1..Len(text) : Reaches(p[1], x + i - 1, text[i])}
LineShown(pic, p, x, text) ==
  IF Drawn(p, x, text) = {} THEN pic[p] ELSE Mark(text[Max(Drawn(p, x, text))])

LEMMA RowOfText ==
  ASSUME NEW text, Len(text) \in Nat, NEW x, NEW y, NEW g, IsRow(g, text, x, y), NEW p \in Grid
  PROVE  g[Len(text)][p] = IF p[2] = y THEN LineShown(g[0], p, x, text) ELSE g[0][p]
<1> DEFINE n == Len(text)
           D(k) == {i \in 1..k : Reaches(p[1], x + i - 1, text[i])}
           After(k) == IF p[2] = y /\ D(k) # {} THEN Mark(text[Max(D(k))]) ELSE g[0][p]
           S == {k \in 0..n : g[k][p] = After(k)}
<1>1. n \in Nat
  OBVIOUS
<1>2. ASSUME NEW k \in 1..n
      PROVE  g[k][p] = IF p[2] = y /\ Reaches(p[1], x + k - 1, text[k]) THEN Mark(text[k])
                       ELSE g[k - 1][p]
  BY DEF IsRow
<1> HIDE DEF n
<1>3. 0 \in S
  <2>1. D(0) = {}
    OBVIOUS
  <2> QED BY <1>1, <2>1
<1>4. ASSUME NEW k \in 0..(n - 1), k \in S PROVE k + 1 \in S
  <2>1. k + 1 \in 1..n /\ k + 1 \in 0..n /\ (k + 1) - 1 = k /\ k \in Nat
    BY <1>1
  <2>2. g[k + 1][p] = IF p[2] = y /\ Reaches(p[1], x + (k + 1) - 1, text[k + 1])
                      THEN Mark(text[k + 1]) ELSE g[k][p]
    BY <1>2, <2>1
  <2>3. CASE Reaches(p[1], x + (k + 1) - 1, text[k + 1])
    <3>1. k + 1 \in D(k + 1)
      BY <2>1, <2>3
    <3>2. Max(D(k + 1)) = k + 1 /\ D(k + 1) # {}
      <4>1. k + 1 \in Nat /\ D(k + 1) \in SUBSET (1..(k + 1))
        BY <2>1
      <4> QED BY <3>1, <4>1, MaxOfInterval
    <3>3. CASE p[2] = y
      <4>1. g[k + 1][p] = Mark(text[k + 1]) /\ After(k + 1) = Mark(text[k + 1])
        BY <2>2, <2>3, <3>2, <3>3
      <4> QED BY <2>1, <4>1
    <3>4. CASE p[2] # y
      <4>1. g[k + 1][p] = g[k][p] /\ After(k + 1) = g[0][p] /\ After(k) = g[0][p]
        BY <2>2, <3>4
      <4> QED BY <1>4, <2>1, <4>1
    <3> QED BY <3>3, <3>4
  <2>4. CASE ~Reaches(p[1], x + (k + 1) - 1, text[k + 1])
    <3>1. D(k + 1) = D(k)
      <4>1. 1..(k + 1) = (1..k) \cup {k + 1}
        BY <2>1
      <4> QED BY <2>4, <4>1
    <3>2. After(k + 1) = After(k)
      BY <3>1
    <3> HIDE DEF D, After
    <3> QED BY <1>4, <2>1, <2>2, <2>4, <3>2
  <2> QED BY <2>3, <2>4
<1>5. n \in S
  <2> HIDE DEF S
  <2>1. 0..n \subseteq S
    BY <1>1, <1>3, <1>4, IntervalInduction
  <2>2. n \in 0..n
    BY <1>1
  <2> QED BY <2>1, <2>2
<1>6. g[n][p] = After(n) /\ D(n) = Drawn(p, x, text)
  BY <1>5 DEF Drawn, n
<1> QED BY <1>6 DEF LineShown, n

\* It is what Picture shows.
LEMMA LineShownIs ==
  ASSUME NEW V, NEW text \in Seq(V), NEW p, NEW x
  PROVE  Picture!Shown(p, x, text) = LineShown(screen.cells, p, x, text)
<1>1. DOMAIN text = 1..Len(text)
  BY LenProperties
<1>2. {i \in DOMAIN text :
         LET c == text[i] IN
         \/ c # "\n" /\ p[1] = x + i - 1
         \/ c = "\n" /\ p[1] >= x + i - 1 /\ Picture!Side(p[1]) = Picture!Side(x + i - 1)}
        = Drawn(p, x, text)
  BY <1>1 DEF Drawn, Reaches, NEWLINE
<1> DEFINE D == Drawn(p, x, text)
<1> HIDE DEF D
<1>3. Picture!Shown(p, x, text) =
        LET last == text[Picture!Max(D)]
        IN IF D = {} THEN screen.cells[p] ELSE IF last = "\n" THEN " " ELSE last
  BY <1>2 DEF Picture!Shown, D
<1>4. Picture!Max(D) = Max(D)
  BY DEF Picture!Max, Max
<1>5. Picture!Shown(p, x, text) = IF D = {} THEN screen.cells[p] ELSE Mark(text[Max(D)])
  BY <1>3, <1>4 DEF Mark, NEWLINE, BLANK
<1> QED BY <1>5 DEF LineShown, D

\* What is put somewhere else leaves the page and its cursor.
LEMMA PageStays ==
  ASSUME NEW V, NEW s, screen' \in Stays(V, s), s = screen, UNCHANGED scroll
  PROVE  UNCHANGED <<[left |-> scroll.min_x, top |-> scroll.min_y,
                      width |-> scroll.max_x - scroll.min_x + 1,
                      height |-> scroll.max_y - scroll.min_y + 1],
                     screen.x - scroll.min_x + 1, screen.y - scroll.min_y + 1>>
BY DEF Stays

LEMMA PutsAtIsPrintAt ==
  ASSUME ScreenInv, NEW x \in Nat, NEW y \in Int, NEW text, IsText(text), PutsAt(x, y, text)
  PROVE  Picture!AbsPrintAt(x, y, text)
<1>1. PICK V : screen \in Printed(V)
  BY DEF ScreenInv
<1>2. PICK W : text \in Seq(W)
  BY DEF IsText
<1> DEFINE U == V \cup W \cup {BLANK}
           n == Len(text)
<1>3. BLANK \in U /\ V \subseteq U /\ text \in Seq(U) /\ n \in Nat /\ \A k \in 1..n : text[k] \in U
  BY <1>2
<1> HIDE DEF U
<1>4. screen \in Screens(U) /\ RegionOK
  BY <1>1, <1>3, MoreCharacters DEF ScreenInv, Printed
<1>5. PICK h \in [0..n -> Stays(U, screen)] :
        /\ h[0] = screen /\ h[n] = screen'
        /\ \A k \in 1..n :
             h[k] = IF x + k - 1 > max_x THEN h[k - 1] ELSE PutAt(h[k - 1], x + k - 1, y, text[k])
  BY <1>3, <1>4, PutsAtChain
<1> DEFINE g == [k \in 0..n |-> h[k].cells]
<1>6. IsRow(g, text, x, y)
  <2> SUFFICES ASSUME NEW k \in 1..n, NEW p \in Grid
               PROVE  g[k][p] = IF p[2] = y /\ Reaches(p[1], x + k - 1, text[k])
                                THEN Mark(text[k]) ELSE g[k - 1][p]
    BY DEF IsRow
  <2>1. k - 1 \in 0..n /\ k \in 0..n /\ x + k - 1 \in Nat
    BY <1>3
  <2>2. h[k - 1] \in Screens(U) /\ g[k] = h[k].cells /\ g[k - 1] = h[k - 1].cells
    BY <1>5, <2>1 DEF Stays
  <2>3. CASE x + k - 1 > max_x
    <3>1. p[1] \in 0..max_x
      BY ScreenSize
    <3>2. ~Reaches(p[1], x + k - 1, text[k])
      BY <2>1, <2>3, <3>1, ScreenSize DEF Reaches
    <3> QED BY <1>5, <2>2, <2>3, <3>2
  <2>4. CASE ~(x + k - 1 > max_x)
    <3>1. h[k] = PutAt(h[k - 1], x + k - 1, y, text[k])
      BY <1>5, <2>4
    <3>2. \A q \in Grid : PutAt(h[k - 1], x + k - 1, y, text[k]).cells[q] =
            IF q[2] = y /\ Reaches(q[1], x + k - 1, text[k]) THEN Mark(text[k])
            ELSE h[k - 1].cells[q]
      BY ONLY <1>4, <2>1, <2>2, y \in Int, PutAtIs
    <3> HIDE DEF g
    <3> QED BY <2>2, <3>1, <3>2
  <2> QED BY <2>3, <2>4
<1>7. g[0] = screen.cells /\ g[n] = screen'.cells
  BY <1>3, <1>5
<1> HIDE DEF g
<1>8. ASSUME NEW p \in Grid
      PROVE  screen'.cells[p] = IF p[2] = y THEN Picture!Shown(p, x, text) ELSE screen.cells[p]
  <2>1. g[n][p] = IF p[2] = y THEN LineShown(g[0], p, x, text) ELSE g[0][p]
    BY <1>3, <1>6, RowOfText
  <2>2. Picture!Shown(p, x, text) = LineShown(screen.cells, p, x, text)
    BY <1>2, LineShownIs
  <2> QED BY <1>7, <2>1, <2>2
<1>9. DOMAIN screen.cells = Grid
  BY <1>4 DEF Screens
<1>10. screen' \in Stays(U, screen) /\ UNCHANGED scroll
  <2>1. n \in 0..n
    BY <1>3
  <2> QED BY <1>5, <2>1 DEF PutsAt
<1> QED BY <1>8, <1>9, <1>10, PageStays DEF Picture!AbsPrintAt

\* One line of a block, put with c_printf_at.
IsLine(text) ==
  /\ text \in Seq(STRING) /\ text # <<>>
  /\ \A i \in 1..Len(text) : text[i] # RETURN /\ (text[i] = NEWLINE <=> i = Len(text))
IsStepping(a, text) == \A k \in 1..Len(text) : a[k] = Stepped(a[k - 1], text[k])
LinePut(pic, new, text, x, y) ==
  \A p \in Grid : new[p] = IF p[2] = y THEN LineShown(pic, p, x, text) ELSE pic[p]

LEMMA LineIsPut ==
  ASSUME RegionOK, NEW V, NEW text, IsLine(text),
         NEW a \in [0..Len(text) -> [s : Screens(V), x : Int, y : Int]], IsStepping(a, text),
         NEW x \in Nat, NEW y \in Int, a[0].x = x, a[0].y = y
  PROVE  /\ a[Len(text)].x = scroll.min_x /\ a[Len(text)].y = y + 1
         /\ LinePut(a[0].s.cells, a[Len(text)].s.cells, text, x, y)
<1> DEFINE m == Len(text)
<1>1. m \in Nat /\ m >= 1 /\ text \in Seq(STRING)
  BY LenProperties DEF IsLine
<1>2. ASSUME NEW k \in 1..m
      PROVE  /\ k - 1 \in 0..m /\ k \in 0..m /\ a[k - 1].s \in Screens(V)
             /\ a[k].s = PutAt(a[k - 1].s, a[k - 1].x, a[k - 1].y, text[k])
             /\ a[k].x = IF k = m THEN scroll.min_x ELSE a[k - 1].x + 1
             /\ a[k].y = IF k = m THEN a[k - 1].y + 1 ELSE a[k - 1].y
  <2>1. k - 1 \in 0..m /\ k \in 0..m /\ a[k - 1].s \in Screens(V)
    <3>1. k - 1 \in 0..m /\ k \in 0..m
      BY <1>1
    <3>2. a[k - 1] \in [s : Screens(V), x : Int, y : Int]
      BY <3>1
    <3> QED BY <3>1, <3>2
  <2>2. a[k] = Stepped(a[k - 1], text[k])
    BY DEF IsStepping
  <2>3. text[k] # RETURN /\ (text[k] = NEWLINE <=> k = m)
    BY DEF IsLine
  <2> HIDE DEF m
  <2> QED BY <2>1, <2>2, <2>3 DEF Stepped
<1> HIDE DEF m
<1> DEFINE S == {k \in 0..(m - 1) : a[k].x = x + k /\ a[k].y = y}
<1>3. 0 \in S
  BY <1>1
<1>4. ASSUME NEW k \in 0..((m - 1) - 1), k \in S PROVE k + 1 \in S
  <2>1. k + 1 \in 1..m /\ k + 1 # m /\ (k + 1) - 1 = k /\ k + 1 \in 0..(m - 1)
    BY <1>1
  <2>2. a[k + 1].x = a[k].x + 1 /\ a[k + 1].y = a[k].y
    BY <1>2, <2>1
  <2>3. a[k + 1].x = x + (k + 1) /\ a[k + 1].y = y
    BY <1>4, <2>2
  <2> QED BY <2>1, <2>3
<1>5. 0..(m - 1) \subseteq S
  <2> HIDE DEF S
  <2>1. m - 1 \in Nat
    BY <1>1
  <2> QED BY <1>3, <1>4, <2>1, IntervalInduction
<1>6. ASSUME NEW k \in 1..m PROVE a[k - 1].x = x + k - 1 /\ a[k - 1].y = y /\ x + k - 1 \in Nat
  <2>1. k - 1 \in 0..(m - 1) /\ x + (k - 1) = x + k - 1 /\ x + k - 1 \in Nat
    BY <1>1
  <2> QED BY <1>5, <2>1
<1>7. a[m].x = scroll.min_x /\ a[m].y = y + 1
  <2>1. m \in 1..m
    BY <1>1
  <2> QED BY <1>2, <1>6, <2>1
<1> DEFINE g == [k \in 0..m |-> a[k].s.cells]
<1>8. IsRow(g, text, x, y)
  <2> SUFFICES ASSUME NEW k \in 1..m, NEW p \in Grid
               PROVE  g[k][p] = IF p[2] = y /\ Reaches(p[1], x + k - 1, text[k])
                                THEN Mark(text[k]) ELSE g[k - 1][p]
    BY DEF IsRow, m
  <2>1. a[k].s = PutAt(a[k - 1].s, x + k - 1, y, text[k]) /\ a[k - 1].s \in Screens(V)
        /\ x + k - 1 \in Nat
    BY <1>2, <1>6
  <2>2. \A q \in Grid : PutAt(a[k - 1].s, x + k - 1, y, text[k]).cells[q] =
          IF q[2] = y /\ Reaches(q[1], x + k - 1, text[k]) THEN Mark(text[k])
          ELSE a[k - 1].s.cells[q]
    BY <2>1, PutAtIs
  <2>3. g[k] = a[k].s.cells /\ g[k - 1] = a[k - 1].s.cells
    BY <1>2
  <2> HIDE DEF g
  <2> QED BY <2>1, <2>2, <2>3
<1>9. g[0] = a[0].s.cells /\ g[m] = a[m].s.cells
  BY <1>1
<1> HIDE DEF g
<1>10. LinePut(a[0].s.cells, a[m].s.cells, text, x, y)
  <2>1. \A p \in Grid : g[m][p] = IF p[2] = y THEN LineShown(g[0], p, x, text) ELSE g[0][p]
    BY <1>1, <1>8, RowOfText DEF m
  <2> QED BY <1>9, <2>1 DEF LinePut
<1> QED BY <1>7, <1>10 DEF m

\* Several lines, one below the other.
LEMMA PrintAtIsPrintLines ==
  ASSUME ScreenInv, NEW x \in Nat, NEW y \in Nat, NEW b, IsBlock(b), PrintAt(x, y, FlattenSeq(b))
  PROVE  Picture!AbsPrintLinesAt(x, y, b)
<1>1. PICK V : screen \in Printed(V)
  BY DEF ScreenInv
<1> DEFINE U == V \cup STRING \cup {BLANK}
           N == Len(b)
           text == FlattenSeq(b)
           e == Len(text)
<1>2. b \in Seq(Seq(STRING)) /\ N \in Nat /\ DOMAIN b = 1..N /\ \A n \in 1..N : IsLine(b[n])
  <2>1. b \in Seq(Seq(STRING)) /\ N \in Nat /\ DOMAIN b = 1..N
    BY LenProperties DEF IsBlock
  <2>2. ASSUME NEW n \in 1..N PROVE IsLine(b[n])
    <3>1. b[n] \in Seq(STRING) /\ DOMAIN b[n] = 1..Len(b[n])
      BY <2>1, ElementOfSeq, LenProperties
    <3> QED BY <2>1, <3>1 DEF IsBlock, IsLine, RETURN, NEWLINE
  <2> QED BY <2>1, <2>2
<1>3. text \in Seq(STRING)
  <2>1. PICK f \in [0..N -> Seq(STRING)] : text = f[N]
    BY <1>2, FlattenUnfolds
  <2>2. N \in 0..N
    BY <1>2
  <2> QED BY <2>1, <2>2
<1>4. PICK o \in [0..N -> Nat] :
        /\ o[0] = 0 /\ o[N] = e
        /\ \A n \in 1..N :
             /\ o[n] = o[n - 1] + Len(b[n]) /\ o[n] <= e
             /\ \A i \in 1..Len(b[n]) : text[o[n - 1] + i] = b[n][i]
  BY <1>2, FlattenParts
<1>5. BLANK \in U /\ V \subseteq U /\ text \in Seq(U) /\ e \in Nat
  BY <1>3
<1> HIDE DEF U, N, text, e
<1>6. screen \in Screens(U) /\ RegionOK /\ x \in Int /\ y \in Int /\ PrintAt(x, y, text)
  BY <1>1, <1>5, MoreCharacters DEF ScreenInv, Printed, text
<1>7. PICK h \in [0..e -> [s : Stays(U, screen), x : Int, y : Int]] :
        /\ h[0] = [s |-> screen, x |-> x, y |-> y] /\ h[e].s = screen'
        /\ \A k \in 1..e : h[k] = Stepped(h[k - 1], text[k])
  BY ONLY <1>5, <1>6, PrintAtChain DEF e
<1> DEFINE First(n) == IF n = 1 THEN x ELSE scroll.min_x
           Line(p) == p[2] - y + 1
           At(n) == /\ h[o[n]].x = First(n + 1) /\ h[o[n]].y = y + n
                    /\ \A p \in Grid : h[o[n]].s.cells[p] =
                         IF Line(p) \in 1..n
                         THEN LineShown(screen.cells, p, First(Line(p)), b[Line(p)])
                         ELSE screen.cells[p]
           S == {n \in 0..N : At(n)}
<1>8. 0 \in S
  <2>1. \A p \in Grid : Line(p) \notin 1..0
    BY SpotFacts, <1>6
  <2>2. h[o[0]].x = First(0 + 1) /\ h[o[0]].y = y + 0 /\ h[o[0]].s.cells = screen.cells
    BY <1>4, <1>7
  <2>3. 0 \in 0..N
    BY <1>2
  <2> HIDE DEF First, Line
  <2> QED BY <2>1, <2>2, <2>3
<1>9. ASSUME NEW k \in 0..(N - 1), k \in S PROVE k + 1 \in S
  <2>1. PICK n : n = k + 1
    OBVIOUS
  <2>2. n \in 1..N /\ n - 1 = k /\ n \in 0..N /\ k \in 0..N /\ n \in Nat
    BY <1>2, <2>1
  <2>3. PICK from \in Nat : from = o[k]
    BY <2>2
  <2>4. PICK line : line = b[n] /\ IsLine(line)
    BY <1>2, <2>2
  <2>5. /\ o[n] = from + Len(line) /\ from + Len(line) <= e /\ Len(line) \in Nat
        /\ \A i \in 1..Len(line) : text[from + i] = line[i]
    <3>1. Len(line) \in Nat
      BY <2>4, LenProperties DEF IsLine
    <3> QED BY <1>4, <2>2, <2>3, <2>4, <3>1
  <2> DEFINE a == [i \in 0..Len(line) |-> h[from + i]]
  <2>6. a \in [0..Len(line) -> [s : Screens(U), x : Int, y : Int]]
    <3>1. ASSUME NEW i \in 0..Len(line) PROVE h[from + i] \in [s : Screens(U), x : Int, y : Int]
      <4>1. from + i \in 0..e
        BY <1>5, <2>5
      <4>2. h[from + i] \in [s : Stays(U, screen), x : Int, y : Int]
        BY <1>7, <4>1
      <4>3. Stays(U, screen) \subseteq Screens(U)
        BY DEF Stays
      <4> QED BY <4>2, <4>3
    <3> QED BY <3>1
  <2>7. IsStepping(a, line)
    <3>1. ASSUME NEW i \in 1..Len(line) PROVE a[i] = Stepped(a[i - 1], line[i])
      <4>1. from + i \in 1..e /\ i \in 0..Len(line) /\ i - 1 \in 0..Len(line)
            /\ (from + i) - 1 = from + (i - 1)
        <5>1. Len(line) \in Nat /\ from + Len(line) <= e /\ from \in Nat /\ e \in Nat
          BY <1>5, <2>5
        <5> QED BY ONLY <5>1, i \in 1..Len(line)
      <4>2. h[from + i] = Stepped(h[from + (i - 1)], text[from + i])
        BY <1>7, <4>1
      <4> QED BY <2>5, <4>1, <4>2
    <3> QED BY <3>1 DEF IsStepping
  <2>8. a[0] = h[o[k]] /\ a[Len(line)] = h[o[n]]
    <3>1. 0 \in 0..Len(line) /\ Len(line) \in 0..Len(line) /\ from + 0 = from
      BY <2>5
    <3> QED BY <2>3, <2>5, <3>1
  <2> HIDE DEF a
  <2>9. At(k) /\ First(k + 1) \in Nat /\ y + k \in Int
    <3>1. At(k)
      BY <1>9
    <3> HIDE DEF At
    <3> QED BY <1>6, <2>2, <3>1, RegionNumbers
  <2>10. /\ h[o[n]].x = scroll.min_x /\ h[o[n]].y = (y + k) + 1
         /\ LinePut(h[o[k]].s.cells, h[o[n]].s.cells, line, First(n), y + k)
    <3>1. At(k)
      BY <1>9
    <3>2. a[0].x = First(k + 1) /\ a[0].y = y + k
      BY ONLY <2>8, <3>1
    <3> HIDE DEF First, At
    <3>3. a[0].x = First(n) /\ First(n) \in Nat
      BY ONLY <2>1, <2>9, <3>2
    <3>4. /\ a[Len(line)].x = scroll.min_x /\ a[Len(line)].y = (y + k) + 1
          /\ LinePut(a[0].s.cells, a[Len(line)].s.cells, line, First(n), y + k)
      BY ONLY <1>6, <2>4, <2>6, <2>7, <2>9, <3>2, <3>3, LineIsPut, SMTT(40)
    <3> QED BY <2>8, <3>4
  <2>11. ASSUME NEW p \in Grid
         PROVE  h[o[n]].s.cells[p] =
                  IF Line(p) \in 1..n
                  THEN LineShown(screen.cells, p, First(Line(p)), b[Line(p)]) ELSE screen.cells[p]
    <3>1. h[o[k]].s.cells[p] = IF Line(p) \in 1..k
            THEN LineShown(screen.cells, p, First(Line(p)), b[Line(p)]) ELSE screen.cells[p]
      BY <2>9
    <3>2. h[o[n]].s.cells[p] = IF p[2] = y + k THEN LineShown(h[o[k]].s.cells, p, First(n), line)
                               ELSE h[o[k]].s.cells[p]
      BY <2>10 DEF LinePut
    <3>3. p[2] \in Int
      BY SpotFacts, <1>6
    <3>4. CASE p[2] = y + k
      <4>1. Line(p) = n /\ n \notin 1..k /\ n \in 1..n
        BY <2>1, <2>2, <3>4
      <4>2. h[o[k]].s.cells[p] = screen.cells[p]
        BY <3>1, <4>1
      <4>3. LineShown(h[o[k]].s.cells, p, First(n), line) = LineShown(screen.cells, p, First(n), line)
        BY <4>2 DEF LineShown
      <4> HIDE DEF Line, First
      <4> QED BY <2>4, <3>2, <3>4, <4>1, <4>3
    <3>5. CASE p[2] # y + k
      <4>1. (Line(p) \in 1..n) <=> (Line(p) \in 1..k)
        BY <2>1, <2>2, <3>3, <3>5
      <4> HIDE DEF Line, First
      <4> QED BY <3>1, <3>2, <3>5, <4>1
    <3> QED BY <3>4, <3>5
  <2>12. h[o[n]].x = First(n + 1) /\ h[o[n]].y = y + n
    BY <2>1, <2>2, <2>10
  <2>13. At(n)
    <3> HIDE DEF First, Line
    <3> QED BY <2>11, <2>12
  <2> HIDE DEF At
  <2> QED BY <2>1, <2>2, <2>13
<1>10. At(N)
  <2>1. N \in 0..N
    BY <1>2
  <2>2. 0..N \subseteq S
    <3> HIDE DEF S
    <3> QED BY <1>2, <1>8, <1>9, IntervalInduction
  <2> HIDE DEF At
  <2> QED BY <2>1, <2>2
<1>11. \A p \in Grid : screen'.cells[p] =
         IF Line(p) \in 1..N THEN LineShown(screen.cells, p, First(Line(p)), b[Line(p)])
         ELSE screen.cells[p]
  BY <1>4, <1>7, <1>10
<1>12. ASSUME NEW p \in Grid
       PROVE  screen'.cells[p] = IF Line(p) \in DOMAIN b
                                 THEN Picture!Shown(p, First(Line(p)), b[Line(p)])
                                 ELSE screen.cells[p]
  <2>1. ASSUME Line(p) \in 1..N
        PROVE  LineShown(screen.cells, p, First(Line(p)), b[Line(p)])
                 = Picture!Shown(p, First(Line(p)), b[Line(p)])
    <3>1. b[Line(p)] \in Seq(STRING)
      BY <1>2, <2>1 DEF IsLine
    <3> HIDE DEF First, Line
    <3> QED BY <3>1, LineShownIs
  <2>2. DOMAIN b = 1..N
    BY <1>2
  <2> HIDE DEF First, Line
  <2> QED BY <1>11, <2>1, <2>2
<1>13. DOMAIN screen.cells = Grid
  BY <1>6 DEF Screens
<1>14. screen' \in Stays(U, screen) /\ UNCHANGED scroll
  BY <1>5, <1>6, PrintAtKeeps
<1>15. \A p \in DOMAIN screen.cells :
         screen'.cells[p] = LET n == p[2] - y + 1
                            IN IF n \in DOMAIN b
                               THEN Picture!Shown(p, IF n = 1 THEN x ELSE scroll.min_x, b[n])
                               ELSE screen.cells[p]
  BY <1>12, <1>13
<1> QED BY <1>14, <1>15, PageStays DEF Picture!AbsPrintLinesAt

-----------------------------------------------------------------------------
(* The screen promises what ScreenAbs says.                                *)

\* What is typed and read, and so echoed, was in the buffer.
LEMMA ReadIsShort ==
  ASSUME KeyboardInv, FirstKey \/ \E count \in 0..C_BUFSIZE : Read(count)
  PROVE  got' \in Seq(Chars) /\ Len(got') \in 0..(C_BUFSIZE - 1)
<1>1. InputQueue \in 0..(C_BUFSIZE - 1)
  BY TypedIs
<1>2. KeyboardInv'
  BY FirstKeyKeeps, ReadKeeps
<1>3. \E n \in 0..(C_BUFSIZE - 1) : Getchars(n)
  <2>1. CASE FirstKey
    <3>1. Getchars(1) /\ 1 \in 0..(C_BUFSIZE - 1)
      BY <2>1, BufferSize DEF FirstKey
    <3> QED BY <3>1
  <2>2. ASSUME NEW count \in 0..C_BUFSIZE, Read(count)
        PROVE  \E n \in 0..(C_BUFSIZE - 1) : Getchars(n)
    <3>1. Min({count, InputQueue}) = IF count <= InputQueue THEN count ELSE InputQueue
      <4>1. count \in Int /\ InputQueue \in Int
        BY <1>1, BufferSize
      <4> QED BY <4>1, MinMaxOfTwo
    <3>2. Min({count, InputQueue}) \in 0..(C_BUFSIZE - 1)
      BY <1>1, <3>1, BufferSize
    <3> QED BY <2>2, <3>2 DEF Read
  <2> QED BY <2>1, <2>2
<1>4. PICK n \in 0..(C_BUFSIZE - 1) : Getchars(n)
  BY <1>3
<1>5. got' = [i \in 1..n |-> input_buffer[Ahead(i - 1)]] /\ n \in Nat
  BY <1>4, BufferSize DEF Getchars
<1>6. Len(got') = n
  BY <1>5
<1> QED BY <1>2, <1>4, <1>6 DEF KeyboardInv, TypeOK

\* The echo is one of Picture's texts.
LEMMA EchoIsKnown ==
  ASSUME NEW chars \in Seq(Chars), Len(chars) \in 0..(C_BUFSIZE - 1)
  PROVE  /\ IsText(Echo(chars))
         /\ Echo(chars) \in UNION {[1..n -> {Solid, "\n", "\r"}] : n \in 0..(C_BUFSIZE - 1)}
<1>1. PICK n \in 0..Len(chars) : Echo(chars) \in [1..n -> {Solid, "\n", "\r"}]
  BY EchoIsShort
<1>2. n \in 0..(C_BUFSIZE - 1)
  BY BufferSize
<1> QED BY <1>1, <1>2, EchoIsText

LEMMA ScreenIsPicture ==
  ASSUME ScreenInv, ScreenNext, ClearsAtHome
  PROVE  [Picture!AbsNext]_(Picture!absVars)
<1>1. \A t \in Texts \cup Labels : IsText(t)
  BY ScreenAssumption DEF IsText
<1>2. \A p \in Places : p[1] \in Nat /\ p[2] \in Nat
  BY ScreenAssumption
<1>3. \A p \in Grid : p[1] \in Int /\ p[2] \in Int
  BY ScreenSize
<1>4. ASSUME NEW c \in Corners, SetScroll(c) PROVE [Picture!AbsNext]_(Picture!absVars)
  BY <1>4, SetScrollIsSetScroll DEF Picture!AbsNext
<1>5. ASSUME NEW p \in Grid, MoveTo(p[1], p[2]) PROVE Picture!AbsNext
  BY <1>3, <1>5, MoveToIsMoveTo DEF Picture!AbsNext
<1>6. ASSUME NEW t \in Texts, Puts(t) PROVE Picture!AbsNext
  <2>1. Picture!AbsPrint(t)
    BY <1>1, <1>6, PutsIsPrint
  <2> QED BY <2>1 DEF Picture!AbsNext
<1>7. ASSUME NEW t \in Labels, NEW p \in Places, PutsAt(p[1], p[2], t) PROVE Picture!AbsNext
  <2>1. Picture!AbsPrintAt(p[1], p[2], t)
    BY <1>1, <1>2, <1>7, PutsAtIsPrintAt
  <2> QED BY <2>1 DEF Picture!AbsNext
<1>8. ASSUME NEW b \in Blocks, NEW p \in Places, PrintAt(p[1], p[2], FlattenSeq(b))
      PROVE  Picture!AbsNext
  <2>1. IsBlock(b)
    BY ScreenAssumption
  <2>2. Picture!AbsPrintLinesAt(p[1], p[2], b)
    BY <1>2, <1>8, <2>1, PrintAtIsPrintLines
  <2> QED BY <2>2 DEF Picture!AbsNext
<1>9. ASSUME NEW lines \in 0..Y_SIZE, Scroll(lines) PROVE Picture!AbsNext
  BY <1>9, ScrollIsScroll DEF Picture!AbsNext
<1>10. CASE ClearScroll /\ screen = Home(screen)
  BY <1>10, ClearScrollIsClearPage DEF Picture!AbsNext
<1>11. CASE ClearScreen
  BY <1>11, ClearScreenIsClear DEF Picture!AbsNext
<1> QED BY <1>4, <1>5, <1>6, <1>7, <1>8, <1>9, <1>10, <1>11 DEF ScreenNext

LEMMA PinwheelIsPrintAt ==
  ASSUME ScreenInv, NEW c, Pinwheel(c)
  PROVE  Picture!AbsPrintAt(X_SIZE - 1, 0, <<c>>)
<1>1. PutsAt(X_SIZE - 1, 0, <<c>>)
  BY DEF Pinwheel
<1>2. <<c>> \in Seq({c})
  OBVIOUS
<1>3. X_SIZE - 1 \in Nat /\ 0 \in Int
  BY ScreenSize DEF max_x
<1> QED BY <1>1, <1>2, <1>3, PutsAtIsPrintAt DEF IsText

LEMMA TerminalIsPicture ==
  ASSUME TerminalInv, [TerminalNext]_terminalVars, ClearsAtHome
  PROVE  [Picture!AbsNext]_(Picture!absVars)
<1> USE DEF TerminalInv
<1>1. ASSUME UNCHANGED <<scroll, screen>> PROVE UNCHANGED Picture!absVars
  BY <1>1 DEF Picture!absVars
<1>2. CASE SetUp
  <2>1. ASSUME NEW f \in Formats, Puts(Field(f)) PROVE Picture!AbsNext
    <3>1. Picture!AbsPrint(Field(f))
      BY <2>1, FieldIsText, PutsIsPrint
    <3> QED BY <3>1 DEF Picture!AbsNext
  <2> QED BY <1>2, <2>1, ScreenIsPicture DEF SetUp
<1>3. CASE AskForKey
  BY <1>1, <1>3 DEF AskForKey
<1>4. ASSUME FirstKey \/ (\E count \in 0..C_BUFSIZE : Read(count)), Puts(Echo(got'))
      PROVE  Picture!AbsNext
  <2>1. got' \in Seq(Chars) /\ Len(got') \in 0..(C_BUFSIZE - 1)
    BY <1>4, ReadIsShort
  <2>2. /\ IsText(Echo(got'))
        /\ Echo(got') \in UNION {[1..n -> {Solid, "\n", "\r"}] : n \in 0..(C_BUFSIZE - 1)}
    BY <2>1, EchoIsKnown
  <2>3. Picture!AbsPrint(Echo(got'))
    BY <1>4, <2>2, PutsIsPrint
  <2> QED BY <2>2, <2>3 DEF Picture!AbsNext
<1>5. CASE GetFirstKey
  BY <1>4, <1>5 DEF GetFirstKey
<1>6. ASSUME NEW code \in Codes, Wait(code) \/ Key(code) PROVE UNCHANGED Picture!absVars
  BY <1>1, <1>6 DEF Wait, Key
<1>7. ASSUME NEW count \in 0..C_BUFSIZE, ReadAndEcho(count) PROVE Picture!AbsNext
  BY <1>4, <1>7 DEF ReadAndEcho
<1>8. ASSUME NEW t \in Texts, KernelPrints(t) PROVE Picture!AbsNext
  <2>1. Puts(t) /\ IsText(t)
    BY <1>8, ScreenAssumption DEF KernelPrints, IsText
  <2>2. Picture!AbsPrint(t)
    BY <2>1, PutsIsPrint
  <2> QED BY <2>2 DEF Picture!AbsNext
<1>9. ASSUME NEW c \in {Solid, " "}, Pinwheel(c) PROVE Picture!AbsNext
  <2>1. Picture!AbsPrintAt(X_SIZE - 1, 0, <<c>>)
    BY <1>9, PinwheelIsPrintAt, Zenon
  <2>2. /\ <<c>> \in Labels \cup {<<Solid>>, <<" ">>}
        /\ <<X_SIZE - 1, 0>> \in Places \cup {<<X_SIZE - 1, 0>>, <<0, CONTEXT_Y>>}
    BY Zenon
  <2>3. <<X_SIZE - 1, 0>>[1] = X_SIZE - 1 /\ <<X_SIZE - 1, 0>>[2] = 0
    BY Zenon
  <2> QED BY <2>1, <2>2, <2>3, Zenon DEF Picture!AbsNext
<1>10. ASSUME NEW lines \in Contexts, RestoreContext(lines) PROVE Picture!AbsNext
  <2>1. PrintAt(0, CONTEXT_Y, FlattenSeq(lines)) /\ CONTEXT_Y \in Nat /\ IsBlock(lines)
    BY <1>10, TerminalAssumption DEF RestoreContext
  <2>2. Picture!AbsPrintLinesAt(0, CONTEXT_Y, lines)
    BY <2>1, PrintAtIsPrintLines
  <2>3. <<0, CONTEXT_Y>> \in Places \cup {<<X_SIZE - 1, 0>>, <<0, CONTEXT_Y>>}
        /\ lines \in Blocks \cup Contexts
    OBVIOUS
  <2>4. <<0, CONTEXT_Y>>[1] = 0 /\ <<0, CONTEXT_Y>>[2] = CONTEXT_Y
    OBVIOUS
  <2> QED BY <2>2, <2>3, <2>4 DEF Picture!AbsNext
<1>11. CASE UNCHANGED terminalVars
  BY <1>1, <1>11 DEF terminalVars
<1> QED
  BY <1>2, <1>3, <1>5, <1>6, <1>7, <1>8, <1>9, <1>10, <1>11 DEF TerminalNext

\* The screen is a page that is printed on and places around it.  The echo of what
\* is read goes on where the kernel's messages end, the page moves up by no line
\* more than what is printed needs, and neither touches what is beside the page,
\* where the clock interrupt draws and contexts are printed (c_io.h:60-76, 150-182,
\* c_io.c:655-661, clock.c:70-72, isr_stubs.S:178-181): for every size of the screen,
\* every region and every text, as long as c_clearscroll finds the cursor at home.
THEOREM ImplementsScreen ==
  ASSUME ClearsAtHome
  PROVE  TerminalSpec => ScreenRefines
<1>1. TerminalInit => TerminalInv /\ Picture!AbsInit
  BY TerminalStarts, PictureStarts DEF TerminalInit
<1>2. TerminalInv /\ [TerminalNext]_terminalVars => TerminalInv'
  BY TerminalStep
<1>3. TerminalInv /\ [TerminalNext]_terminalVars => [Picture!AbsNext]_(Picture!absVars)
  BY TerminalIsPicture
<1> QED BY <1>1, <1>2, <1>3, PTL DEF TerminalSpec, ScreenRefines, Picture!AbsSpec

=============================================================================
