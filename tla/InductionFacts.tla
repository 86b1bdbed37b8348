--------------------------- MODULE InductionFacts ---------------------------
(***************************************************************************)
(* What the proofs know of numbers, sequences and folds, whichever module  *)
(* they are about.  Induction is over sets of numbers: a set that holds 0  *)
(* and with each number the next one holds them all.                       *)
(***************************************************************************)
EXTENDS Integers, SequencesExt, SequenceTheorems, WellFoundedInduction, TLAPS

\* A set of natural numbers has a least one.
LEMMA LeastExists ==
  ASSUME NEW S, S \subseteq Nat, S # {}
  PROVE  \E x \in S : \A y \in S : x <= y
<1> DEFINE R == {p \in Nat \X Nat : p[1] < p[2]}
<1>1. IsWellFoundedOn(R, Nat)
  BY NatLessThanWellFounded DEF OpToRel
<1>2. PICK x \in S : \A y \in S : ~ (<<y, x>> \in R)
  BY <1>1, WFMin
<1>3. ASSUME NEW y \in S PROVE x <= y
  <2>1. x \in Nat /\ y \in Nat /\ <<y, x>> \in Nat \X Nat
    OBVIOUS
  <2>2. ~(y < x)
    BY <1>2, <2>1
  <2> QED BY <2>1, <2>2
<1> QED BY <1>3

\* Min is the least one.
LEMMA MinFacts ==
  ASSUME NEW S, S \subseteq Nat, S # {}
  PROVE  Min(S) \in S /\ \A y \in S : Min(S) <= y
BY LeastExists DEF Min

\* Of two numbers.
LEMMA MinMaxOfTwo ==
  ASSUME NEW a \in Int, NEW b \in Int
  PROVE  /\ Min({a, b}) = IF a <= b THEN a ELSE b
         /\ Max({a, b}) = IF a >= b THEN a ELSE b
<1>1. \A x \in {a, b} : (\A y \in {a, b} : x <= y) <=> x = (IF a <= b THEN a ELSE b)
  OBVIOUS
<1>2. \A x \in {a, b} : (\A y \in {a, b} : x >= y) <=> x = (IF a >= b THEN a ELSE b)
  OBVIOUS
<1>3. (IF a <= b THEN a ELSE b) \in {a, b} /\ (IF a >= b THEN a ELSE b) \in {a, b}
  OBVIOUS
<1>4. Min({a, b}) = CHOOSE x \in {a, b} : \A y \in {a, b} : x <= y
  BY DEF Min
<1>5. Max({a, b}) = CHOOSE x \in {a, b} : \A y \in {a, b} : x >= y
  BY DEF Max
<1> DEFINE m == IF a <= b THEN a ELSE b
           n == IF a >= b THEN a ELSE b
<1> HIDE DEF m, n
<1>6. Min({a, b}) = m
  BY <1>1, <1>3, <1>4 DEF m
<1>7. Max({a, b}) = n
  BY <1>2, <1>3, <1>5 DEF n
<1> QED BY <1>6, <1>7 DEF m, n

\* Induction: a set that 0 is in, and with each number the next one.
LEMMA NatSetInduction ==
  ASSUME NEW S, 0 \in S, \A n \in Nat : n \in S => n + 1 \in S
  PROVE  Nat \subseteq S
<1> DEFINE T == Nat \ S
<1> SUFFICES ASSUME T # {} PROVE FALSE
  OBVIOUS
<1>1. PICK x \in T : \A y \in T : x <= y
  BY LeastExists
<1>2. x \in Nat /\ x \notin S /\ x # 0 /\ x - 1 \in Nat /\ x = (x - 1) + 1
  OBVIOUS
<1>3. x - 1 \in S
  BY <1>1, <1>2
<1> QED BY <1>2, <1>3

\* Induction up to n.
LEMMA IntervalInduction ==
  ASSUME NEW n \in Nat, NEW S, 0 \in S,
         \A k \in 0..(n - 1) : k \in S => k + 1 \in S
  PROVE  0..n \subseteq S
<1> DEFINE T == S \cup {k \in Nat : k > n}
<1>1. ASSUME NEW k \in Nat, k \in T PROVE k + 1 \in T
  BY <1>1
<1>2. Nat \subseteq T
  <2> HIDE DEF T
  <2>1. 0 \in T
    BY DEF T
  <2> QED BY <1>1, <2>1, NatSetInduction
<1> QED BY <1>2

\* The greatest number of a set that goes up to n.
LEMMA MaxOfInterval ==
  ASSUME NEW n \in Nat, NEW T \in SUBSET (1..n), n \in T
  PROVE  Max(T) = n
<1>1. n \in T /\ \A y \in T : n >= y
  OBVIOUS
<1>2. \A x \in T : (\A y \in T : x >= y) => x = n
  BY <1>1
<1> QED BY <1>1, <1>2 DEF Max

\* The greatest number of a set of positions is one of them.
LEMMA MaxFacts ==
  ASSUME NEW n \in Nat, NEW T \in SUBSET (1..n), T # {}
  PROVE  Max(T) \in T /\ \A y \in T : y <= Max(T)
<1> DEFINE D == {d \in Nat : \E y \in T : d = n - y}
<1>1. D \subseteq Nat /\ \A y \in T : y \in Nat /\ n - y \in D
  OBVIOUS
<1>2. PICK d \in D : \A e \in D : d <= e
  BY <1>1, LeastExists
<1>3. PICK x \in T : d = n - x
  OBVIOUS
<1>4. \A y \in T : x >= y
  BY <1>1, <1>2, <1>3
<1> QED BY <1>4 DEF Max

-----------------------------------------------------------------------------
(* Sequences.                                                              *)

\* A function on an interval from 1 is a sequence.
LEMMA FunctionIsSeq ==
  ASSUME NEW S, NEW n \in Nat, NEW f \in [1..n -> S]
  PROVE  f \in Seq(S) /\ Len(f) = n
OBVIOUS

\* Two elements, one behind the other.
LEMMA PairIsAppend ==
  ASSUME NEW S, NEW a \in S, NEW b \in S
  PROVE  <<a>> \in Seq(S) /\ Append(<<a>>, b) = <<a, b>>
<1> DEFINE s == Append(<<a>>, b)
           t == <<a, b>>
<1>1. <<a>> \in Seq(S) /\ Len(<<a>>) = 1 /\ <<a>>[1] = a
  OBVIOUS
<1>2. s \in Seq(S) /\ Len(s) = 2 /\ s[1] = a /\ s[2] = b
  BY <1>1, AppendProperties
<1>3. t \in Seq(S) /\ Len(t) = 2 /\ t[1] = a /\ t[2] = b
  OBVIOUS
<1> HIDE DEF s, t
<1>4. \A i \in 1..2 : i = 1 \/ i = 2
  OBVIOUS
<1>5. s = t
  BY <1>2, <1>3, <1>4, SeqEqual
<1> QED BY <1>1, <1>5 DEF s, t

\* A sequence between two others, one element at a time.
LEMMA AppendBehind ==
  ASSUME NEW S, NEW s \in Seq(S), NEW t \in Seq(S), NEW e \in S
  PROVE  /\ s \o Append(t, e) = Append(s \o t, e)
         /\ s \o t \in Seq(S)
<1>1. <<e>> \in Seq(S) /\ s \o t \in Seq(S)
  BY ConcatProperties
<1>2. Append(t, e) = t \o <<e>> /\ Append(s \o t, e) = (s \o t) \o <<e>>
  BY <1>1, AppendIsConcat
<1>3. (s \o t) \o <<e>> = s \o (t \o <<e>>)
  BY <1>1, ConcatAssociative
<1> QED BY <1>1, <1>2, <1>3

\* The beginning of a sequence, one element at a time.
LEMMA SubSeqGrows ==
  ASSUME NEW S, NEW s \in Seq(S), NEW k \in 1..Len(s)
  PROVE  /\ SubSeq(s, 1, k) = Append(SubSeq(s, 1, k - 1), s[k])
         /\ SubSeq(s, 1, k - 1) \in Seq(S) /\ s[k] \in S
<1>1. Len(s) \in Nat /\ \A i \in 1..Len(s) : s[i] \in S
  BY LenProperties, ElementOfSeq
<1>2. SubSeq(s, 1, k - 1) \in Seq(S)
  <2>1. 1 \in Int /\ k - 1 \in Int /\ \A i \in 1..(k - 1) : s[i] \in S
    BY <1>1
  <2> QED BY <2>1, SubSeqProperties
<1>3. SubSeq(s, 1, k) = SubSeq(s, 1, k - 1) \o <<s[k]>>
  <2>1. 1 \in 1..Len(s) /\ k \in 1..Len(s)
    BY <1>1
  <2> QED BY <2>1, SubSeqRecursiveSecond
<1> QED BY <1>1, <1>2, <1>3, AppendIsConcat

\* An element between the first i of a sequence and the others.
IsInsertion(t, s, i, e) ==
  /\ Len(t) = Len(s) + 1
  /\ \A j \in 1..(Len(s) + 1) :
       t[j] = IF j <= i THEN s[j] ELSE IF j = i + 1 THEN e ELSE s[j - 1]

LEMMA InsertAtFacts ==
  ASSUME NEW S, NEW s \in Seq(S), NEW i \in 0..Len(s), NEW e \in S,
         NEW t, t = InsertAt(s, i + 1, e)
  PROVE  t \in Seq(S) /\ IsInsertion(t, s, i, e)
<1> DEFINE a == SubSeq(s, 1, i)
           m == <<e>>
           b == SubSeq(s, i + 1, Len(s))
<1>1. Len(s) \in Nat /\ \A j \in 1..Len(s) : s[j] \in S
  BY LenProperties, ElementOfSeq
<1>2. a \in Seq(S) /\ Len(a) = i /\ \A j \in 1..i : a[j] = s[j]
  <2>1. /\ a \in Seq(S) /\ Len(a) = (IF 1 <= i THEN i - 1 + 1 ELSE 0)
        /\ \A j \in 1..(i - 1 + 1) : a[j] = s[1 + j - 1]
    BY <1>1, SubSeqProperties
  <2> HIDE DEF a
  <2> QED BY <1>1, <2>1
<1>3. b \in Seq(S) /\ Len(b) = Len(s) - i /\ \A j \in 1..(Len(s) - i) : b[j] = s[i + j]
  <2>1. i + 1 \in Int /\ Len(s) \in Int /\ \A j \in (i + 1)..Len(s) : s[j] \in S
    BY <1>1
  <2>2. /\ b \in Seq(S) /\ Len(b) = (IF i + 1 <= Len(s) THEN Len(s) - (i + 1) + 1 ELSE 0)
        /\ \A j \in 1..(Len(s) - (i + 1) + 1) : b[j] = s[(i + 1) + j - 1]
    BY <2>1, SubSeqProperties
  <2> HIDE DEF b
  <2>3. Len(s) - (i + 1) + 1 = Len(s) - i /\ Len(b) = Len(s) - i
    BY <1>1, <2>2
  <2>4. ASSUME NEW j \in 1..(Len(s) - i) PROVE b[j] = s[i + j]
    <3>1. (i + 1) + j - 1 = i + j
      BY <1>1
    <3> QED BY <2>2, <2>3, <3>1
  <2> QED BY <2>2, <2>3, <2>4
<1>4. m \in Seq(S) /\ Len(m) = 1 /\ m[1] = e
  OBVIOUS
<1>5. t = (a \o m) \o b
  <2>1. (i + 1) - 1 = i
    BY <1>1
  <2> QED BY <2>1 DEF InsertAt
<1> HIDE DEF a, b, m
<1> DEFINE c == a \o m
<1>6. /\ c \in Seq(S) /\ Len(c) = i + 1
      /\ \A j \in 1..(i + 1) : c[j] = IF j <= i THEN a[j] ELSE m[j - i]
  <2>1. /\ c \in Seq(S) /\ Len(c) = Len(a) + Len(m)
        /\ \A j \in 1..(Len(a) + Len(m)) : c[j] = IF j <= Len(a) THEN a[j] ELSE m[j - Len(a)]
    BY <1>2, <1>4, ConcatProperties
  <2> HIDE DEF c
  <2> QED BY <1>2, <1>4, <2>1
<1> HIDE DEF c
<1>7. /\ t \in Seq(S) /\ Len(t) = (i + 1) + (Len(s) - i)
      /\ \A j \in 1..((i + 1) + (Len(s) - i)) : t[j] = IF j <= i + 1 THEN c[j] ELSE b[j - (i + 1)]
  <2>1. t = c \o b
    BY <1>5 DEF c
  <2> DEFINE u == c \o b
  <2>2. /\ u \in Seq(S) /\ Len(u) = Len(c) + Len(b)
        /\ \A j \in 1..(Len(c) + Len(b)) : u[j] = IF j <= Len(c) THEN c[j] ELSE b[j - Len(c)]
    BY <1>3, <1>6, ConcatProperties
  <2>3. t = u
    BY <2>1
  <2> HIDE DEF u
  <2> QED BY <1>3, <1>6, <2>2, <2>3
<1>8. (i + 1) + (Len(s) - i) = Len(s) + 1
  BY <1>1
<1>9. ASSUME NEW j \in 1..(Len(s) + 1)
      PROVE  t[j] = IF j <= i THEN s[j] ELSE IF j = i + 1 THEN e ELSE s[j - 1]
  <2>1. CASE j <= i
    <3>1. j <= i + 1 /\ j \in 1..(i + 1) /\ j \in 1..i
      BY <1>1, <2>1
    <3> QED BY <1>2, <1>6, <1>7, <1>8, <2>1, <3>1
  <2>2. CASE j = i + 1
    <3>1. j <= i + 1 /\ j \in 1..(i + 1) /\ ~(j <= i) /\ j - i = 1
      BY <1>1, <2>2
    <3> QED BY <1>4, <1>6, <1>7, <1>8, <2>2, <3>1
  <2>3. CASE ~(j <= i + 1)
    <3>1. j - (i + 1) \in 1..(Len(s) - i) /\ i + (j - (i + 1)) = j - 1 /\ ~(j <= i) /\ j # i + 1
      BY <1>1, <2>3
    <3> QED BY <1>3, <1>7, <1>8, <2>3, <3>1
  <2> QED BY <1>1, <2>1, <2>2, <2>3
<1> QED BY <1>7, <1>8, <1>9 DEF IsInsertion

\* FlattenSeq, unfolded: f[k] holds the first k sequences, one behind the other.
LEMMA FlattenUnfolds ==
  ASSUME NEW S, NEW t \in Seq(Seq(S))
  PROVE  \E f \in [0..Len(t) -> Seq(S)] :
           /\ f[0] = <<>>
           /\ \A k \in 1..Len(t) : f[k] = f[k - 1] \o t[k]
           /\ FlattenSeq(t) = f[Len(t)]
<1> DEFINE n == Len(t)
           Step(f, k) == IF k = 1 THEN t[1] ELSE f[k - 1] \o t[k]
           Flat(f, m) == \A k \in 1..m : f[k] = Step(f, k)
           R == {m \in 0..n : \E f \in [1..m -> Seq(S)] : Flat(f, m)}
<1>1. n \in Nat /\ \A k \in 1..n : t[k] \in Seq(S)
  BY LenProperties, ElementOfSeq
<1>2. n \in R
  <2>1. 0 \in R
    <3>1. Flat(<<>>, 0) /\ <<>> \in [1..0 -> Seq(S)] /\ 0 \in 0..n
      BY <1>1
    <3> HIDE DEF Flat
    <3> QED BY <3>1
  <2>2. ASSUME NEW m \in 0..(n - 1), m \in R PROVE m + 1 \in R
    <3>1. PICK f \in [1..m -> Seq(S)] : Flat(f, m)
      BY <2>2
    <3>2. m + 1 \in 1..n /\ m + 1 \in 0..n /\ m \in Nat
      BY <1>1
    <3> DEFINE g == [k \in 1..(m + 1) |-> IF k = m + 1 THEN Step(f, k) ELSE f[k]]
    <3>3. ASSUME NEW k \in 1..(m + 1) PROVE g[k] \in Seq(S) /\ g[k] = Step(g, k)
      <4>1. CASE k = m + 1
        <5>1. CASE m = 0
          BY <1>1, <3>2, <4>1, <5>1
        <5>2. CASE m # 0
          <6>1. k # 1 /\ k - 1 \in 1..m /\ k - 1 # m + 1 /\ k - 1 \in 1..(m + 1)
            BY <3>2, <4>1, <5>2
          <6>2. g[k - 1] = f[k - 1] /\ f[k - 1] \in Seq(S) /\ t[k] \in Seq(S)
            BY <1>1, <3>2, <4>1, <6>1
          <6>3. f[k - 1] \o t[k] \in Seq(S)
            BY <6>2, ConcatProperties
          <6> QED BY <4>1, <6>1, <6>2, <6>3
        <5> QED BY <5>1, <5>2
      <4>2. CASE k # m + 1
        <5>1. k \in 1..m /\ (k # 1 => k - 1 \in 1..(m + 1) /\ k - 1 # m + 1)
          BY <3>2, <4>2
        <5>2. g[k] = f[k] /\ f[k] \in Seq(S) /\ f[k] = Step(f, k)
          BY <3>1, <4>2, <5>1
        <5>3. k # 1 => g[k - 1] = f[k - 1]
          BY <5>1
        <5> QED BY <5>2, <5>3
      <4> QED BY <4>1, <4>2
    <3>4. g \in [1..(m + 1) -> Seq(S)] /\ Flat(g, m + 1)
      BY <3>3
    <3> HIDE DEF g, Flat
    <3> QED BY <3>2, <3>4
  <2>3. n \in 0..n
    BY <1>1
  <2> HIDE DEF R, n
  <2>4. 0..n \subseteq R
    BY <1>1, <2>1, <2>2, IntervalInduction
  <2> QED BY <2>3, <2>4
<1> DEFINE F == CHOOSE f : f = [k \in 1..n |-> IF k = 1 THEN t[k] ELSE f[k - 1] \o t[k]]
           f == [k \in 0..n |-> IF k = 0 THEN <<>> ELSE F[k]]
<1>3. F = [k \in 1..n |-> Step(F, k)]
  <2>1. PICK g \in [1..n -> Seq(S)] : Flat(g, n)
    BY <1>2
  <2>2. g = [k \in 1..n |-> IF k = 1 THEN t[k] ELSE g[k - 1] \o t[k]]
    BY <2>1
  <2>3. F = [k \in 1..n |-> IF k = 1 THEN t[k] ELSE F[k - 1] \o t[k]]
    BY <2>2
  <2> HIDE DEF F
  <2> QED BY <2>3
<1>4. n # 0 => FlattenSeq(t) = F[n]
  BY DEF FlattenSeq
<1>5. n = 0 => FlattenSeq(t) = <<>>
  BY EmptySeq DEF FlattenSeq
<1> HIDE DEF F, n
<1>6. ASSUME NEW k \in 1..n PROVE f[k] = f[k - 1] \o t[k]
  <2>1. k \in 0..n /\ k - 1 \in 0..n /\ k # 0 /\ 1 \in 1..n
    BY <1>1
  <2>2. CASE k = 1
    <3>1. f[k] = t[1] /\ f[k - 1] = <<>> /\ t[1] \in Seq(S)
      BY <1>1, <1>3, <2>1, <2>2
    <3>2. <<>> \o t[1] = t[1]
      BY <3>1, ConcatEmptySeq
    <3> QED BY <2>2, <3>1, <3>2
  <2>3. CASE k # 1
    <3>1. k - 1 # 0 /\ f[k] = F[k] /\ f[k - 1] = F[k - 1]
      BY <2>1, <2>3
    <3> QED BY <1>3, <2>3, <3>1
  <2> QED BY <2>2, <2>3
<1>7. ASSUME NEW k \in 0..n PROVE f[k] \in Seq(S)
  <2> DEFINE Q == {i \in 0..n : f[i] \in Seq(S)}
  <2>1. 0 \in Q
    BY <1>1, EmptySeq
  <2>2. ASSUME NEW i \in 0..(n - 1), i \in Q PROVE i + 1 \in Q
    <3>1. i + 1 \in 1..n /\ i + 1 \in 0..n /\ (i + 1) - 1 = i
      BY <1>1
    <3> HIDE DEF f
    <3>2. f[i + 1] = f[i] \o t[i + 1] /\ f[i] \in Seq(S) /\ t[i + 1] \in Seq(S)
      BY <1>1, <1>6, <2>2, <3>1
    <3>3. f[i + 1] \in Seq(S)
      BY <3>2, ConcatProperties
    <3> QED BY <3>1, <3>3
  <2> HIDE DEF Q
  <2>3. 0..n \subseteq Q
    BY <1>1, <2>1, <2>2, IntervalInduction
  <2> QED BY <2>3 DEF Q
<1>8. f[0] = <<>> /\ f[n] = FlattenSeq(t) /\ f \in [0..n -> Seq(S)]
  <2>1. 0 \in 0..n /\ n \in 0..n
    BY <1>1
  <2> QED BY <1>4, <1>5, <1>7, <2>1
<1> HIDE DEF f
<1> QED BY <1>6, <1>8 DEF n

-----------------------------------------------------------------------------
(* Folds.                                                                  *)

\* F is what MapThenFoldSet defines by recursion over the sets of positions in
\* s, n of them, for a step that is given as a function G.
IsFold(F, G, a, s, n) ==
  \A T \in SUBSET (1..n) :
    F[T] = IF T = {} THEN a ELSE G[<<F[T \ {Max(T)}], s[Max(T)]>>]

\* There is such a function.
LEMMA FoldExists ==
  ASSUME NEW A, NEW B, NEW G \in [A \X B -> A], NEW a \in A,
         NEW n \in Nat, NEW s \in [1..n -> B]
  PROVE  \E F \in [SUBSET (1..n) -> A] : IsFold(F, G, a, s, n)
<1> DEFINE Step(f, T) == IF T = {} THEN a ELSE G[<<f[T \ {Max(T)}], s[Max(T)]>>]
           Folds(f, m) == \A T \in SUBSET (1..m) : f[T] = Step(f, T)
           S == {m \in 0..n : \E f \in [SUBSET (1..m) -> A] : Folds(f, m)}
<1>1. 0 \in S
  <2> DEFINE f == [T \in SUBSET (1..0) |-> a]
  <2>1. \A T \in SUBSET (1..0) : T = {}
    OBVIOUS
  <2>2. Folds(f, 0) /\ f \in [SUBSET (1..0) -> A]
    BY <2>1
  <2>3. \E g \in [SUBSET (1..0) -> A] : Folds(g, 0)
    BY <2>2
  <2>4. 0 \in 0..n
    OBVIOUS
  <2> HIDE DEF Folds
  <2> QED BY <2>3, <2>4
<1>2. ASSUME NEW m \in 0..(n - 1), m \in S PROVE m + 1 \in S
  <2>1. PICK f \in [SUBSET (1..m) -> A] : Folds(f, m)
    BY <1>2
  <2> DEFINE g == [T \in SUBSET (1..(m + 1)) |->
                     IF m + 1 \in T THEN G[<<f[T \ {m + 1}], s[m + 1]>>] ELSE f[T]]
  <2>2. ASSUME NEW T \in SUBSET (1..(m + 1)) PROVE g[T] = Step(g, T) /\ g[T] \in A
    <3>1. CASE m + 1 \in T
      <4>1. Max(T) = m + 1 /\ T # {}
        BY <3>1, MaxOfInterval
      <4>2. T \ {m + 1} \in SUBSET (1..m) /\ T \ {m + 1} \in SUBSET (1..(m + 1))
        OBVIOUS
      <4>3. g[T \ {m + 1}] = f[T \ {m + 1}] /\ f[T \ {m + 1}] \in A /\ s[m + 1] \in B
        BY <4>2
      <4> QED BY <3>1, <4>1, <4>3
    <3>2. CASE m + 1 \notin T
      <4>1. T \in SUBSET (1..m) /\ f[T] \in A
        BY <3>2
      <4>2. f[T] = Step(f, T)
        BY <2>1, <4>1
      <4>3. CASE T = {}
        BY <3>2, <4>1, <4>2, <4>3
      <4>4. CASE T # {}
        <5> DEFINE U == T \ {Max(T)}
        <5>1. U \in SUBSET (1..(m + 1)) /\ m + 1 \notin U
          BY <3>2
        <5>2. g[U] = f[U] /\ g[T] = f[T]
          BY <3>2, <5>1
        <5> QED BY <5>2, <4>1, <4>2, <4>4
      <4> QED BY <4>3, <4>4
    <3> QED BY <3>1, <3>2
  <2> HIDE DEF Step
  <2>3. Folds(g, m + 1) /\ g \in [SUBSET (1..(m + 1)) -> A]
    BY <2>2
  <2>4. \E h \in [SUBSET (1..(m + 1)) -> A] : Folds(h, m + 1)
    BY <2>3
  <2>5. m + 1 \in 0..n
    OBVIOUS
  <2> HIDE DEF Folds
  <2> QED BY <2>4, <2>5
<1>3. n \in S
  <2>1. n \in 0..n
    OBVIOUS
  <2> HIDE DEF S
  <2>2. 0..n \subseteq S
    BY <1>1, <1>2, IntervalInduction
  <2> QED BY <2>1, <2>2
<1> QED BY <1>3 DEF IsFold

\* The values that a fold takes one after the other.
IsFoldChain(h, G, a, s, n) ==
  /\ h[0] = a
  /\ \A k \in 1..n : h[k] = G[<<h[k - 1], s[k]>>]

\* F is such a fold wherever its values are in A.
IsFoldIn(A, F, G, a, s, n) ==
  /\ F[{}] = a
  /\ \A T \in SUBSET (1..n) : T # {} /\ F[T \ {Max(T)}] \in A =>
       F[T] = G[<<F[T \ {Max(T)}], s[Max(T)]>>]

\* v is the last value of such a chain.
IsFoldEnd(A, v, G, a, s, n) ==
  \E h \in [0..n -> A] : IsFoldChain(h, G, a, s, n) /\ v = h[n]

\* It takes the values of a chain on the intervals from 1.
LEMMA FoldChain ==
  ASSUME NEW A, NEW B, NEW G \in [A \X B -> A], NEW a \in A,
         NEW n \in Nat, NEW s \in [1..n -> B],
         NEW F, IsFoldIn(A, F, G, a, s, n)
  PROVE  IsFoldEnd(A, F[1..n], G, a, s, n)
<1> DEFINE h == [k \in 0..n |-> F[1..k]]
           S == {k \in 0..n : F[1..k] \in A}
<1>1. ASSUME NEW k \in 1..n, k - 1 \in S
      PROVE  F[1..k] = G[<<F[1..(k - 1)], s[k]>>] /\ F[1..k] \in A
  <2>1. 1..k \in SUBSET (1..n) /\ k \in 1..k /\ k \in Nat /\ k - 1 \in 0..n
    OBVIOUS
  <2>2. (1..k) \ {k} = 1..(k - 1)
    BY <2>1
  <2>3. Max(1..k) = k
    BY <2>1, MaxOfInterval
  <2>4. F[1..(k - 1)] \in A
    BY <1>1
  <2>5. (1..k) \ {Max(1..k)} = 1..(k - 1) /\ 1..k # {}
    BY <2>1, <2>2, <2>3
  <2> HIDE DEF S
  <2>6. F[1..k] = G[<<F[1..(k - 1)], s[k]>>]
    BY <2>1, <2>3, <2>4, <2>5 DEF IsFoldIn
  <2>7. s[k] \in B
    OBVIOUS
  <2> QED BY <2>4, <2>6, <2>7
<1>2. 0 \in S
  <2>1. 1..0 = {} /\ 0 \in 0..n
    OBVIOUS
  <2> QED BY <2>1 DEF IsFoldIn
<1>3. ASSUME NEW k \in 0..(n - 1), k \in S PROVE k + 1 \in S
  <2>1. k + 1 \in 1..n /\ (k + 1) - 1 = k /\ k + 1 \in 0..n
    OBVIOUS
  <2> QED BY <1>1, <1>3, <2>1
<1> HIDE DEF S
<1>4. 0..n \subseteq S
  BY <1>2, <1>3, IntervalInduction
<1>5. h \in [0..n -> A] /\ F[1..n] = h[n]
  BY <1>4 DEF S
<1>6. h[0] = a
  <2>1. 1..0 = {} /\ 0 \in 0..n
    OBVIOUS
  <2> QED BY <2>1 DEF IsFoldIn
<1>7. ASSUME NEW k \in 1..n PROVE h[k] = G[<<h[k - 1], s[k]>>]
  <2>1. k \in 0..n /\ k - 1 \in 0..n
    OBVIOUS
  <2> QED BY <1>1, <1>4, <2>1
<1> HIDE DEF h
<1> QED BY <1>5, <1>6, <1>7 DEF IsFoldChain, IsFoldEnd

\* h is what a step that is given as a function G makes of a, up to n times.
IsIteration(h, G, a, n) == h[0] = a /\ \A k \in 1..n : h[k] = G[h[k - 1]]

LEMMA IterationExists ==
  ASSUME NEW A, NEW G \in [A -> A], NEW a \in A, NEW n \in Nat
  PROVE  \E h \in [0..n -> A] : IsIteration(h, G, a, n)
<1> DEFINE H == [q \in A \X Nat |-> G[q[1]]]
           s == [k \in 1..n |-> k]
<1>1. H \in [A \X Nat -> A] /\ s \in [1..n -> Nat]
  OBVIOUS
<1>2. PICK F \in [SUBSET (1..n) -> A] : IsFold(F, H, a, s, n)
  <2> HIDE DEF H, s
  <2> QED BY <1>1, FoldExists
<1>3. IsFoldIn(A, F, H, a, s, n)
  <2>1. {} \in SUBSET (1..n)
    OBVIOUS
  <2> HIDE DEF H, s
  <2> QED BY <1>2, <2>1 DEF IsFold, IsFoldIn
<1>4. PICK h \in [0..n -> A] : IsFoldChain(h, H, a, s, n)
  <2>1. IsFoldEnd(A, F[1..n], H, a, s, n)
    <3> HIDE DEF H, s
    <3> QED BY <1>1, <1>3, FoldChain
  <2> QED BY <2>1 DEF IsFoldEnd
<1>5. ASSUME NEW k \in 1..n PROVE h[k] = G[h[k - 1]]
  <2>1. k - 1 \in 0..n /\ s[k] \in Nat
    BY <1>1
  <2>2. h[k] = H[<<h[k - 1], s[k]>>]
    <3> HIDE DEF H, s
    <3> QED BY <1>4 DEF IsFoldChain
  <2>3. H[<<h[k - 1], s[k]>>] = G[h[k - 1]]
    <3> HIDE DEF s
    <3> QED BY <2>1
  <2> HIDE DEF H, s
  <2> QED BY <2>2, <2>3
<1>6. h[0] = a
  BY <1>4 DEF IsFoldChain
<1> QED BY <1>5, <1>6 DEF IsIteration

=============================================================================
