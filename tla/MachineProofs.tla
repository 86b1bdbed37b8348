---------------------------- MODULE MachineProofs ----------------------------
(***************************************************************************)
(* What the bootstrap loads is what was built into the image, at the       *)
(* addresses that were given, for every number and size of programs, every *)
(* drive and every size of sectors, segments and memory.  The shell, then, *)
(* cuts lines into words as ShellAbs says, whatever the lines, the number  *)
(* of characters that a read returns, and the order in which lines are     *)
(* typed and read.  Both hold of each part and of the whole machine.       *)
(***************************************************************************)
EXTENDS Machine, FileSystemProofs

Words == 0..(WORD - 1)
Record == [count : Nat, segment : Words, offset : Words]
Registers ==
  [entry : Nat, left : Nat, es : Words, bx : Words, sec : Nat, head : Nat, track : Nat,
   tries : Int]

\* Where the program of an entry of the table begins.
Base(i) == PARAGRAPH * info[i].segment + info[i].offset

\* The table is that of the programs, and they fit into the memory.
IsEntryOf(r, a) ==
  /\ a.form = "flat" /\ Fits(a)
  /\ r.count = a.sectors /\ r.segment = Segment(a) /\ r.offset = Offset(a)
BuildInv ==
  /\ programs \in Seq(Arguments) /\ info \in Seq(Record) /\ Len(info) = Len(programs)
  /\ \A i \in DOMAIN info : IsEntryOf(info[i], programs[i])

-----------------------------------------------------------------------------
(* Addresses.                                                              *)

\* What the proofs use of the constants.
LEMMA BootSizes ==
  /\ WORD \in Nat /\ WORD > 0 /\ N_BYTE \in Nat /\ N_BYTE > 0
  /\ PARAGRAPH \in Nat /\ PARAGRAPH > 0 /\ SECTOR_SIZE \in Nat /\ SECTOR_SIZE > 0
  /\ TARGET_ADDRESS \in Nat /\ START_OFFSET \in Words /\ 0 \in Words
  /\ MEMORY_END \in Nat /\ RETRIES \in Nat
  /\ BSS \in Nat /\ N_INFO \in Nat /\ FREE_WORDS \in Nat
  /\ WORD % SECTOR_SIZE = 0 /\ WORD % PARAGRAPH = 0
  /\ MEMORY_END <= PARAGRAPH * WORD
  /\ \A x \in Words : x \in Nat /\ x < WORD
  /\ \A x \in Nat : x < WORD => x \in Words
BY BootAssumption DEF Words

\* A number as a multiple of n and a rest.
LEMMA DivisionFacts ==
  ASSUME NEW n \in Nat, n > 0
  PROVE  /\ \A x \in Int : x % n \in 0..(n - 1)
         /\ \A x \in Nat : x < n => x % n = x
         /\ \A x \in Nat : x \div n \in Nat /\ x = n * (x \div n) + (x % n)
  OBVIOUS

\* The next multiple of n is n further.
LEMMA MultipleFacts ==
  ASSUME NEW n \in Nat, n > 0
  PROVE  /\ \A x \in Nat : x % n = 0 => (x + n) % n = 0
         /\ \A x, y \in Nat : x % n = 0 /\ y % n = 0 /\ x < y => x + n <= y
<1>1. ASSUME NEW x \in Nat, x % n = 0 PROVE (x + n) % n = 0
  <2> DEFINE a == x \div n
  <2>1. a \in Nat /\ x = n * a
    BY <1>1, DivisionFacts
  <2> HIDE DEF a
  <2>2. x + n = n * (a + 1)
    BY <2>1
  <2> QED BY <2>1, <2>2
<1>2. ASSUME NEW x \in Nat, NEW y \in Nat, x % n = 0, y % n = 0, x < y PROVE x + n <= y
  <2> DEFINE a == x \div n
             b == y \div n
  <2>1. a \in Nat /\ x = n * a /\ b \in Nat /\ y = n * b
    BY <1>2, DivisionFacts
  <2> HIDE DEF a, b
  <2>2. a < b
    <3>1. \A p, q \in Nat : q <= p => n * q <= n * p
      OBVIOUS
    <3> QED BY <1>2, <2>1, <3>1
  <2>3. n * (a + 1) <= n * b
    <3>1. \A p, q \in Nat : q <= p => n * q <= n * p
      OBVIOUS
    <3> QED BY <2>1, <2>2, <3>1
  <2>4. n * (a + 1) = n * a + n
    BY <2>1
  <2> QED BY <2>1, <2>3, <2>4
<1> QED BY <1>1, <1>2

\* The next place is a sector further in memory, as long as no sector crosses the
\* end of its segment but those that begin at the offset limit.
LEMMA NextOffset ==
  ASSUME NEW bx \in Words, NEW left \in Nat, left > 0, bx # OFFSET_LIMIT,
         bx % SECTOR_SIZE = 0 \/ bx + left * SECTOR_SIZE <= WORD
  PROVE  LET b == (bx + SECTOR_SIZE) % WORD
         IN /\ b = bx + SECTOR_SIZE
            /\ b % SECTOR_SIZE = 0 \/ b + (left - 1) * SECTOR_SIZE <= WORD
<1>1. /\ bx \in Nat /\ bx < WORD /\ WORD \in Nat /\ SECTOR_SIZE \in Nat /\ SECTOR_SIZE > 0
      /\ bx # WORD - SECTOR_SIZE /\ WORD % SECTOR_SIZE = 0 /\ WORD > 0
  BY BootSizes DEF OFFSET_LIMIT
<1>2. left * SECTOR_SIZE = (left - 1) * SECTOR_SIZE + SECTOR_SIZE
      /\ (left - 1) * SECTOR_SIZE \in Nat
  BY <1>1
<1> DEFINE m == (left - 1) * SECTOR_SIZE
<1> HIDE DEF m
<1>3. left * SECTOR_SIZE = m + SECTOR_SIZE /\ m \in Nat
  BY <1>2 DEF m
<1>4. bx + SECTOR_SIZE < WORD
  <2>1. CASE bx % SECTOR_SIZE = 0
    <3>1. bx + SECTOR_SIZE <= WORD
      BY <1>1, <2>1, MultipleFacts
    <3> QED BY <1>1, <3>1
  <2>2. CASE bx + left * SECTOR_SIZE <= WORD
    BY <1>1, <1>3, <2>2
  <2> QED BY <2>1, <2>2
<1>5. (bx + SECTOR_SIZE) % WORD = bx + SECTOR_SIZE
  <2>1. bx + SECTOR_SIZE \in Nat
    BY <1>1
  <2> QED BY <1>1, <1>4, <2>1, DivisionFacts
<1>6. CASE bx % SECTOR_SIZE = 0
  <2>1. (bx + SECTOR_SIZE) % SECTOR_SIZE = 0
    BY <1>1, <1>6, MultipleFacts
  <2> QED BY <1>5, <2>1
<1>7. CASE bx + left * SECTOR_SIZE <= WORD
  <2>1. bx + SECTOR_SIZE + m <= WORD
    BY <1>1, <1>3, <1>7
  <2> QED BY <1>5, <2>1 DEF m
<1> QED BY <1>6, <1>7

LEMMA NextSegment ==
  ASSUME NEW es \in Words
  PROVE  LET e == (es + WORD \div PARAGRAPH) % WORD
         IN /\ e \in Words
            /\ PARAGRAPH * es + WORD < PARAGRAPH * WORD => PARAGRAPH * e = PARAGRAPH * es + WORD
<1> DEFINE w == WORD \div PARAGRAPH
<1>1. /\ WORD \in Nat /\ WORD > 0 /\ PARAGRAPH \in Nat /\ PARAGRAPH > 0 /\ es \in Nat
      /\ WORD % PARAGRAPH = 0
  BY BootSizes
<1>2. w \in Nat /\ WORD = PARAGRAPH * w
  <2>1. WORD = PARAGRAPH * w + (WORD % PARAGRAPH) /\ w \in Nat
    BY <1>1, DivisionFacts
  <2> HIDE DEF w
  <2>2. PARAGRAPH * w \in Nat
    BY <1>1, <2>1
  <2> QED BY <1>1, <2>1, <2>2
<1> HIDE DEF w
<1>3. (es + w) % WORD \in Words
  <2>1. es + w \in Int
    BY <1>1, <1>2
  <2> QED BY <1>1, <2>1, DivisionFacts DEF Words
<1>4. ASSUME PARAGRAPH * es + WORD < PARAGRAPH * WORD
      PROVE  PARAGRAPH * ((es + w) % WORD) = PARAGRAPH * es + WORD
  <2>1. PARAGRAPH * (es + w) = PARAGRAPH * es + PARAGRAPH * w /\ es + w \in Nat
    BY <1>1, <1>2
  <2>2. es + w < WORD
    <3>1. \A p, q \in Nat : q <= p => PARAGRAPH * q <= PARAGRAPH * p
      BY <1>1
    <3>2. WORD <= es + w => PARAGRAPH * WORD <= PARAGRAPH * (es + w)
      BY <1>1, <2>1, <3>1
    <3>3. PARAGRAPH * (es + w) = PARAGRAPH * es + WORD /\ PARAGRAPH * (es + w) \in Nat
          /\ PARAGRAPH * WORD \in Nat
      BY <1>1, <1>2, <2>1
    <3> QED BY <1>1, <1>4, <2>1, <3>2, <3>3
  <2>3. (es + w) % WORD = es + w
    BY <1>1, <2>1, <2>2, DivisionFacts
  <2> QED BY <1>2, <2>1, <2>3
<1> QED BY <1>3, <1>4 DEF w

LEMMA NextPlaceFacts ==
  ASSUME NEW p \in Registers, NEW q, q = NextPlace(p)
  PROVE  /\ q \in Registers /\ q.entry = p.entry /\ q.left = p.left
         /\ q.sec = p.sec /\ q.head = p.head /\ q.track = p.track
         /\ p.left > 0 /\ PARAGRAPH * p.es + p.bx + SECTOR_SIZE < PARAGRAPH * WORD
            /\ (p.bx % SECTOR_SIZE = 0 \/ p.bx + p.left * SECTOR_SIZE <= WORD)
            => /\ PARAGRAPH * q.es + q.bx = PARAGRAPH * p.es + p.bx + SECTOR_SIZE
               /\ q.bx % SECTOR_SIZE = 0 \/ q.bx + (p.left - 1) * SECTOR_SIZE <= WORD
<1>1. p.es \in Words /\ p.bx \in Words /\ p.left \in Nat
  BY DEF Registers
<1>2. CASE p.bx = OFFSET_LIMIT
  <2> DEFINE e == (p.es + WORD \div PARAGRAPH) % WORD
  <2>1. e \in Words /\ (PARAGRAPH * p.es + WORD < PARAGRAPH * WORD
                        => PARAGRAPH * e = PARAGRAPH * p.es + WORD)
    BY <1>1, NextSegment
  <2>2. q = [p EXCEPT !.bx = 0, !.es = e]
    BY <1>2 DEF NextPlace
  <2> HIDE DEF e
  <2>3. q \in Registers /\ q.es = e /\ q.bx = 0 /\ q.entry = p.entry /\ q.left = p.left
        /\ q.sec = p.sec /\ q.head = p.head /\ q.track = p.track
    BY <2>1, <2>2, BootSizes DEF Registers
  <2>4. p.bx + SECTOR_SIZE = WORD
    BY <1>2, BootSizes DEF OFFSET_LIMIT
  <2>5. PARAGRAPH * p.es \in Nat /\ p.bx \in Nat /\ PARAGRAPH * e \in Nat
    BY <1>1, <2>1, BootSizes
  <2>6. PARAGRAPH * p.es + p.bx + SECTOR_SIZE = PARAGRAPH * p.es + WORD
    BY <2>4, <2>5, BootSizes
  <2>7. 0 % SECTOR_SIZE = 0
    BY BootSizes, DivisionFacts
  <2> QED BY <2>1, <2>3, <2>5, <2>6, <2>7
<1>3. CASE p.bx # OFFSET_LIMIT
  <2> DEFINE b == (p.bx + SECTOR_SIZE) % WORD
  <2>1. b \in Words
    <3>1. p.bx + SECTOR_SIZE \in Int
      BY <1>1, BootSizes
    <3> QED BY <3>1, BootSizes, DivisionFacts DEF Words
  <2>2. q = [p EXCEPT !.bx = b]
    BY <1>3 DEF NextPlace
  <2>3. p.left > 0 /\ (p.bx % SECTOR_SIZE = 0 \/ p.bx + p.left * SECTOR_SIZE <= WORD)
        => /\ b = p.bx + SECTOR_SIZE
           /\ b % SECTOR_SIZE = 0 \/ b + (p.left - 1) * SECTOR_SIZE <= WORD
    BY <1>1, <1>3, NextOffset
  <2> HIDE DEF b
  <2>4. q \in Registers /\ q.es = p.es /\ q.bx = b /\ q.entry = p.entry /\ q.left = p.left
        /\ q.sec = p.sec /\ q.head = p.head /\ q.track = p.track
    BY <2>1, <2>2 DEF Registers
  <2>5. PARAGRAPH * p.es \in Nat /\ p.bx \in Nat
    BY <1>1, BootSizes
  <2> QED BY <2>3, <2>4, <2>5, BootSizes
<1> QED BY <1>2, <1>3

-----------------------------------------------------------------------------
(* The disk.                                                               *)

\* The number of a sector, by its place.
Number(p) == (p.track * drive.heads + p.head) * drive.sectors + p.sec
OnDrive(p) == p.sec \in 1..drive.sectors /\ p.head \in 0..(drive.heads - 1)

\* From each place the bootstrap goes to the next one, whatever the drive, and
\* also if the number of heads does not fit into a byte.
LEMMA NextSectorFacts ==
  ASSUME drive \in Drives, NEW p \in Registers, OnDrive(p),
         NEW q, q = NextSector(p)
  PROVE  /\ q \in Registers /\ OnDrive(q) /\ Number(q) = Number(p) + 1
         /\ q.entry = p.entry /\ q.left = p.left /\ q.es = p.es /\ q.bx = p.bx
<1> DEFINE S == drive.sectors
           H == drive.heads
           head == (p.head + 1) % N_BYTE
<1>1. /\ S \in Nat /\ S >= 2 /\ H \in 1..N_BYTE /\ N_BYTE \in Nat /\ N_BYTE > 0 /\ H \in Nat
      /\ p.sec \in Nat /\ p.head \in Nat /\ p.track \in Nat /\ p.sec <= S /\ p.head < H
      /\ p.sec >= 1
  BY BootAssumption DEF OnDrive, Registers
<1> HIDE DEF S, H
<1>2. /\ Number(p) = (p.track * H + p.head) * S + p.sec /\ max_sec = S + 1
      /\ max_head = H % N_BYTE
  BY DEF Number, max_sec, max_head, S, H
<1>3. /\ p.head + 1 < N_BYTE => head = p.head + 1
      /\ p.head + 1 = N_BYTE => head = 0
      /\ H < N_BYTE => max_head = H
      /\ H = N_BYTE => max_head = 0
  <2>1. N_BYTE % N_BYTE = 0
    BY <1>1
  <2>2. p.head + 1 \in Nat
    BY <1>1
  <2> QED BY <1>1, <1>2, <2>1, <2>2, DivisionFacts
<1> HIDE DEF head
<1>4. CASE p.sec + 1 # max_sec
  <2>1. q = [p EXCEPT !.sec = @ + 1]
    BY <1>4 DEF NextSector
  <2>2. /\ q \in Registers /\ q.sec = p.sec + 1 /\ q.head = p.head /\ q.track = p.track
        /\ q.entry = p.entry /\ q.left = p.left /\ q.es = p.es /\ q.bx = p.bx
    BY <1>1, <2>1 DEF Registers
  <2>3. p.sec + 1 \in 1..S
    <3>1. p.sec # S
      BY <1>2, <1>4
    <3> QED BY <1>1, <3>1
  <2>4. (p.track * H + p.head) * S \in Nat
    BY <1>1
  <2>5. Number(q) = Number(p) + 1
    <3>1. Number(q) = (p.track * H + p.head) * S + (p.sec + 1)
      BY <2>2 DEF Number, S, H
    <3> DEFINE n == (p.track * H + p.head) * S
    <3> HIDE DEF n
    <3>2. Number(q) = n + (p.sec + 1) /\ Number(p) = n + p.sec /\ n \in Nat
      BY <1>2, <2>4, <3>1 DEF n
    <3> QED BY <1>1, <3>2
  <2> QED BY <1>1, <2>2, <2>3, <2>5 DEF OnDrive, S, H
<1>5. CASE p.sec + 1 = max_sec /\ head # max_head
  <2>1. q = [p EXCEPT !.sec = 1, !.head = head]
    BY <1>5 DEF NextSector, head
  <2>2. p.sec = S /\ head = p.head + 1 /\ head < H /\ head \in Nat
    BY <1>1, <1>2, <1>3, <1>5
  <2>3. /\ q \in Registers /\ q.sec = 1 /\ q.head = p.head + 1 /\ q.track = p.track
        /\ q.entry = p.entry /\ q.left = p.left /\ q.es = p.es /\ q.bx = p.bx
    <3>3. q = [entry |-> p.entry, left |-> p.left, es |-> p.es, bx |-> p.bx, sec |-> 1,
               head |-> head, track |-> p.track, tries |-> p.tries]
      BY <2>1 DEF Registers
    <3>1. q \in Registers /\ q.head = head
      BY <2>2, <3>3 DEF Registers
    <3>2. /\ q.sec = 1 /\ q.track = p.track /\ q.entry = p.entry /\ q.left = p.left
          /\ q.es = p.es /\ q.bx = p.bx
      BY <2>1 DEF Registers
    <3> QED BY <2>2, <3>1, <3>2
  <2>4. Number(q) = Number(p) + 1
    <3> DEFINE m == p.track * H + p.head
    <3>1. Number(q) = (p.track * H + (p.head + 1)) * S + 1
      BY <2>3 DEF Number, S, H
    <3>2. p.track * H + (p.head + 1) = m + 1 /\ m \in Nat
      BY <1>1
    <3>3. Number(p) = m * S + S
      BY <1>2, <2>2
    <3> HIDE DEF m
    <3>4. (m + 1) * S = m * S + S
      BY <1>1, <3>2
    <3> QED BY <3>1, <3>2, <3>3, <3>4
  <2> QED BY <1>1, <2>2, <2>3, <2>4 DEF OnDrive, S, H
<1>6. CASE p.sec + 1 = max_sec /\ head = max_head
  <2>1. q = [p EXCEPT !.sec = 1, !.head = 0, !.track = @ + 1]
    BY <1>6 DEF NextSector, head
  <2>2. p.sec = S /\ p.head + 1 = H
    BY <1>1, <1>2, <1>3, <1>6
  <2>3. /\ q \in Registers /\ q.sec = 1 /\ q.head = 0 /\ q.track = p.track + 1
        /\ q.entry = p.entry /\ q.left = p.left /\ q.es = p.es /\ q.bx = p.bx
    <3>3. q = [entry |-> p.entry, left |-> p.left, es |-> p.es, bx |-> p.bx, sec |-> 1,
               head |-> 0, track |-> p.track + 1, tries |-> p.tries]
      BY <2>1 DEF Registers
    <3>1. q \in Registers
      BY <3>3 DEF Registers
    <3>2. /\ q.sec = 1 /\ q.head = 0 /\ q.track = p.track + 1 /\ q.entry = p.entry
          /\ q.left = p.left /\ q.es = p.es /\ q.bx = p.bx
      BY <2>1 DEF Registers
    <3> QED BY <3>1, <3>2
  <2>4. Number(q) = Number(p) + 1
    <3> DEFINE m == p.track * H + p.head
    <3>1. Number(q) = ((p.track + 1) * H + 0) * S + 1
      BY <2>3 DEF Number, S, H
    <3>2. (p.track + 1) * H + 0 = m + 1 /\ m \in Nat
      <4>1. (p.track + 1) * H = p.track * H + H /\ p.track * H \in Nat
        BY <1>1
      <4> DEFINE x == p.track * H
      <4> HIDE DEF x
      <4>2. (p.track + 1) * H = x + H /\ x \in Nat /\ m = x + p.head
        BY <4>1 DEF x
      <4> QED BY <1>1, <2>2, <4>2
    <3>3. Number(p) = m * S + S
      BY <1>2, <2>2
    <3> HIDE DEF m
    <3>4. (m + 1) * S = m * S + S
      BY <1>1, <3>2
    <3> QED BY <3>1, <3>2, <3>3, <3>4
  <2> QED BY <1>1, <2>2, <2>3, <2>4 DEF OnDrive, S, H
<1> QED BY <1>4, <1>5, <1>6

\* What a unit of memory or a sector may hold.
MemoryContents ==
  {c \in Nat \X Nat :
     \/ c \in {UNTOUCHED, SYSTEM}
     \/ \E i \in DOMAIN programs : \E k \in 1..programs[i].sectors : c = Sector(i, k)}

\* What the disk holds behind the bootstrap: the sectors of each program.
Body(i) == [k \in 1..programs[i].sectors |-> Sector(i, k)]
Parts == [i \in DOMAIN programs |-> Body(i)]

\* The first f[i] sectors of the disk end with the program i.
IsLayout(f) ==
  /\ f \in [0..Len(programs) -> Nat] /\ f[0] = BOOTSTRAP
  /\ \A i \in 1..Len(programs) : f[i] = f[i - 1] + programs[i].sectors
  /\ \A i \in 1..Len(programs) : \A k \in 1..programs[i].sectors :
       f[i - 1] + k \in DOMAIN Disk /\ Disk[f[i - 1] + k] = Sector(i, k)

\* The sequences g[m] hold the first m programs, one behind the other.
IsChain(g) ==
  /\ g \in [0..Len(programs) -> Seq(MemoryContents)] /\ g[0] = <<>>
  /\ \A m \in 1..Len(programs) : g[m] = g[m - 1] \o Body(m)

\* Where they are in it.
HasParts(s, g, m) ==
  \A i \in 1..m : \A k \in 1..programs[i].sectors :
    Len(g[i - 1]) + k \in 1..Len(s) /\ s[Len(g[i - 1]) + k] = Sector(i, k)

LEMMA SectorsFacts ==
  ASSUME BuildInv
  PROVE  /\ Len(programs) \in Nat /\ DOMAIN programs = 1..Len(programs)
         /\ DOMAIN info = 1..Len(programs)
         /\ \A i \in 1..Len(programs) :
              programs[i] \in Arguments /\ programs[i].sectors \in Nat
<1>1. programs \in Seq(Arguments) /\ info \in Seq(Record) /\ Len(info) = Len(programs)
  BY DEF BuildInv
<1>2. Len(programs) \in Nat /\ DOMAIN programs = 1..Len(programs) /\ DOMAIN info = 1..Len(info)
      /\ \A i \in 1..Len(programs) : programs[i] \in Arguments
  BY <1>1, LenProperties, ElementOfSeq
<1>3. \A a \in Arguments : a.sectors \in Nat
  BY BootAssumption
<1> QED BY <1>1, <1>2, <1>3

LEMMA BodyFacts ==
  ASSUME BuildInv, NEW i \in 1..Len(programs)
  PROVE  /\ Body(i) \in Seq(MemoryContents) /\ Len(Body(i)) = programs[i].sectors
         /\ \A k \in 1..programs[i].sectors : Body(i)[k] = Sector(i, k)
<1>1. programs[i].sectors \in Nat /\ i \in DOMAIN programs /\ i \in Nat
  BY SectorsFacts
<1>2. \A k \in 1..programs[i].sectors : Sector(i, k) \in MemoryContents
  <2> TAKE k \in 1..programs[i].sectors
  <2>1. Sector(i, k) \in Nat \X Nat
    BY <1>1 DEF Sector
  <2> QED BY <1>1, <2>1 DEF MemoryContents
<1>3. Body(i) \in [1..programs[i].sectors -> MemoryContents]
  BY <1>2 DEF Body
<1>4. \A k \in 1..programs[i].sectors : Body(i)[k] = Sector(i, k)
  BY DEF Body
<1> QED BY <1>1, <1>3, <1>4, FunctionIsSeq

\* r is the sequence a with b behind it.
IsConcat(r, a, b) ==
  /\ Len(r) = Len(a) + Len(b) /\ DOMAIN r = 1..(Len(a) + Len(b))
  /\ \A i \in 1..(Len(a) + Len(b)) : r[i] = IF i <= Len(a) THEN a[i] ELSE b[i - Len(a)]

LEMMA ConcatIs ==
  ASSUME NEW S, NEW a, a \in Seq(S), NEW b, b \in Seq(S), NEW r, r = a \o b
  PROVE  r \in Seq(S) /\ IsConcat(r, a, b)
<1>1. /\ r \in Seq(S) /\ Len(r) = Len(a) + Len(b)
      /\ \A i \in 1..(Len(a) + Len(b)) : r[i] = IF i <= Len(a) THEN a[i] ELSE b[i - Len(a)]
  BY ConcatProperties
<1>2. DOMAIN r = 1..Len(r)
  BY <1>1, LenProperties
<1> QED BY <1>1, <1>2 DEF IsConcat

LEMMA ChainExists ==
  ASSUME BuildInv
  PROVE  \E g : IsChain(g) /\ FlattenSeq(Parts) = g[Len(programs)]
<1>1. Len(programs) \in Nat /\ DOMAIN programs = 1..Len(programs)
  BY SectorsFacts
<1>2. Parts \in [1..Len(programs) -> Seq(MemoryContents)]
  BY <1>1, BodyFacts DEF Parts
<1>3. Parts \in Seq(Seq(MemoryContents)) /\ Len(Parts) = Len(programs)
  BY <1>1, <1>2, FunctionIsSeq
<1>4. PICK g \in [0..Len(Parts) -> Seq(MemoryContents)] :
        /\ g[0] = <<>>
        /\ \A k \in 1..Len(Parts) : g[k] = g[k - 1] \o Parts[k]
        /\ FlattenSeq(Parts) = g[Len(Parts)]
  BY <1>3, FlattenUnfolds
<1>5. \A k \in 1..Len(programs) : Parts[k] = Body(k)
  BY <1>1 DEF Parts
<1> HIDE DEF Parts
<1>6. \A k \in 1..Len(programs) : g[k] = g[k - 1] \o Body(k)
  BY <1>3, <1>4, <1>5
<1>7. g \in [0..Len(programs) -> Seq(MemoryContents)] /\ FlattenSeq(Parts) = g[Len(programs)]
  BY <1>3, <1>4
<1> QED BY <1>4, <1>6, <1>7 DEF IsChain

LEMMA ChainHasParts ==
  ASSUME BuildInv, NEW g, IsChain(g)
  PROVE  /\ HasParts(g[Len(programs)], g, Len(programs))
         /\ \A m \in 1..Len(programs) : Len(g[m]) = Len(g[m - 1]) + programs[m].sectors
<1> DEFINE n == Len(programs)
           R == {m \in 0..n : HasParts(g[m], g, m)}
<1>1. n \in Nat
  BY SectorsFacts
<1>2. ASSUME NEW m \in 1..n
      PROVE  /\ g[m - 1] \in Seq(MemoryContents) /\ Body(m) \in Seq(MemoryContents)
             /\ programs[m].sectors \in Nat
             /\ Len(Body(m)) = programs[m].sectors /\ g[m] = g[m - 1] \o Body(m)
             /\ Len(g[m]) = Len(g[m - 1]) + programs[m].sectors
  <2>1. m - 1 \in 0..n
    BY <1>1
  <2>2. g[m - 1] \in Seq(MemoryContents) /\ g[m] = g[m - 1] \o Body(m)
    BY <2>1 DEF IsChain
  <2>3. Body(m) \in Seq(MemoryContents) /\ Len(Body(m)) = programs[m].sectors
        /\ programs[m].sectors \in Nat
    BY BodyFacts, SectorsFacts
  <2>4. IsConcat(g[m], g[m - 1], Body(m))
    BY ONLY <2>2, <2>3, ConcatIs
  <2> QED BY <2>2, <2>3, <2>4 DEF IsConcat
<1>3. 0 \in R
  BY <1>1 DEF HasParts
<1>4. ASSUME NEW m \in 0..(n - 1), m \in R PROVE m + 1 \in R
  <2>1. m + 1 \in 1..n /\ (m + 1) - 1 = m /\ HasParts(g[m], g, m) /\ m + 1 \in 0..n
    BY <1>1, <1>4
  <2> DEFINE s == g[m]
             t == g[m + 1]
             c == programs[m + 1].sectors
  <2>2. /\ s \in Seq(MemoryContents) /\ t = s \o Body(m + 1) /\ Body(m + 1) \in Seq(MemoryContents)
        /\ Len(Body(m + 1)) = c /\ Len(t) = Len(s) + c /\ c \in Nat /\ Len(s) \in Nat
    BY <1>2, <2>1, LenProperties
  <2>3. \A i \in 1..(Len(s) + c) : t[i] = IF i <= Len(s) THEN s[i] ELSE Body(m + 1)[i - Len(s)]
    <3> HIDE DEF s, t
    <3>1. IsConcat(t, s, Body(m + 1))
      BY ONLY <2>2, ConcatIs
    <3> QED BY <2>2, <3>1 DEF IsConcat
  <2> HIDE DEF s, t
  <2>4. ASSUME NEW i \in 1..(m + 1), NEW k \in 1..programs[i].sectors
        PROVE  Len(g[i - 1]) + k \in 1..Len(t) /\ t[Len(g[i - 1]) + k] = Sector(i, k)
    <3>1. CASE i \in 1..m
      <4> DEFINE j == Len(g[i - 1]) + k
      <4>1. j \in 1..Len(s) /\ s[j] = Sector(i, k)
        BY <2>1, <3>1 DEF HasParts, s
      <4> HIDE DEF j
      <4>2. j \in 1..(Len(s) + c) /\ j <= Len(s)
        BY <2>2, <4>1
      <4>3. t[j] = s[j]
        BY <2>3, <4>2
      <4> QED BY <2>2, <4>1, <4>2, <4>3 DEF j
    <3>2. CASE i = m + 1
      <4>1. Len(g[i - 1]) = Len(s) /\ k \in 1..c
        BY <2>1, <3>2 DEF s
      <4>2. Body(m + 1)[k] = Sector(m + 1, k)
        BY <2>1, <4>1, BodyFacts
      <4>3. Len(s) + k \in 1..(Len(s) + c) /\ ~(Len(s) + k <= Len(s)) /\ Len(s) + k - Len(s) = k
        BY <2>2, <4>1
      <4>4. t[Len(s) + k] = Body(m + 1)[k]
        BY <2>3, <4>3
      <4> QED BY <2>2, <3>2, <4>1, <4>2, <4>3, <4>4
    <3> QED BY <2>1, <3>1, <3>2
  <2> QED BY <2>1, <2>4 DEF HasParts, t
<1>5. 0..n \subseteq R
  <2> HIDE DEF R, n
  <2> QED BY <1>1, <1>3, <1>4, IntervalInduction
<1>6. n \in R
  BY <1>1, <1>5
<1> QED BY <1>2, <1>6

\* What is on the disk, and where.
LEMMA LayoutExists ==
  ASSUME BuildInv
  PROVE  Disk \in Seq(MemoryContents) /\ \E f : IsLayout(f)
<1> DEFINE n == Len(programs)
           b == [i \in 1..BOOTSTRAP |-> SYSTEM]
<1>1. PICK g : IsChain(g) /\ FlattenSeq(Parts) = g[n]
  BY ChainExists
<1> DEFINE f == [i \in 0..n |-> BOOTSTRAP + Len(g[i])]
<1>2. n \in Nat /\ \A i \in 0..n : g[i] \in Seq(MemoryContents) /\ Len(g[i]) \in Nat
  BY <1>1, SectorsFacts, LenProperties DEF IsChain
<1>3. b \in Seq(MemoryContents) /\ Len(b) = BOOTSTRAP
  <2>1. SYSTEM \in MemoryContents
    BY DEF MemoryContents, SYSTEM
  <2>2. b \in [1..BOOTSTRAP -> MemoryContents] /\ BOOTSTRAP \in Nat
    BY <2>1 DEF BOOTSTRAP
  <2> HIDE DEF b
  <2> QED BY <2>2, FunctionIsSeq
<1>4. Disk = b \o g[n]
  BY <1>1 DEF Disk, Parts, Body
<1>5. /\ Disk \in Seq(MemoryContents) /\ Len(Disk) = BOOTSTRAP + Len(g[n])
      /\ DOMAIN Disk = 1..(BOOTSTRAP + Len(g[n]))
      /\ \A i \in 1..(BOOTSTRAP + Len(g[n])) :
           Disk[i] = IF i <= BOOTSTRAP THEN b[i] ELSE g[n][i - BOOTSTRAP]
  <2>1. g[n] \in Seq(MemoryContents)
    BY <1>2
  <2> HIDE DEF b
  <2>2. Disk \in Seq(MemoryContents) /\ IsConcat(Disk, b, g[n])
    BY ONLY <1>3, <1>4, <2>1, ConcatIs
  <2> QED BY <1>3, <2>2 DEF IsConcat
<1>6. IsLayout(f)
  <2> HIDE DEF b
  <2>1. f \in [0..n -> Nat] /\ f[0] = BOOTSTRAP
    <3>1. 0 \in 0..n /\ g[0] = <<>>
      BY <1>1, <1>2 DEF IsChain
    <3>2. Len(g[0]) = 0
      BY <3>1, EmptySeq
    <3> QED BY <1>2, <3>1, <3>2 DEF BOOTSTRAP
  <2>2. ASSUME NEW i \in 1..n PROVE f[i] = f[i - 1] + programs[i].sectors
    <3>1. i \in 0..n /\ i - 1 \in 0..n
      BY <1>2
    <3>2. Len(g[i]) = Len(g[i - 1]) + programs[i].sectors /\ programs[i].sectors \in Nat
      BY <1>1, ChainHasParts, SectorsFacts
    <3> DEFINE x == Len(g[i - 1])
               y == Len(g[i])
               c == programs[i].sectors
    <3>3. f[i] = 2 + y /\ f[i - 1] = 2 + x
      BY <3>1 DEF BOOTSTRAP
    <3> HIDE DEF f
    <3>4. x \in Nat /\ y = x + c /\ c \in Nat
      BY <1>2, <3>1, <3>2
    <3> HIDE DEF x, y, c
    <3>5. f[i] = f[i - 1] + c
      BY <3>3, <3>4
    <3> QED BY <3>5 DEF c
  <2>3. ASSUME NEW i \in 1..n, NEW k \in 1..programs[i].sectors
        PROVE  f[i - 1] + k \in DOMAIN Disk /\ Disk[f[i - 1] + k] = Sector(i, k)
    <3> DEFINE j == Len(g[i - 1]) + k
    <3>1. i - 1 \in 0..n /\ n \in 0..n
      BY <1>2
    <3>2. j \in 1..Len(g[n]) /\ g[n][j] = Sector(i, k)
      BY <1>1, ChainHasParts DEF HasParts
    <3>3. f[i - 1] + k = BOOTSTRAP + j /\ Len(g[n]) \in Nat /\ BOOTSTRAP \in Nat
      BY <1>2, <3>1 DEF BOOTSTRAP
    <3> HIDE DEF j, f
    <3>4. /\ BOOTSTRAP + j \in 1..(BOOTSTRAP + Len(g[n])) /\ ~(BOOTSTRAP + j <= BOOTSTRAP)
          /\ (BOOTSTRAP + j) - BOOTSTRAP = j
      BY <3>2, <3>3
    <3>5. Disk[BOOTSTRAP + j] = g[n][(BOOTSTRAP + j) - BOOTSTRAP]
      <4> DEFINE q == BOOTSTRAP + j
      <4>1. q \in 1..(BOOTSTRAP + Len(g[n])) /\ ~(q <= BOOTSTRAP)
        BY <3>4
      <4> HIDE DEF q
      <4>2. Disk[q] = g[n][q - BOOTSTRAP]
        BY <1>5, <4>1
      <4> QED BY <4>2 DEF q
    <3>6. BOOTSTRAP + j \in DOMAIN Disk
      BY <1>5, <3>4
    <3> QED BY <3>2, <3>3, <3>4, <3>5, <3>6
  <2> HIDE DEF f
  <2> QED BY <2>1, <2>2, <2>3 DEF IsLayout
<1> QED BY <1>5, <1>6

-----------------------------------------------------------------------------
(* The invariant.                                                          *)

Untouched == [u \in Units |-> UNTOUCHED]
MemoryInv ==
  /\ memory \in [Units -> MemoryContents]
  /\ stage \in {"building", "off"} => memory = Untouched

\* Where the next sector is taken from: behind those that have been read.
DiskInv ==
  stage = "loading" =>
    /\ drive \in Drives /\ OnDrive(at)
    /\ \A f : IsLayout(f) => Number(at) = f[at.entry] - at.left + 1

\* Where it is stored: of the program of an entry behind the sectors of it that have
\* been read.
Steps(i) ==
  /\ PARAGRAPH * at.es + at.bx = Base(i) + (info[i].count - at.left) * SECTOR_SIZE
  /\ at.bx % SECTOR_SIZE = 0 \/ at.bx + at.left * SECTOR_SIZE <= WORD
AddressInv ==
  stage = "loading" =>
    /\ at \in Registers /\ at.entry <= Len(info)
    /\ at.entry = 0 /\ at.left > 0 => at.left = 1 /\ at.es = 0 /\ at.bx = START_OFFSET
    /\ at.entry # 0 =>
         /\ at.left <= info[at.entry].count
         /\ Understood(at.entry) /\ StepsThrough(at.entry) => Steps(at.entry)

\* Before the kernel is started, what is stored is of the bootstrap and the programs.
IsStoredUnit(u) == u < MEMORY_END /\ (u \in LOADER \/ \E i \in DOMAIN info : u \in Area(i))
AllStored == \A u \in Units : memory[u] # UNTOUCHED => IsStoredUnit(u)
StoreInv == stage \notin {"started", "lost"} /\ WellAddressed => AllStored

\* Programs that keep clear of each other and are where they seem to be.
Clear ==
  /\ WellAddressed
  /\ \A i \in DOMAIN info : \A j \in 1..(i - 1) : Area(i) \cap Area(j) = {}

\* While it is loaded, what has been read is in memory.
IsLoaded(i, k) ==
  \A u \in 1..SECTOR_SIZE : memory[Base(i) + (k - 1) * SECTOR_SIZE + u - 1] = Sector(i, k)
LoadedInv ==
  stage = "loading" /\ Clear =>
    \A i \in 1..at.entry :
      \A k \in 1..(IF i = at.entry THEN info[i].count - at.left ELSE info[i].count) :
        IsLoaded(i, k)

BootInv ==
  /\ BuildInv /\ MemoryInv /\ DiskInv /\ AddressInv /\ StoreInv /\ LoadedInv
  /\ StoresInPlace /\ ProgramsAreLoaded

\* What a step does to the programs.
BuildStep ==
  \/ UNCHANGED <<programs, info>>
  \/ \E a \in Arguments :
       /\ a.form = "flat" /\ Fits(a) /\ programs' = Append(programs, a)
       /\ info' = Append(info, [count |-> a.sectors, segment |-> Segment(a),
                                offset |-> Offset(a)])

LEMMA BuildIsKept ==
  ASSUME BuildInv, BuildStep
  PROVE  BuildInv'
<1>0. \A r, a : IsEntryOf(r, a)' <=> IsEntryOf(r, a)
  BY DEF IsEntryOf, Fits, Segment, Offset
<1>1. CASE UNCHANGED <<programs, info>>
  BY <1>0, <1>1 DEF BuildInv
<1>2. ASSUME NEW a \in Arguments, a.form = "flat", Fits(a), programs' = Append(programs, a),
             info' = Append(info, [count |-> a.sectors, segment |-> Segment(a),
                                   offset |-> Offset(a)])
      PROVE  BuildInv'
  <2> DEFINE r == [count |-> a.sectors, segment |-> Segment(a), offset |-> Offset(a)]
             n == Len(info)
  <2>1. a.sectors \in Nat /\ a.address \in Int
    BY <1>2, BootAssumption
  <2>2. Segment(a) \in Words /\ Offset(a) \in Words
    <3>1. a.address \in Int /\ PARAGRAPH \in Nat /\ PARAGRAPH > 0 /\ WORD \in Nat /\ WORD > 0
      BY <2>1, BootSizes
    <3>2. a.address \div PARAGRAPH \in Int /\ a.address % PARAGRAPH \in 0..(PARAGRAPH - 1)
      BY <3>1
    <3>3. (a.address \div PARAGRAPH) % WORD \in 0..(WORD - 1)
      BY <3>1, <3>2, DivisionFacts
    <3>4. PARAGRAPH <= WORD
      <4>1. WORD % PARAGRAPH = 0
        BY BootSizes
      <4>2. WORD < PARAGRAPH => WORD % PARAGRAPH = WORD
        BY <3>1, DivisionFacts
      <4> QED BY <3>1, <4>1, <4>2
    <3> QED BY <3>1, <3>2, <3>3, <3>4 DEF Segment, Offset, Words
  <2>3. r \in Record /\ IsEntryOf(r, a)
    BY <1>2, <2>1, <2>2 DEF Record, IsEntryOf
  <2> HIDE DEF r
  <2>4. /\ programs \in Seq(Arguments) /\ info \in Seq(Record) /\ n = Len(programs) /\ n \in Nat
        /\ DOMAIN info = 1..n
        /\ \A i \in DOMAIN info : IsEntryOf(info[i], programs[i])
    BY LenProperties DEF BuildInv
  <2>5. info' = Append(info, r)
    BY <1>2 DEF r
  <2>6. /\ info' \in Seq(Record) /\ Len(info') = n + 1 /\ info'[n + 1] = r
        /\ \A i \in 1..n : info'[i] = info[i]
    BY <2>3, <2>4, <2>5, AppendProperties
  <2>7. /\ programs' \in Seq(Arguments) /\ Len(programs') = n + 1 /\ programs'[n + 1] = a
        /\ \A i \in 1..n : programs'[i] = programs[i]
    BY <1>2, <2>4, AppendProperties
  <2>8. DOMAIN info' = 1..(n + 1)
    BY <2>6, LenProperties
  <2> HIDE DEF n
  <2>9. \A i \in 1..(n + 1) : i \in 1..n \/ i = n + 1
    BY <2>4
  <2>10. \A i \in 1..(n + 1) : IsEntryOf(info'[i], programs'[i])
    BY <2>3, <2>4, <2>6, <2>7, <2>9
  <2> QED BY <1>0, <2>6, <2>7, <2>8, <2>10 DEF BuildInv
<1> QED BY <1>1, <1>2 DEF BuildStep

\* What depends on the programs only.
LEMMA SamePrograms ==
  ASSUME UNCHANGED <<programs, info>>
  PROVE  /\ MemoryContents' = MemoryContents /\ Disk' = Disk
         /\ \A i : Base(i)' = Base(i) /\ Area(i)' = Area(i)
         /\ \A i : Understood(i)' = Understood(i) /\ StepsThrough(i)' = StepsThrough(i)
         /\ WellAddressed' = WellAddressed /\ Clear' = Clear
         /\ \A f : IsLayout(f)' = IsLayout(f)
<1>1. programs' = programs /\ info' = info
  OBVIOUS
<1>2. MemoryContents' = MemoryContents
  BY <1>1 DEF MemoryContents
<1>3. Disk' = Disk
  BY <1>1 DEF Disk
<1>4. \A i : Base(i)' = Base(i) /\ Area(i)' = Area(i)
  BY <1>1 DEF Base, Area
<1>5. \A i : Understood(i)' = Understood(i) /\ StepsThrough(i)' = StepsThrough(i)
  BY <1>1 DEF Understood, StepsThrough
<1>6. WellAddressed' = WellAddressed
  BY <1>1, <1>5 DEF WellAddressed
<1>7. Clear' = Clear
  BY <1>1, <1>4, <1>6 DEF Clear
<1>8. \A f : IsLayout(f)' = IsLayout(f)
  BY <1>1, <1>3 DEF IsLayout
<1> QED BY <1>2, <1>3, <1>4, <1>5, <1>6, <1>7, <1>8

-----------------------------------------------------------------------------
(* Memory.                                                                 *)

LEMMA UnitFacts ==
  /\ \A u \in Nat : u < MEMORY_END => u \in Units
  /\ Units \subseteq Nat /\ TARGET_ADDRESS \in Units /\ TARGET_ADDRESS \notin TABLES
  /\ LOADER \subseteq Units /\ TABLES \subseteq Units
  /\ \A u \in LOADER \cup TABLES \cup {TARGET_ADDRESS} : u < MEMORY_END
  /\ START_OFFSET .. START_OFFSET + SECTOR_SIZE - 1 \subseteq LOADER
<1> DEFINE m == PARAGRAPH * WORD
<1>1. m \in Nat /\ WORD \in Nat /\ WORD > 0 /\ MEMORY_END \in Nat /\ MEMORY_END <= m
  BY BootSizes
<1>2. Units = 0..(m + WORD - 1)
  BY DEF Units
<1> HIDE DEF m
<1>3. \A u \in Nat : u < MEMORY_END => u \in Units
  BY <1>1, <1>2
<1>4. /\ LOADER \cup TABLES \subseteq 0..(MEMORY_END - 1)
      /\ START_OFFSET .. START_OFFSET + SECTOR_SIZE - 1 \subseteq LOADER
      /\ TARGET_ADDRESS \in 0..(MEMORY_END - 1) /\ TARGET_ADDRESS \notin TABLES
  BY BootAssumption
<1>5. \A u \in 0..(MEMORY_END - 1) : u \in Nat /\ u < MEMORY_END
  BY <1>1
<1> QED BY <1>2, <1>3, <1>4, <1>5

\* The words of an address that is not negative make up the address.
LEMMA WordsFacts ==
  ASSUME NEW a \in Nat, a < MEMORY_END
  PROVE  PARAGRAPH * ((a \div PARAGRAPH) % WORD) + (a % PARAGRAPH) = a
<1>1. /\ PARAGRAPH \in Nat /\ PARAGRAPH > 0 /\ WORD \in Nat /\ WORD > 0
      /\ a < PARAGRAPH * WORD
  <2>1. MEMORY_END \in Nat /\ MEMORY_END <= PARAGRAPH * WORD /\ PARAGRAPH * WORD \in Nat
    BY BootSizes
  <2> QED BY <2>1, BootSizes
<1> DEFINE q == a \div PARAGRAPH
           r == a % PARAGRAPH
<1>2. q \in Nat /\ r \in Nat /\ a = PARAGRAPH * q + r
  BY <1>1, DivisionFacts
<1> HIDE DEF q, r
<1>3. q < WORD
  <2>1. \A x, y \in Nat : y <= x => PARAGRAPH * y <= PARAGRAPH * x
    BY <1>1
  <2> QED BY <1>1, <1>2, <2>1
<1>4. q % WORD = q
  BY <1>1, <1>2, <1>3, DivisionFacts
<1> QED BY <1>2, <1>4 DEF q, r

\* The areas of programs are below the end of memory.
LEMMA AreaFacts ==
  ASSUME BuildInv, NEW i \in DOMAIN info
  PROVE  /\ Base(i) \in Nat /\ info[i].count \in Nat /\ info[i].count = programs[i].sectors
         /\ info[i].segment \in Words /\ info[i].offset \in Words
         /\ Understood(i) => Base(i) = programs[i].address
         /\ Understood(i) => \A u \in Area(i) : u \in Units /\ u < MEMORY_END
         /\ Understood(i) => Base(i) + info[i].count * SECTOR_SIZE < MEMORY_END
         /\ Area(i) = Base(i) .. (Base(i) + info[i].count * SECTOR_SIZE - 1)
<1>1. info[i] \in Record /\ programs[i] \in Arguments
  <2>1. /\ info \in Seq(Record) /\ programs \in Seq(Arguments) /\ Len(info) = Len(programs)
        /\ i \in 1..Len(info)
    BY LenProperties DEF BuildInv
  <2> QED BY <2>1, ElementOfSeq
<1>2. IsEntryOf(info[i], programs[i])
  BY DEF BuildInv
<1>3. info[i].count \in Nat /\ info[i].segment \in Words /\ info[i].offset \in Words
  BY <1>1 DEF Record
<1>4. Base(i) \in Nat
  BY <1>3, BootSizes DEF Base
<1>5. Area(i) = Base(i) .. (Base(i) + info[i].count * SECTOR_SIZE - 1)
  BY DEF Area, Base
<1> DEFINE m == info[i].count * SECTOR_SIZE
<1>6. m \in Nat
  BY <1>3, BootSizes
<1>7. programs[i].address \in Int /\ programs[i].address + m < MEMORY_END
  <2>1. programs[i].address \in Int
    BY <1>1, <1>2, BootAssumption DEF IsEntryOf
  <2> QED BY <1>2, <2>1 DEF IsEntryOf, Fits
<1> HIDE DEF m
<1>8. Understood(i) => Base(i) = programs[i].address
  <2>1. Base(i) = PARAGRAPH * Segment(programs[i]) + Offset(programs[i])
    BY <1>2 DEF IsEntryOf, Base
  <2>2. ASSUME NEW a \in Nat, a = programs[i].address, a < MEMORY_END PROVE Base(i) = a
    BY <2>1, <2>2, WordsFacts DEF Segment, Offset
  <2>3. Understood(i) => programs[i].address \in Nat /\ programs[i].address < MEMORY_END
    BY <1>6, <1>7, BootSizes DEF Understood
  <2> QED BY <2>2, <2>3
<1>9. Understood(i) => Base(i) + m < MEMORY_END
  BY <1>7, <1>8
<1>10. ASSUME Understood(i), NEW u \in Base(i) .. (Base(i) + m - 1)
       PROVE  u \in Units /\ u < MEMORY_END
  <2>1. u \in Nat /\ u < MEMORY_END
    BY <1>4, <1>6, <1>9, <1>10, BootSizes
  <2> QED BY <2>1, UnitFacts
<1>11. info[i].count = programs[i].sectors
  BY <1>2 DEF IsEntryOf
<1> QED BY <1>3, <1>4, <1>5, <1>8, <1>9, <1>10, <1>11 DEF m

\* Those of the sectors of a program, which come one behind the other in its area.
From(i, k) == Base(i) + (k - 1) * SECTOR_SIZE

LEMMA SectorFacts ==
  ASSUME BuildInv, NEW i \in DOMAIN info, NEW k \in 1..info[i].count
  PROVE  /\ From(i, k) \in Nat
         /\ From(i, k) + SECTOR_SIZE <= Base(i) + info[i].count * SECTOR_SIZE
         /\ From(i, k) .. (From(i, k) + SECTOR_SIZE - 1) \subseteq Area(i)
         /\ \A n \in 1..(k - 1) : From(i, n) \in Nat /\ From(i, n) + SECTOR_SIZE <= From(i, k)
<1>1. /\ Base(i) \in Nat /\ info[i].count \in Nat /\ SECTOR_SIZE \in Nat /\ SECTOR_SIZE > 0
      /\ k \in Nat /\ k <= info[i].count /\ k >= 1
  BY AreaFacts, BootSizes
<1>2. \A p, q \in Nat : q <= p => q * SECTOR_SIZE <= p * SECTOR_SIZE
  BY <1>1
<1>3. \A n \in 1..k : /\ (n - 1) * SECTOR_SIZE \in Nat
                      /\ n * SECTOR_SIZE = (n - 1) * SECTOR_SIZE + SECTOR_SIZE
  BY <1>1
<1>4. \A n \in 1..k : From(i, n) \in Nat /\ From(i, n) + SECTOR_SIZE = Base(i) + n * SECTOR_SIZE
  <2> TAKE n \in 1..k
  <2> DEFINE x == (n - 1) * SECTOR_SIZE
             y == n * SECTOR_SIZE
  <2>1. x \in Nat /\ y = x + SECTOR_SIZE /\ From(i, n) = Base(i) + x
    BY <1>3 DEF From
  <2> HIDE DEF x, y
  <2>2. From(i, n) \in Nat /\ From(i, n) + SECTOR_SIZE = Base(i) + y
    BY <1>1, <2>1
  <2> QED BY <2>2 DEF y
<1> DEFINE m == info[i].count * SECTOR_SIZE
<1>5. m \in Nat /\ k * SECTOR_SIZE <= m /\ k * SECTOR_SIZE \in Nat
  BY <1>1, <1>2
<1>6. From(i, k) \in Nat /\ From(i, k) + SECTOR_SIZE <= Base(i) + m
  <2> DEFINE y == k * SECTOR_SIZE
  <2>1. From(i, k) + SECTOR_SIZE = Base(i) + y /\ y <= m /\ y \in Nat /\ From(i, k) \in Nat
    BY <1>1, <1>4, <1>5
  <2> HIDE DEF y, m
  <2> QED BY <1>1, <1>5, <2>1
<1>7. From(i, k) .. (From(i, k) + SECTOR_SIZE - 1) \subseteq Area(i)
  <2>1. Area(i) = Base(i) .. (Base(i) + m - 1)
    BY AreaFacts
  <2>2. Base(i) <= From(i, k)
    <3> DEFINE x == (k - 1) * SECTOR_SIZE
    <3>1. x \in Nat /\ From(i, k) = Base(i) + x
      BY <1>1, <1>3 DEF From
    <3> HIDE DEF x
    <3> QED BY <1>1, <3>1
  <2> HIDE DEF m
  <2> QED BY <1>1, <1>5, <1>6, <2>1, <2>2
<1>8. ASSUME NEW n \in 1..(k - 1) PROVE From(i, n) \in Nat /\ From(i, n) + SECTOR_SIZE <= From(i, k)
  <2>1. n \in 1..k /\ n <= k - 1 /\ k - 1 \in Nat /\ n \in Nat
    BY <1>1
  <2>2. n * SECTOR_SIZE <= (k - 1) * SECTOR_SIZE
    BY <1>2, <2>1
  <2> DEFINE x == (k - 1) * SECTOR_SIZE
             y == n * SECTOR_SIZE
  <2>3. y <= x /\ From(i, k) = Base(i) + x /\ From(i, n) + SECTOR_SIZE = Base(i) + y
        /\ x \in Nat /\ y \in Nat
    BY <1>1, <1>4, <2>1, <2>2 DEF From
  <2> HIDE DEF x, y
  <2> QED BY <1>1, <1>4, <2>1, <2>3
<1> QED BY <1>6, <1>7, <1>8

\* The BSS is behind the program that is taken for the kernel, and that is not empty.
LEMMA BssFacts ==
  ASSUME BuildInv, MemoryInv
  PROVE  TARGET_ADDRESS \notin TABLES \cup Bss
<1> DEFINE kernel == memory[TARGET_ADDRESS][1]
<1>1. TARGET_ADDRESS \in Units /\ TARGET_ADDRESS \in Nat /\ TARGET_ADDRESS \notin TABLES
  BY UnitFacts
<1>2. memory[TARGET_ADDRESS] \in MemoryContents
  BY <1>1 DEF MemoryInv
<1>3. kernel = 0 \/ (kernel \in DOMAIN programs /\ \E k \in 1..programs[kernel].sectors : TRUE)
  <2>1. CASE memory[TARGET_ADDRESS] \in {UNTOUCHED, SYSTEM}
    BY <2>1 DEF UNTOUCHED, SYSTEM
  <2>2. ASSUME NEW i \in DOMAIN programs, NEW k \in 1..programs[i].sectors,
               memory[TARGET_ADDRESS] = Sector(i, k)
        PROVE  kernel = i
    BY <2>2 DEF Sector
  <2> QED BY <1>2, <2>1, <2>2 DEF MemoryContents
<1> HIDE DEF kernel
<1>4. CASE kernel = 0
  BY <1>1, <1>4 DEF Bss, kernel
<1>5. CASE kernel # 0
  <2> DEFINE m == programs[kernel].sectors * SECTOR_SIZE
             s == programs[kernel].sectors
  <2>1. s \in Nat /\ s >= 1
    <3>1. s \in Nat
      BY <1>3, <1>5, SectorsFacts
    <3> QED BY <1>3, <1>5, <3>1
  <2>2. m \in Nat /\ m >= 1
    <3>1. \A p, q \in Nat : p >= 1 /\ q >= 1 => p * q \in Nat /\ p * q >= 1
      OBVIOUS
    <3> QED BY <2>1, <3>1, BootSizes
  <2>3. Bss = (TARGET_ADDRESS + m .. TARGET_ADDRESS + m + BSS - 1) \cap Units
    BY <1>5 DEF Bss, kernel
  <2> HIDE DEF m, s
  <2> QED BY <1>1, <2>2, <2>3, BootSizes
<1> QED BY <1>4, <1>5

LEMMA SectorAtFacts ==
  ASSUME BuildInv, NEW p
  PROVE  SectorAt(p) \in MemoryContents
<1>1. Disk \in Seq(MemoryContents)
  BY LayoutExists
<1>2. \A n \in DOMAIN Disk : Disk[n] \in MemoryContents
  BY <1>1, LenProperties, ElementOfSeq
<1>3. SYSTEM \in MemoryContents
  BY DEF MemoryContents, SYSTEM
<1> HIDE DEF Disk
<1> QED BY <1>2, <1>3 DEF SectorAt

-----------------------------------------------------------------------------
(* The steps.                                                              *)

\* What a step does, by the part of memory it stores into.
LEMMA Kinds ==
  ASSUME [BootNext]_bootVars
  PROVE  \/ UNCHANGED <<stage, programs, info, drive, at, memory>>
         \/ /\ stage = "building" /\ stage' \in {"building", "failed", "off"} /\ BuildStep
            /\ UNCHANGED <<drive, at, memory>>
         \/ \E d \in Drives : PowerOn(d)
         \/ DiskNotReady \/ ReadSector \/ ReadFails \/ NextBlock \/ PastTable \/ Start
<1>1. CASE UNCHANGED bootVars
  BY <1>1 DEF bootVars
<1>2. ASSUME NEW a \in Arguments, ProcessFile(a)
      PROVE  /\ stage = "building" /\ stage' \in {"building", "failed", "off"} /\ BuildStep
             /\ UNCHANGED <<drive, at, memory>>
  BY <1>2 DEF ProcessFile, BuildStep, ValidAddress
<1>3. CASE WriteTable \/ Quit
  BY <1>3 DEF WriteTable, Quit, BuildStep
<1> QED BY <1>1, <1>2, <1>3 DEF BootNext

LEMMA MemoryIsKept ==
  ASSUME BuildInv, MemoryInv, [BootNext]_bootVars
  PROVE  MemoryInv'
<1>1. CASE UNCHANGED <<stage, programs, info, drive, at, memory>>
  BY <1>1, SamePrograms DEF MemoryInv, Untouched
<1>2. CASE /\ stage = "building" /\ stage' \in {"building", "failed", "off"} /\ BuildStep
           /\ UNCHANGED <<drive, at, memory>>
  <2>1. memory' = [u \in Units |-> UNTOUCHED]
    BY <1>2 DEF MemoryInv, Untouched
  <2>2. UNTOUCHED \in MemoryContents'
    BY DEF MemoryContents, UNTOUCHED
  <2> QED BY <2>1, <2>2 DEF MemoryInv, Untouched
<1>3. ASSUME NEW d \in Drives, PowerOn(d) PROVE MemoryInv'
  <2>1. UNCHANGED <<programs, info, memory>> /\ stage' = "loading"
    BY <1>3 DEF PowerOn
  <2> QED BY <2>1, SamePrograms DEF MemoryInv
<1>4. CASE DiskNotReady \/ ReadFails \/ NextBlock \/ PastTable
  <2>1. UNCHANGED <<programs, info, memory>> /\ stage' \in {"loading", "frozen", "lost"}
    BY <1>4 DEF DiskNotReady, ReadFails, NextBlock, BlockDone, PastTable
  <2> QED BY <2>1, SamePrograms DEF MemoryInv
<1>5. CASE ReadSector
  <2>1. /\ UNCHANGED <<programs, info>> /\ stage' \in {"loading", "frozen", "lost"}
        /\ memory' = [u \in Units |-> IF u \in Destination(at) THEN SectorAt(at) ELSE memory[u]]
    BY <1>5 DEF ReadSector
  <2>2. SectorAt(at) \in MemoryContents
    BY SectorAtFacts
  <2>3. memory' \in [Units -> MemoryContents]
    BY <2>1, <2>2 DEF MemoryInv
  <2> QED BY <2>1, <2>3, SamePrograms DEF MemoryInv
<1>6. CASE Start
  <2>1. /\ UNCHANGED <<programs, info>> /\ stage' \in {"started", "lost"}
        /\ memory' = [u \in Units |-> IF u \in TABLES \cup Bss THEN SYSTEM ELSE memory[u]]
    BY <1>6 DEF Start
  <2>2. SYSTEM \in MemoryContents
    BY DEF MemoryContents, SYSTEM
  <2>3. memory' \in [Units -> MemoryContents]
    BY <2>1, <2>2 DEF MemoryInv
  <2> QED BY <2>1, <2>3, SamePrograms DEF MemoryInv
<1> QED BY <1>1, <1>2, <1>3, <1>4, <1>5, <1>6, Kinds

\* Where a sector that has been read leaves the bootstrap.
LEMMA ReadFacts ==
  ASSUME drive \in Drives, at \in Registers, OnDrive(at), at.left > 0,
         NEW r, r = [NextPlace(NextSector(at)) EXCEPT !.left = @ - 1, !.tries = RETRIES]
  PROVE  /\ r \in Registers /\ OnDrive(r) /\ Number(r) = Number(at) + 1
         /\ r.entry = at.entry /\ r.left = at.left - 1
         /\ PARAGRAPH * at.es + at.bx + SECTOR_SIZE < PARAGRAPH * WORD
            /\ (at.bx % SECTOR_SIZE = 0 \/ at.bx + at.left * SECTOR_SIZE <= WORD)
            => /\ PARAGRAPH * r.es + r.bx = PARAGRAPH * at.es + at.bx + SECTOR_SIZE
               /\ r.bx % SECTOR_SIZE = 0 \/ r.bx + (at.left - 1) * SECTOR_SIZE <= WORD
<1> DEFINE p == NextSector(at)
           q == NextPlace(p)
<1>1. /\ p \in Registers /\ OnDrive(p) /\ Number(p) = Number(at) + 1
      /\ p.entry = at.entry /\ p.left = at.left /\ p.es = at.es /\ p.bx = at.bx
  BY NextSectorFacts
<1> HIDE DEF p
<1>2. /\ q \in Registers /\ q.entry = p.entry /\ q.left = p.left
      /\ q.sec = p.sec /\ q.head = p.head /\ q.track = p.track
      /\ p.left > 0 /\ PARAGRAPH * p.es + p.bx + SECTOR_SIZE < PARAGRAPH * WORD
            /\ (p.bx % SECTOR_SIZE = 0 \/ p.bx + p.left * SECTOR_SIZE <= WORD)
            => /\ PARAGRAPH * q.es + q.bx = PARAGRAPH * p.es + p.bx + SECTOR_SIZE
               /\ q.bx % SECTOR_SIZE = 0 \/ q.bx + (p.left - 1) * SECTOR_SIZE <= WORD
  BY <1>1, NextPlaceFacts
<1>3. r = [q EXCEPT !.left = @ - 1, !.tries = RETRIES]
  BY DEF p
<1> HIDE DEF q
<1>4. at.left - 1 \in Nat /\ RETRIES \in Int /\ q.left = at.left
  BY <1>1, <1>2, BootSizes DEF Registers
<1>5. r = [entry |-> q.entry, left |-> q.left - 1, es |-> q.es, bx |-> q.bx, sec |-> q.sec,
           head |-> q.head, track |-> q.track, tries |-> RETRIES]
  BY <1>2, <1>3 DEF Registers
<1>6. r \in Registers
  BY <1>2, <1>4, <1>5 DEF Registers
<1>7. /\ r.entry = q.entry /\ r.left = q.left - 1 /\ r.es = q.es /\ r.bx = q.bx
      /\ r.sec = q.sec /\ r.head = q.head /\ r.track = q.track
  BY <1>2, <1>3 DEF Registers
<1>8. OnDrive(r) /\ Number(r) = Number(at) + 1
  BY <1>1, <1>2, <1>7 DEF OnDrive, Number
<1> QED BY <1>1, <1>2, <1>4, <1>6, <1>7, <1>8

LEMMA DiskIsKept ==
  ASSUME BuildInv, DiskInv, AddressInv, [BootNext]_bootVars
  PROVE  DiskInv'
<1> SUFFICES ASSUME stage' = "loading"
             PROVE  /\ drive' \in Drives /\ OnDrive(at)'
                    /\ \A f : IsLayout(f)' => Number(at)' = f[at.entry'] - at.left' + 1
  BY DEF DiskInv
<1>1. CASE UNCHANGED <<stage, programs, info, drive, at, memory>>
  <2>1. DiskInv' = DiskInv
    BY <1>1, SamePrograms DEF DiskInv, Number, OnDrive
  <2> QED BY <2>1 DEF DiskInv
<1>2. ASSUME NEW d \in Drives, PowerOn(d)
      PROVE  /\ drive' \in Drives /\ OnDrive(at)'
             /\ \A f : IsLayout(f)' => Number(at)' = f[at.entry'] - at.left' + 1
  <2>1. /\ drive' = d /\ UNCHANGED <<programs, info>>
        /\ at'.entry = 0 /\ at'.left = 1 /\ at'.sec = 2 /\ at'.head = 0 /\ at'.track = 0
    BY <1>2 DEF PowerOn
  <2>2. d.sectors \in Nat \ {0, 1} /\ d.heads \in 1..N_BYTE /\ N_BYTE \in Nat
    BY BootAssumption
  <2>3. OnDrive(at)'
    BY <2>1, <2>2 DEF OnDrive
  <2>4. Number(at)' = 2
    <3>1. Number(at)' = (0 * d.heads + 0) * d.sectors + 2
      BY <2>1 DEF Number
    <3> QED BY <2>2, <3>1
  <2>5. ASSUME NEW f, IsLayout(f)' PROVE f[0] = 2
    BY <2>5 DEF IsLayout, BOOTSTRAP
  <2> QED BY <2>1, <2>3, <2>4, <2>5
<1>3. CASE ReadSector
  <2>1. /\ stage = "loading" /\ at.left > 0 /\ UNCHANGED <<programs, info, drive>>
        /\ at' = [NextPlace(NextSector(at)) EXCEPT !.left = @ - 1, !.tries = RETRIES]
    BY <1>3 DEF ReadSector, Loading
  <2>2. /\ drive \in Drives /\ OnDrive(at) /\ at \in Registers
        /\ \A f : IsLayout(f) => Number(at) = f[at.entry] - at.left + 1
        /\ at.entry <= Len(info)
    BY <2>1 DEF DiskInv, AddressInv
  <2>3. /\ OnDrive(at') /\ Number(at') = Number(at) + 1
        /\ at'.entry = at.entry /\ at'.left = at.left - 1
    BY <2>1, <2>2, ReadFacts
  <2>4. OnDrive(at)' /\ Number(at)' = Number(at) + 1
    BY <2>1, <2>3 DEF OnDrive, Number
  <2>5. ASSUME NEW f, IsLayout(f)' PROVE Number(at)' = f[at.entry'] - at.left' + 1
    <3>1. IsLayout(f)
      BY <2>1, <2>5, SamePrograms
    <3>2. Number(at) = f[at.entry] - at.left + 1
      BY <2>2, <3>1
    <3>3. f[at.entry] \in Nat /\ at.left \in Nat
      <4>1. at.entry \in 0..Len(programs) /\ at.left \in Nat
        BY <2>2, SectorsFacts DEF Registers, BuildInv
      <4> QED BY <3>1, <4>1 DEF IsLayout
    <3> QED BY <2>3, <2>4, <3>2, <3>3
  <2> QED BY <2>1, <2>2, <2>4, <2>5
<1>4. CASE ReadFails
  <2>1. stage = "loading" /\ UNCHANGED <<programs, info, drive>>
        /\ at' = [at EXCEPT !.tries = TriesLeft(@)]
    BY <1>4 DEF ReadFails, Loading
  <2>2. /\ drive \in Drives /\ OnDrive(at) /\ at \in Registers
        /\ \A f : IsLayout(f) => Number(at) = f[at.entry] - at.left + 1
    BY <2>1 DEF DiskInv, AddressInv
  <2>3. /\ at'.entry = at.entry /\ at'.left = at.left /\ at'.sec = at.sec
        /\ at'.head = at.head /\ at'.track = at.track
    BY <2>1, <2>2 DEF Registers
  <2>4. OnDrive(at)' /\ Number(at)' = Number(at)
    BY <2>1, <2>2, <2>3 DEF OnDrive, Number
  <2> QED BY <2>1, <2>2, <2>3, <2>4, SamePrograms
<1>5. CASE NextBlock
  <2>1. /\ stage = "loading" /\ at.left = 0 /\ UNCHANGED <<programs, info, drive>>
        /\ NextEntry \in DOMAIN info
        /\ at' = [at EXCEPT !.entry = NextEntry, !.left = info[NextEntry].count,
                            !.es = info[NextEntry].segment, !.bx = info[NextEntry].offset]
    BY <1>5 DEF NextBlock, BlockDone, HasProgram
  <2>2. /\ drive \in Drives /\ OnDrive(at) /\ at \in Registers
        /\ \A f : IsLayout(f) => Number(at) = f[at.entry] - at.left + 1
    BY <2>1 DEF DiskInv, AddressInv
  <2>3. /\ at'.entry = at.entry + 1 /\ at'.left = info[at.entry + 1].count
        /\ at'.sec = at.sec /\ at'.head = at.head /\ at'.track = at.track
    BY <2>1, <2>2 DEF Registers, NextEntry
  <2>4. OnDrive(at)' /\ Number(at)' = Number(at)
    BY <2>1, <2>2, <2>3 DEF OnDrive, Number
  <2>5. ASSUME NEW f, IsLayout(f)' PROVE Number(at)' = f[at.entry'] - at.left' + 1
    <3> DEFINE e == at.entry + 1
    <3>1. IsLayout(f)
      BY <2>1, <2>5, SamePrograms
    <3>2. Number(at) = f[e - 1] + 1
      <4>1. Number(at) = f[at.entry] - 0 + 1 /\ at.entry = e - 1 /\ at.entry \in Nat
        BY <2>1, <2>2, <3>1 DEF Registers
      <4>2. at.entry \in 0..Len(programs)
        BY <2>1, <4>1, SectorsFacts DEF NextEntry
      <4>3. f[at.entry] \in Nat
        BY <3>1, <4>2 DEF IsLayout
      <4> QED BY <4>1, <4>3
    <3>3. e \in 1..Len(programs) /\ e \in DOMAIN info
      BY <2>1, SectorsFacts DEF NextEntry
    <3>4. f[e] = f[e - 1] + programs[e].sectors /\ f[e - 1] \in Nat /\ f[e] \in Nat
      <4>1. e - 1 \in 0..Len(programs) /\ e \in 0..Len(programs)
        BY <3>3, SectorsFacts
      <4> QED BY <3>1, <3>3, <4>1 DEF IsLayout
    <3>5. info[e].count = programs[e].sectors /\ info[e].count \in Nat
      BY <3>3, AreaFacts
    <3> HIDE DEF e
    <3>6. Number(at) = f[e] - info[e].count + 1
      BY <3>2, <3>4, <3>5
    <3> QED BY <2>3, <2>4, <3>6 DEF e
  <2> QED BY <2>1, <2>2, <2>4, <2>5
<1> QED BY <1>1, <1>2, <1>3, <1>4, <1>5, Kinds DEF DiskNotReady, PastTable, Start

LEMMA AddressIsKept ==
  ASSUME BuildInv, DiskInv, AddressInv, [BootNext]_bootVars
  PROVE  AddressInv'
<1> SUFFICES ASSUME stage' = "loading" PROVE AddressInv'
  BY DEF AddressInv
<1>1. CASE UNCHANGED <<stage, programs, info, drive, at, memory>>
  <2>1. \A i : Steps(i)' = Steps(i)
    BY <1>1 DEF Steps, Base
  <2> QED BY <1>1, <2>1, SamePrograms DEF AddressInv
<1>2. ASSUME NEW d \in Drives, PowerOn(d) PROVE AddressInv'
  <2>1. /\ UNCHANGED <<programs, info>>
        /\ at' = [entry |-> 0, left |-> 1, es |-> 0, bx |-> START_OFFSET,
                  sec |-> 2, head |-> 0, track |-> 0, tries |-> RETRIES]
    BY <1>2 DEF PowerOn
  <2>2. at' \in Registers
    BY <2>1, BootSizes DEF Registers
  <2>3. at'.entry = 0 /\ at'.left = 1 /\ at'.es = 0 /\ at'.bx = START_OFFSET
    BY <2>1
  <2>4. 0 <= Len(info')
    BY <2>1, SectorsFacts DEF BuildInv
  <2> QED BY <2>2, <2>3, <2>4 DEF AddressInv
<1>3. CASE ReadSector
  <2>1. /\ stage = "loading" /\ at.left > 0 /\ UNCHANGED <<programs, info, drive>>
        /\ at' = [NextPlace(NextSector(at)) EXCEPT !.left = @ - 1, !.tries = RETRIES]
    BY <1>3 DEF ReadSector, Loading
  <2>2. drive \in Drives /\ OnDrive(at) /\ at \in Registers
    BY <2>1 DEF DiskInv, AddressInv
  <2>3. /\ at' \in Registers /\ at'.entry = at.entry /\ at'.left = at.left - 1
        /\ PARAGRAPH * at.es + at.bx + SECTOR_SIZE < PARAGRAPH * WORD
            /\ (at.bx % SECTOR_SIZE = 0 \/ at.bx + at.left * SECTOR_SIZE <= WORD)
            => /\ PARAGRAPH * at'.es + at'.bx = PARAGRAPH * at.es + at.bx + SECTOR_SIZE
               /\ at'.bx % SECTOR_SIZE = 0 \/ at'.bx + (at.left - 1) * SECTOR_SIZE <= WORD
    BY <2>1, <2>2, ReadFacts
  <2>4. at.left \in Nat /\ at.entry \in Nat /\ at.entry <= Len(info)
    BY <2>1, <2>2 DEF Registers, AddressInv
  <2>5. CASE at.entry = 0
    <3>1. at.left = 1
      BY <2>1, <2>5 DEF AddressInv
    <3>2. at'.left = 0
      BY <2>3, <3>1
    <3> QED BY <2>1, <2>3, <2>4, <2>5, <3>2 DEF AddressInv
  <2>6. CASE at.entry # 0
    <3>0. PICK e : e = at.entry
      OBVIOUS
    <3>1. e \in DOMAIN info /\ e \in Nat
      BY <2>4, <2>6, <3>0, SectorsFacts DEF BuildInv
    <3>2. at.left <= info[e].count /\ (Understood(e) /\ StepsThrough(e) => Steps(e))
      BY <2>1, <2>6, <3>0 DEF AddressInv
    <3>3. ASSUME Understood(e), StepsThrough(e) PROVE Steps(e)'
      <4> DEFINE c == info[e].count
                 k == c - at.left + 1
                 a == PARAGRAPH * at.es + at.bx
      <4>1. c \in Nat /\ k \in 1..c /\ k - 1 = c - at.left /\ k = c - (at.left - 1)
        BY <2>1, <2>4, <3>1, <3>2, AreaFacts
      <4>2. a = From(e, k)
        BY <3>2, <3>3, <4>1 DEF Steps, From
      <4>3. /\ From(e, k) \in Nat
            /\ From(e, k) + SECTOR_SIZE <= Base(e) + c * SECTOR_SIZE
        BY <3>1, <4>1, SectorFacts
      <4>4. /\ Base(e) + c * SECTOR_SIZE < MEMORY_END /\ MEMORY_END <= PARAGRAPH * WORD
            /\ Base(e) \in Nat
        BY <3>1, <3>3, AreaFacts, BootSizes
      <4> DEFINE m == c * SECTOR_SIZE
                 n == PARAGRAPH * WORD
      <4>5. a + SECTOR_SIZE < n
        <5>1. m \in Nat /\ n \in Nat /\ MEMORY_END \in Nat /\ SECTOR_SIZE \in Nat
          BY <4>1, BootSizes
        <5> HIDE DEF m, n, a
        <5>2. /\ a \in Nat /\ a + SECTOR_SIZE <= Base(e) + m /\ Base(e) + m < MEMORY_END
              /\ MEMORY_END <= n
          BY <4>2, <4>3, <4>4 DEF m, n
        <5> QED BY <4>4, <5>1, <5>2
      <4>6. at.bx % SECTOR_SIZE = 0 \/ at.bx + at.left * SECTOR_SIZE <= WORD
        BY <3>2, <3>3 DEF Steps
      <4>7. /\ PARAGRAPH * at'.es + at'.bx = a + SECTOR_SIZE
            /\ at'.bx % SECTOR_SIZE = 0 \/ at'.bx + (at.left - 1) * SECTOR_SIZE <= WORD
        BY <2>3, <4>5, <4>6
      <4>8. a + SECTOR_SIZE = Base(e) + (c - (at.left - 1)) * SECTOR_SIZE
        <5>1. k * SECTOR_SIZE = (k - 1) * SECTOR_SIZE + SECTOR_SIZE
              /\ (k - 1) * SECTOR_SIZE \in Nat
          BY <4>1, BootSizes
        <5> DEFINE x == k * SECTOR_SIZE
                   y == (k - 1) * SECTOR_SIZE
        <5>2. x = y + SECTOR_SIZE /\ y \in Nat /\ a = Base(e) + y
          BY <4>2, <5>1 DEF From
        <5> HIDE DEF x, y, a
        <5>3. a + SECTOR_SIZE = Base(e) + x
          BY <4>4, <5>2, BootSizes
        <5> QED BY <4>1, <5>3 DEF x
      <4>9. info'[e].count = c /\ Base(e)' = Base(e)
        BY <2>1 DEF Base
      <4> HIDE DEF a, c, k, m, n
      <4> QED BY <2>3, <4>7, <4>8, <4>9 DEF Steps
    <3>4. at'.left <= info[e].count
      <4>1. info[e].count \in Nat
        BY <3>1, AreaFacts
      <4> QED BY <2>3, <2>4, <3>2, <4>1
    <3>5. at'.entry = e /\ e # 0 /\ Understood(e)' = Understood(e)
          /\ StepsThrough(e)' = StepsThrough(e) /\ info' = info /\ e <= Len(info)
      BY <2>1, <2>3, <2>4, <2>6, <3>0, SamePrograms
    <3> QED BY <2>3, <3>3, <3>4, <3>5 DEF AddressInv
  <2> QED BY <2>5, <2>6
<1>4. CASE ReadFails
  <2>1. stage = "loading" /\ UNCHANGED <<programs, info, drive>>
        /\ at' = [at EXCEPT !.tries = TriesLeft(@)]
    BY <1>4 DEF ReadFails, Loading
  <2>2. at \in Registers
    BY <2>1 DEF AddressInv
  <2>3. /\ at' \in Registers
        /\ at'.entry = at.entry /\ at'.left = at.left /\ at'.es = at.es /\ at'.bx = at.bx
    BY <2>1, <2>2 DEF Registers, TriesLeft
  <2>4. \A i : Steps(i)' = Steps(i)
    BY <2>1, <2>3 DEF Steps, Base
  <2> QED BY <2>1, <2>3, <2>4, SamePrograms DEF AddressInv
<1>5. CASE NextBlock
  <2>0. PICK e : e = at.entry + 1
    OBVIOUS
  <2>1. /\ stage = "loading" /\ at.left = 0 /\ UNCHANGED <<programs, info, drive>>
        /\ e \in DOMAIN info
        /\ at' = [at EXCEPT !.entry = e, !.left = info[e].count,
                            !.es = info[e].segment, !.bx = info[e].offset]
    BY <1>5, <2>0 DEF NextBlock, BlockDone, HasProgram, NextEntry
  <2>2. at \in Registers
    BY <2>1 DEF AddressInv
  <2>3. /\ Base(e) \in Nat /\ info[e].count \in Nat
        /\ info[e].segment \in Words /\ info[e].offset \in Words
    BY <2>1, AreaFacts
  <2>4. e \in 1..Len(info) /\ e \in Nat /\ e # 0 /\ e <= Len(info)
    BY <2>1, SectorsFacts DEF BuildInv
  <2>5. /\ at' \in Registers /\ at'.entry = e /\ at'.left = info[e].count
        /\ at'.es = info[e].segment /\ at'.bx = info[e].offset
    BY <2>1, <2>2, <2>3, <2>4 DEF Registers
  <2>6. StepsThrough(e) => Steps(e)'
    <3>1. Base(e) = PARAGRAPH * at'.es + at'.bx /\ Base(e)' = Base(e)
      BY <2>1, <2>5 DEF Base
    <3>2. info'[e].count - at'.left = 0
      BY <2>1, <2>3, <2>5
    <3>3. Base(e) + 0 * SECTOR_SIZE = Base(e)
      BY <2>3, BootSizes
    <3> QED BY <2>5, <3>1, <3>2, <3>3 DEF Steps, StepsThrough
  <2> QED BY <2>1, <2>3, <2>4, <2>5, <2>6, SamePrograms DEF AddressInv
<1> QED BY <1>1, <1>2, <1>3, <1>4, <1>5, Kinds DEF DiskNotReady, PastTable, Start

\* The sector that is read, and where it goes.
LEMMA TargetFacts ==
  ASSUME BuildInv, DiskInv, AddressInv, stage = "loading", at.left > 0,
         WellAddressed
  PROVE  /\ at.entry = 0 => Destination(at) \subseteq LOADER
         /\ at.entry # 0 =>
              /\ at.entry \in DOMAIN info /\ at.left \in Nat
              /\ info[at.entry].count - at.left + 1 \in 1..info[at.entry].count
              /\ Destination(at) = LET from == From(at.entry, info[at.entry].count - at.left + 1)
                              IN from .. (from + SECTOR_SIZE - 1)
              /\ SectorAt(at) = Sector(at.entry, info[at.entry].count - at.left + 1)
<1>1. at \in Registers /\ at.entry <= Len(info) /\ at.left \in Nat /\ at.entry \in Nat
  BY DEF AddressInv, Registers
<1>2. CASE at.entry = 0
  <2>1. PARAGRAPH * at.es + at.bx = START_OFFSET
    <3>1. at.es = 0 /\ at.bx = START_OFFSET
      BY <1>2 DEF AddressInv
    <3>2. PARAGRAPH * 0 = 0 /\ START_OFFSET \in Nat
      BY BootSizes
    <3> QED BY <3>1, <3>2
  <2> QED BY <1>2, <2>1, UnitFacts DEF Destination
<1>3. ASSUME at.entry # 0, NEW e, e = at.entry, NEW k, k = info[e].count - at.left + 1
      PROVE  /\ e \in DOMAIN info /\ k \in 1..info[e].count
             /\ Destination(at) = From(e, k) .. (From(e, k) + SECTOR_SIZE - 1)
             /\ SectorAt(at) = Sector(e, k)
  <2>1. e \in DOMAIN info /\ e \in 1..Len(programs)
    BY <1>1, <1>3, SectorsFacts DEF BuildInv
  <2>2. info[e].count \in Nat /\ info[e].count = programs[e].sectors /\ at.left <= info[e].count
    BY <1>3, <2>1, AreaFacts DEF AddressInv
  <2>3. k \in 1..info[e].count /\ k - 1 = info[e].count - at.left
    BY <1>1, <1>3, <2>2
  <2>4. PARAGRAPH * at.es + at.bx = From(e, k)
    <3>1. Steps(e)
      BY <1>3, <2>1 DEF AddressInv, WellAddressed
    <3> QED BY <2>3, <3>1 DEF Steps, From
  <2>5. From(e, k) .. (From(e, k) + SECTOR_SIZE - 1) \subseteq Units
    <3>1. From(e, k) .. (From(e, k) + SECTOR_SIZE - 1) \subseteq Area(e)
      BY <2>1, <2>3, SectorFacts
    <3>2. \A u \in Area(e) : u \in Units
      BY <2>1, AreaFacts DEF WellAddressed
    <3> QED BY <3>1, <3>2
  <2>6. Destination(at) = From(e, k) .. (From(e, k) + SECTOR_SIZE - 1)
    BY <2>4, <2>5 DEF Destination
  <2>7. SectorAt(at) = Sector(e, k)
    <3>1. PICK f : IsLayout(f)
      BY LayoutExists
    <3>2. Number(at) = f[e] - at.left + 1
      BY <1>3, <3>1 DEF DiskInv
    <3>3. f[e] = f[e - 1] + programs[e].sectors /\ f[e - 1] \in Nat
      <4>1. e - 1 \in 0..Len(programs)
        BY <2>1, SectorsFacts
      <4> QED BY <2>1, <3>1, <4>1 DEF IsLayout
    <3>4. Number(at) = f[e - 1] + k
      BY <1>1, <1>3, <2>2, <3>2, <3>3
    <3>5. f[e - 1] + k \in DOMAIN Disk /\ Disk[f[e - 1] + k] = Sector(e, k)
      BY <2>1, <2>2, <2>3, <3>1 DEF IsLayout
    <3> HIDE DEF Disk
    <3> QED BY <3>4, <3>5 DEF SectorAt, Number
  <2> QED BY <2>1, <2>3, <2>6, <2>7
<1> QED BY <1>1, <1>2, <1>3

LEMMA StoredByStep ==
  ASSUME BuildInv, MemoryInv, DiskInv, AddressInv, StoreInv,
         [BootNext]_bootVars, stage \notin {"started", "lost"}, ~Start, WellAddressed'
  PROVE  AllStored'
<1>1. ASSUME UNCHANGED <<programs, info, memory>> PROVE AllStored'
  <2>1. AllStored
    BY <1>1, SamePrograms DEF StoreInv
  <2>2. \A u : IsStoredUnit(u)' = IsStoredUnit(u)
    BY <1>1 DEF IsStoredUnit, Area
  <2> QED BY <1>1, <2>1, <2>2 DEF AllStored
<1>2. ASSUME stage = "building", UNCHANGED memory PROVE AllStored'
  <2>1. memory' = [u \in Units |-> UNTOUCHED]
    BY <1>2 DEF MemoryInv, Untouched
  <2> QED BY <2>1 DEF AllStored
<1>3. CASE ReadSector
  <2>1. /\ stage = "loading" /\ at.left > 0 /\ UNCHANGED <<programs, info>>
        /\ memory' = [u \in Units |-> IF u \in Destination(at) THEN SectorAt(at) ELSE memory[u]]
    BY <1>3 DEF ReadSector, Loading
  <2>2. WellAddressed /\ AllStored
    BY <2>1, SamePrograms DEF StoreInv
  <2>3. \A u : IsStoredUnit(u)' = IsStoredUnit(u)
    BY <2>1 DEF IsStoredUnit, Area
  <2>4. ASSUME NEW u \in Destination(at) PROVE IsStoredUnit(u)
    <3>1. CASE at.entry = 0
      <4>1. u \in LOADER
        BY <2>1, <2>2, <3>1, TargetFacts
      <4> QED BY <4>1, UnitFacts DEF IsStoredUnit
    <3>2. ASSUME at.entry # 0, NEW e, e = at.entry PROVE IsStoredUnit(u)
      <4> DEFINE k == info[e].count - at.left + 1
      <4>1. /\ e \in DOMAIN info /\ k \in 1..info[e].count
            /\ Destination(at) = From(e, k) .. (From(e, k) + SECTOR_SIZE - 1)
        BY <2>1, <2>2, <3>2, TargetFacts
      <4> HIDE DEF k
      <4>2. u \in Area(e)
        BY <4>1, SectorFacts
      <4>3. u < MEMORY_END
        BY <2>2, <4>1, <4>2, AreaFacts DEF WellAddressed
      <4> QED BY <4>1, <4>2, <4>3 DEF IsStoredUnit
    <3> QED BY <3>1, <3>2
  <2>5. ASSUME NEW u \in Units, memory'[u] # UNTOUCHED PROVE IsStoredUnit(u)
    BY <2>1, <2>2, <2>4, <2>5 DEF AllStored
  <2> QED BY <2>3, <2>5 DEF AllStored
<1> QED BY <1>1, <1>2, <1>3, Kinds DEF PowerOn, DiskNotReady, ReadFails, NextBlock, PastTable

LEMMA StoreIsKept ==
  ASSUME BuildInv, MemoryInv, DiskInv, AddressInv, StoreInv, StoresInPlace,
         [BootNext]_bootVars
  PROVE  StoreInv' /\ StoresInPlace'
<1>1. AllStored' => StoreInv' /\ StoresInPlace'
  BY DEF StoreInv, StoresInPlace, AllStored, IsStoredUnit
<1>2. ASSUME UNCHANGED <<stage, programs, info, drive, at, memory>>
      PROVE  StoreInv' /\ StoresInPlace'
  <2>1. Bss' = Bss
    BY <1>2 DEF Bss
  <2>2. \A u : IsStoredUnit(u)' = IsStoredUnit(u)
    BY <1>2 DEF IsStoredUnit, Area
  <2>3. AllStored' = AllStored
    BY <1>2, <2>2 DEF AllStored
  <2> QED BY <1>2, <2>1, <2>3, SamePrograms DEF StoreInv, StoresInPlace
<1>3. CASE Start
  <2>1. /\ stage = "loading" /\ stage' \in {"started", "lost"} /\ UNCHANGED <<programs, info>>
        /\ memory' = [u \in Units |-> IF u \in TABLES \cup Bss THEN SYSTEM ELSE memory[u]]
    BY <1>3 DEF Start, BlockDone
  <2>2. Bss' = Bss
    <3>1. memory'[TARGET_ADDRESS] = memory[TARGET_ADDRESS]
      BY <2>1, BssFacts, UnitFacts
    <3> QED BY <2>1, <3>1 DEF Bss
  <2>3. ASSUME WellAddressed, NEW u \in Units, memory'[u] # UNTOUCHED
        PROVE  /\ u < MEMORY_END \/ u \in Bss
               /\ u \in LOADER \cup TABLES \cup Bss \/ \E i \in DOMAIN info : u \in Area(i)
    <3>1. CASE u \in TABLES \cup Bss
      BY <3>1, UnitFacts
    <3>2. CASE u \notin TABLES \cup Bss
      <4>1. memory[u] # UNTOUCHED
        BY <2>1, <2>3, <3>2
      <4>2. IsStoredUnit(u)
        BY <2>1, <2>3, <4>1 DEF StoreInv, AllStored
      <4> QED BY <4>2 DEF IsStoredUnit
    <3> QED BY <3>1, <3>2
  <2> QED BY <2>1, <2>2, <2>3, SamePrograms DEF StoreInv, StoresInPlace
<1>4. CASE stage \in {"started", "lost"}
  BY <1>2, <1>4, Kinds DEF PowerOn, DiskNotReady, ReadSector, Loading, ReadFails, NextBlock,
                           BlockDone, PastTable, Start
<1>5. CASE stage \notin {"started", "lost"} /\ ~Start
  BY <1>1, <1>5, StoredByStep DEF StoreInv, StoresInPlace
<1> QED BY <1>3, <1>4, <1>5

\* A sector that is read leaves those alone that have been read before.
LEMMA LoadedByRead ==
  ASSUME BuildInv, DiskInv, AddressInv, LoadedInv, ReadSector, Clear,
         stage' = "loading", NEW i \in 1..at'.entry,
         NEW k \in 1..(IF i = at'.entry THEN info[i].count - at'.left ELSE info[i].count)
  PROVE  IsLoaded(i, k)'
<1>1. /\ stage = "loading" /\ at.left > 0 /\ UNCHANGED <<programs, info, drive>>
      /\ memory' = [u \in Units |-> IF u \in Destination(at) THEN SectorAt(at) ELSE memory[u]]
      /\ at' = [NextPlace(NextSector(at)) EXCEPT !.left = @ - 1, !.tries = RETRIES]
  BY DEF ReadSector, Loading
<1>2. drive \in Drives /\ OnDrive(at) /\ at \in Registers /\ at.entry <= Len(info)
  BY <1>1 DEF DiskInv, AddressInv
<1>3. at'.entry = at.entry /\ at'.left = at.left - 1
  BY <1>1, <1>2, ReadFacts
<1>4. WellAddressed
  BY DEF Clear
<1>5. PICK e : e = at.entry
  OBVIOUS
<1>6. PICK n : n = info[e].count - at.left + 1
  OBVIOUS
<1>7. e # 0 /\ e \in Nat /\ i \in 1..e /\ i \in Nat /\ at.left \in Nat
  BY <1>2, <1>3, <1>5 DEF Registers
<1>8. /\ e \in DOMAIN info /\ n \in 1..info[e].count
      /\ Destination(at) = From(e, n) .. (From(e, n) + SECTOR_SIZE - 1)
      /\ SectorAt(at) = Sector(e, n)
  BY <1>1, <1>4, <1>5, <1>6, <1>7, TargetFacts
<1>9. i \in DOMAIN info /\ info[i].count \in Nat /\ info[e].count \in Nat
      /\ Understood(i) /\ Understood(e)
  <2>1. i \in DOMAIN info
    BY <1>7, <1>8, SectorsFacts
  <2> QED BY <1>4, <1>8, <2>1, AreaFacts DEF WellAddressed
<1>10. k \in 1..info[i].count /\ (i = e => k <= n)
  <2>1. k \in 1..(IF i = e THEN info[i].count - (at.left - 1) ELSE info[i].count)
    BY <1>3, <1>5
  <2>2. CASE i = e
    <3>1. k \in 1..n
      BY <1>6, <1>7, <1>9, <2>1, <2>2
    <3> QED BY <1>8, <1>9, <2>2, <3>1
  <2>3. CASE i # e
    BY <2>1, <2>3
  <2> QED BY <2>2, <2>3
<1>11. /\ From(i, k) \in Nat /\ From(i, k) .. (From(i, k) + SECTOR_SIZE - 1) \subseteq Area(i)
       /\ SECTOR_SIZE \in Nat
  BY <1>9, <1>10, SectorFacts, BootSizes
<1>12. ASSUME NEW u \in 1..SECTOR_SIZE PROVE memory'[From(i, k) + u - 1] = Sector(i, k)
  <2> DEFINE a == From(i, k) + u - 1
  <2>1. a \in From(i, k) .. (From(i, k) + SECTOR_SIZE - 1)
    BY <1>11
  <2>2. a \in Area(i) /\ a \in Units
    BY <1>9, <1>11, <2>1, AreaFacts
  <2> HIDE DEF a
  <2>3. CASE i = e /\ k = n
    <3>1. a \in Destination(at)
      BY <1>8, <2>1, <2>3
    <3> QED BY <1>1, <1>8, <2>2, <2>3, <3>1 DEF a
  <2>4. CASE ~(i = e /\ k = n)
    <3>1. a \notin Destination(at)
      <4>1. CASE i = e
        <5>1. k \in 1..(n - 1)
          BY <1>8, <1>9, <1>10, <2>4, <4>1
        <5>2. From(e, k) + SECTOR_SIZE <= From(e, n) /\ From(e, n) \in Nat
          BY <1>8, <5>1, SectorFacts
        <5> QED BY <1>8, <1>11, <2>1, <4>1, <5>2
      <4>2. CASE i # e
        <5>1. i \in 1..(e - 1)
          BY <1>7, <4>2
        <5>2. Area(e) \cap Area(i) = {}
          BY <1>8, <5>1 DEF Clear
        <5>3. Destination(at) \subseteq Area(e)
          BY <1>8, SectorFacts
        <5> QED BY <2>2, <5>2, <5>3
      <4> QED BY <4>1, <4>2
    <3>2. memory[a] = Sector(i, k)
      <4>1. IsLoaded(i, k)
        <5>1. i \in 1..at.entry
          BY <1>5, <1>7
        <5>2. k \in 1..(IF i = at.entry THEN info[i].count - at.left ELSE info[i].count)
          <6>1. CASE i = e
            <7>1. k \in Nat /\ k # n /\ k <= n /\ k >= 1
              BY <1>8, <1>9, <1>10, <2>4, <6>1
            <7>2. n = info[e].count - at.left + 1
              BY <1>6
            <7> QED BY <1>5, <1>7, <1>9, <6>1, <7>1, <7>2
          <6>2. CASE i # e
            BY <1>5, <1>10, <6>2
          <6> QED BY <6>1, <6>2
        <5> QED BY <1>1, <5>1, <5>2 DEF LoadedInv
      <4> QED BY <4>1 DEF IsLoaded, From, a
    <3> QED BY <1>1, <2>2, <3>1, <3>2 DEF a
  <2> QED BY <2>3, <2>4
<1>13. Base(i)' = Base(i)
  BY <1>1 DEF Base
<1> QED BY <1>12, <1>13 DEF IsLoaded, From

LEMMA LoadedIsKept ==
  ASSUME BuildInv, DiskInv, AddressInv, LoadedInv, [BootNext]_bootVars
  PROVE  LoadedInv'
<1> SUFFICES ASSUME stage' = "loading", Clear',
                    NEW i \in 1..at'.entry,
                    NEW k \in 1..(IF i = at'.entry THEN info'[i].count - at'.left
                                  ELSE info'[i].count)
             PROVE  IsLoaded(i, k)'
  BY DEF LoadedInv
<1>1. CASE UNCHANGED <<stage, programs, info, drive, at, memory>>
  <2>1. IsLoaded(i, k)' = IsLoaded(i, k)
    BY <1>1 DEF IsLoaded, Base
  <2> QED BY <1>1, <2>1, SamePrograms DEF LoadedInv
<1>2. ASSUME NEW d \in Drives, PowerOn(d) PROVE FALSE
  BY <1>2 DEF PowerOn
<1>3. CASE ReadSector
  <2>1. info' = info /\ programs' = programs
    BY <1>3 DEF ReadSector
  <2> QED BY <1>3, <2>1, SamePrograms, LoadedByRead
<1>4. CASE ReadFails
  <2>1. /\ stage = "loading" /\ UNCHANGED <<programs, info, memory>>
        /\ at' = [at EXCEPT !.tries = TriesLeft(@)]
    BY <1>4 DEF ReadFails, Loading
  <2>2. at'.entry = at.entry /\ at'.left = at.left
    BY <2>1 DEF AddressInv, Registers
  <2>3. IsLoaded(i, k)' = IsLoaded(i, k)
    BY <2>1 DEF IsLoaded, Base
  <2> QED BY <2>1, <2>2, <2>3, SamePrograms DEF LoadedInv
<1>5. CASE NextBlock
  <2>1. PICK e : e = at.entry
    OBVIOUS
  <2>2. /\ stage = "loading" /\ at.left = 0 /\ UNCHANGED <<programs, info, memory>>
        /\ e + 1 \in DOMAIN info
        /\ at' = [at EXCEPT !.entry = e + 1, !.left = info[e + 1].count,
                            !.es = info[e + 1].segment, !.bx = info[e + 1].offset]
    BY <1>5, <2>1 DEF NextBlock, BlockDone, HasProgram, NextEntry
  <2>3. at'.entry = e + 1 /\ at'.left = info[e + 1].count /\ e \in Nat
    BY <2>1, <2>2 DEF AddressInv, Registers
  <2>4. info[e + 1].count \in Nat
    BY <2>2, AreaFacts
  <2>5. i # e + 1
    BY <2>2, <2>3, <2>4
  <2>6. i \in 1..e /\ k \in 1..info[i].count
    BY <2>2, <2>3, <2>5
  <2>7. i = e => info[i].count - at.left = info[i].count
    <3>1. i \in DOMAIN info
      BY <2>2, <2>3, <2>6, SectorsFacts
    <3> QED BY <2>2, <3>1, AreaFacts
  <2>8. IsLoaded(i, k)
    <3>1. Clear
      BY <2>2, SamePrograms
    <3>2. k \in 1..(IF i = at.entry THEN info[i].count - at.left ELSE info[i].count)
      BY <2>1, <2>6, <2>7
    <3> QED BY <2>1, <2>2, <2>6, <3>1, <3>2 DEF LoadedInv
  <2> QED BY <2>2, <2>8 DEF IsLoaded, Base
<1> QED BY <1>1, <1>2, <1>3, <1>4, <1>5, Kinds DEF DiskNotReady, PastTable, Start

\* The BSS and the tables of a system whose programs are well placed overwrite none of
\* them.
LEMMA ProgramsAreKept ==
  ASSUME BuildInv, MemoryInv, AddressInv, LoadedInv, ProgramsAreLoaded,
         [BootNext]_bootVars
  PROVE  ProgramsAreLoaded'
<1> SUFFICES ASSUME stage' = "started", WellPlaced' PROVE ProgramsAreLoaded'
  BY DEF ProgramsAreLoaded
<1>1. CASE UNCHANGED <<stage, programs, info, drive, at, memory>>
  <2>1. Bss' = Bss /\ TableIsFull' = TableIsFull
    BY <1>1 DEF Bss, TableIsFull
  <2>2. WellPlaced
    BY <1>1, <2>1, SamePrograms DEF WellPlaced, KeepClear
  <2> QED BY <1>1, <2>2 DEF ProgramsAreLoaded, InMemory, IsListed
<1>2. CASE Start
  <2>1. /\ stage = "loading" /\ at.left = 0 /\ ~HasProgram /\ UNCHANGED <<programs, info>>
        /\ memory' = [u \in Units |-> IF u \in TABLES \cup Bss THEN SYSTEM ELSE memory[u]]
    BY <1>2 DEF Start, BlockDone
  <2>2. Bss' = Bss
    <3>1. memory'[TARGET_ADDRESS] = memory[TARGET_ADDRESS]
      BY <2>1, BssFacts, UnitFacts
    <3> QED BY <2>1, <3>1 DEF Bss
  <2>3. /\ Clear
        /\ \A i \in DOMAIN info : Area(i) \cap (TABLES \cup Bss) = {}
    BY <2>1, <2>2, SamePrograms DEF WellPlaced, KeepClear, Clear
  <2>4. ASSUME NEW i \in DOMAIN info, IsListed(i) PROVE i \in 1..at.entry
    <3>1. at.entry \in Nat /\ Len(info) \in Nat /\ DOMAIN info = 1..Len(info)
      BY <2>1, SectorsFacts DEF AddressInv, Registers, BuildInv
    <3>2. SUFFICES ASSUME ~(i <= at.entry) PROVE FALSE
      BY <3>1
    <3>3. at.entry + 1 \in 1..i /\ at.entry + 1 \in DOMAIN info
      BY <3>1, <3>2
    <3>4. info[at.entry + 1].count # 0
      BY <2>4, <3>3 DEF IsListed
    <3> QED BY <2>1, <3>3, <3>4 DEF HasProgram, NextEntry
  <2>5. ASSUME NEW i \in DOMAIN info, IsListed(i),
               NEW k \in 1..programs[i].sectors, NEW u \in 1..SECTOR_SIZE
        PROVE  memory'[programs[i].address + (k - 1) * SECTOR_SIZE + u - 1] = Sector(i, k)
    <3>1. /\ info[i].count = programs[i].sectors /\ info[i].count \in Nat
          /\ Understood(i) /\ programs[i].address = Base(i)
      <4>1. Understood(i)
        BY <2>3 DEF Clear, WellAddressed
      <4> QED BY <4>1, AreaFacts
    <3>2. IsLoaded(i, k)
      <4>1. i \in 1..at.entry
        BY <2>4, <2>5
      <4>2. info[i].count - at.left = info[i].count
        BY <2>1, <3>1
      <4>3. k \in 1..(IF i = at.entry THEN info[i].count - at.left ELSE info[i].count)
        BY <3>1, <4>2
      <4> QED BY <2>1, <2>3, <4>1, <4>3 DEF LoadedInv
    <3> DEFINE a == From(i, k) + u - 1
    <3>3. a \in Area(i) /\ a \in Units
      <4>1. From(i, k) \in Nat /\ From(i, k) .. (From(i, k) + SECTOR_SIZE - 1) \subseteq Area(i)
        BY <3>1, SectorFacts
      <4>2. a \in From(i, k) .. (From(i, k) + SECTOR_SIZE - 1)
        BY <4>1, BootSizes
      <4> HIDE DEF a
      <4> QED BY <3>1, <4>1, <4>2, AreaFacts
    <3>4. memory[a] = Sector(i, k)
      BY <3>2 DEF IsLoaded, From
    <3>5. a = programs[i].address + (k - 1) * SECTOR_SIZE + u - 1
      BY <3>1 DEF From
    <3> HIDE DEF a
    <3>6. memory'[a] = memory[a]
      BY <2>1, <2>3, <3>3
    <3> QED BY <3>4, <3>5, <3>6
  <2> QED BY <2>1, <2>5 DEF ProgramsAreLoaded, InMemory, IsListed
<1> QED BY <1>1, <1>2, Kinds DEF PowerOn, DiskNotReady, ReadSector, ReadFails, Loading, NextBlock,
                                 BlockDone, PastTable

-----------------------------------------------------------------------------
(* The theorems.                                                           *)

LEMMA BootInitFacts ==
  ASSUME BootInit
  PROVE  BootInv
<1>1. stage = "building" /\ programs = <<>> /\ info = <<>> /\ memory = Untouched
  BY DEF BootInit, Untouched
<1>2. BuildInv
  <2>1. /\ programs \in Seq(Arguments) /\ info \in Seq(Record) /\ Len(info) = 0
        /\ Len(programs) = 0 /\ DOMAIN info = {}
    BY <1>1, EmptySeq
  <2> QED BY <2>1 DEF BuildInv
<1>3. MemoryInv
  <2>1. UNTOUCHED \in MemoryContents
    BY DEF MemoryContents, UNTOUCHED
  <2> QED BY <1>1, <2>1 DEF MemoryInv, Untouched
<1>4. DiskInv /\ AddressInv /\ LoadedInv /\ ProgramsAreLoaded
  BY <1>1 DEF DiskInv, AddressInv, LoadedInv, ProgramsAreLoaded
<1>5. StoreInv /\ StoresInPlace
  BY <1>1 DEF StoreInv, AllStored, StoresInPlace, Untouched
<1> QED BY <1>2, <1>3, <1>4, <1>5 DEF BootInv

LEMMA BootIsKept ==
  ASSUME BootInv, [BootNext]_bootVars
  PROVE  BootInv'
<1>1. /\ BuildInv /\ MemoryInv /\ DiskInv /\ AddressInv /\ StoreInv /\ LoadedInv
      /\ StoresInPlace /\ ProgramsAreLoaded
  BY DEF BootInv
<1>2. BuildInv'
  BY <1>1, BuildIsKept, Kinds DEF BuildStep, PowerOn, DiskNotReady, ReadSector, ReadFails,
                                  NextBlock, PastTable, Start
<1> QED BY <1>1, <1>2, MemoryIsKept, DiskIsKept, AddressIsKept, StoreIsKept, LoadedIsKept,
           ProgramsAreKept DEF BootInv

LEMMA BootIsSafe ==
  BootInit /\ [][BootNext]_bootVars => [](StoresInPlace /\ ProgramsAreLoaded)
<1>1. BootInit => BootInv
  BY BootInitFacts
<1>2. BootInv /\ [BootNext]_bootVars => BootInv'
  BY BootIsKept
<1>3. BootInv => StoresInPlace /\ ProgramsAreLoaded
  BY DEF BootInv
<1> QED BY <1>1, <1>2, <1>3, PTL

\* No step of building and loading stores outside of what the programs and the system
\* take, and of the programs nothing where there is no memory, whatever their number,
\* sizes and addresses (BuildImage.c:104-179, bootstrap.S:118-203, startup.S).
THEOREM StoresInPlaceHolds == BootSpec => []StoresInPlace
BY BootIsSafe, PTL DEF BootSpec

\* When the kernel is started, every program of the image is in memory at its address,
\* sector by sector, whatever drive it is read from and whatever reads had to be
\* repeated (BuildImage.c:104-179, bootstrap.S:118-203).
THEOREM ProgramsAreLoadedHolds == BootSpec => []ProgramsAreLoaded
BY BootIsSafe, PTL DEF BootSpec

-----------------------------------------------------------------------------
(* Picking characters, one at a time.                                      *)

IsPicked(h, t, S) ==
  /\ h[0] = <<>>
  /\ \A k \in 1..Len(t) : h[k] = IF k \in S THEN Append(h[k - 1], t[k]) ELSE h[k - 1]

LEMMA PickChain ==
  ASSUME NEW V, NEW t \in Seq(V), NEW S
  PROVE  \E h \in [0..Len(t) -> Seq(V)] : IsPicked(h, t, S) /\ Input!Pick(t, S) = h[Len(t)]
<1> DEFINE n == Len(t)
           s == [i \in DOMAIN t |-> i]
           A == Seq(V)
           B == 1..Len(t)
           G == [q \in A \X B |-> (IF q[2] \in S THEN Append(q[1], t[q[2]]) ELSE q[1])]
           F == CHOOSE f : f = [T \in SUBSET (1..n) |->
                  IF T = {} THEN <<>> ELSE (IF s[Max(T)] \in S THEN Append(f[T \ {Max(T)}], t[s[Max(T)]]) ELSE f[T \ {Max(T)}])]
<1>1. n \in Nat /\ s \in [1..n -> B] /\ DOMAIN s = 1..n /\ <<>> \in A
  BY LenProperties
<1>2. ASSUME NEW r \in A, NEW e \in B PROVE (IF e \in S THEN Append(r, t[e]) ELSE r) \in A
  BY <1>2, LenProperties, ElementOfSeq
<1>3. G \in [A \X B -> A]
  BY <1>2
<1>4. Input!Pick(t, S) = F[1..n]
  BY <1>1 DEF FoldLeft, MapThenFoldSet, Input!Pick, Input!FoldLeft, Input!MapThenFoldSet, Input!Max, Max
<1> HIDE DEF n, s, A, B
<1>5. F = [T \in SUBSET (1..n) |-> IF T = {} THEN <<>> ELSE (IF s[Max(T)] \in S THEN Append(F[T \ {Max(T)}], t[s[Max(T)]]) ELSE F[T \ {Max(T)}])]
  <2>1. PICK f \in [SUBSET (1..n) -> A] : IsFold(f, G, <<>>, s, n)
    <3> HIDE DEF G
    <3> QED BY <1>1, <1>3, FoldExists
  <2>2. ASSUME NEW T \in SUBSET (1..n), T # {}
        PROVE  G[<<f[T \ {Max(T)}], s[Max(T)]>>] = (IF s[Max(T)] \in S THEN Append(f[T \ {Max(T)}], t[s[Max(T)]]) ELSE f[T \ {Max(T)}])
    <3>1. Max(T) \in 1..n /\ T \ {Max(T)} \in SUBSET (1..n)
      BY <1>1, <2>2, MaxFacts
    <3>2. f[T \ {Max(T)}] \in A /\ s[Max(T)] \in B
      BY <1>1, <3>1
    <3> QED BY <3>2
  <2> HIDE DEF G
  <2>3. f = [T \in SUBSET (1..n) |-> IF T = {} THEN <<>> ELSE (IF s[Max(T)] \in S THEN Append(f[T \ {Max(T)}], t[s[Max(T)]]) ELSE f[T \ {Max(T)}])]
    BY <2>1, <2>2 DEF IsFold
  <2>4. \E g : g = [T \in SUBSET (1..n) |-> IF T = {} THEN <<>> ELSE (IF s[Max(T)] \in S THEN Append(g[T \ {Max(T)}], t[s[Max(T)]]) ELSE g[T \ {Max(T)}])]
    BY <2>3
  <2> QED BY <2>4
<1> HIDE DEF F
<1>6. IsFoldIn(A, F, G, <<>>, s, n)
  <2>1. F[{}] = <<>>
    BY <1>5
  <2>2. ASSUME NEW T \in SUBSET (1..n), T # {}, F[T \ {Max(T)}] \in A
        PROVE  F[T] = G[<<F[T \ {Max(T)}], s[Max(T)]>>]
    <3>1. Max(T) \in 1..n
      BY <1>1, <2>2, MaxFacts
    <3>2. F[T] = (IF s[Max(T)] \in S THEN Append(F[T \ {Max(T)}], t[s[Max(T)]]) ELSE F[T \ {Max(T)}]) /\ s[Max(T)] \in B
      BY <1>1, <1>5, <2>2, <3>1
    <3> QED BY <2>2, <3>2
  <2> HIDE DEF G
  <2> QED BY <2>1, <2>2 DEF IsFoldIn
<1> HIDE DEF G
<1>7. IsFoldEnd(A, F[1..n], G, <<>>, s, n)
  BY <1>1, <1>3, <1>6, FoldChain
<1>8. PICK h \in [0..n -> A] : IsFoldChain(h, G, <<>>, s, n) /\ F[1..n] = h[n]
  BY <1>7 DEF IsFoldEnd
<1>9. ASSUME NEW k \in 1..n
      PROVE  h[k] = IF k \in S THEN Append(h[k - 1], t[k]) ELSE h[k - 1]
  <2>1. h[k] = G[<<h[k - 1], s[k]>>] /\ k - 1 \in 0..n /\ s[k] \in B /\ s[k] = k
    BY <1>1, <1>8 DEF IsFoldChain, s, n
  <2>2. h[k - 1] \in A
    BY <1>8, <2>1
  <2> QED BY <2>1, <2>2 DEF G
<1>10. h[0] = <<>>
  BY <1>8 DEF IsFoldChain
<1> QED BY <1>4, <1>8, <1>9, <1>10 DEF IsPicked, n, A

\* What is picked of a sequence with one more character.
LEMMA PickAppend ==
  ASSUME NEW V, NEW t \in Seq(V), NEW c \in V, NEW S, NEW T,
         \A i \in 1..Len(t) : i \in S <=> i \in T
  PROVE  /\ Input!Pick(t, S) \in Seq(V)
         /\ Input!Pick(Append(t, c), T) = IF Len(t) + 1 \in T THEN Append(Input!Pick(t, S), c)
                                          ELSE Input!Pick(t, S)
<1> DEFINE n == Len(t)
           u == Append(t, c)
<1>1. n \in Nat /\ u \in Seq(V) /\ Len(u) = n + 1 /\ u[n + 1] = c /\ \A i \in 1..n : u[i] = t[i]
  BY AppendProperties, LenProperties
<1>2. PICK g \in [0..n -> Seq(V)] : IsPicked(g, t, S) /\ Input!Pick(t, S) = g[n]
  BY PickChain
<1>3. PICK h \in [0..Len(u) -> Seq(V)] : IsPicked(h, u, T) /\ Input!Pick(u, T) = h[Len(u)]
  BY <1>1, PickChain
<1> HIDE DEF u
<1> DEFINE E == {k \in 0..n : h[k] = g[k]}
<1>4. 0 \in E
  BY <1>1, <1>2, <1>3 DEF IsPicked
<1>5. ASSUME NEW k \in 0..(n - 1), k \in E PROVE k + 1 \in E
  <2>1. k + 1 \in 1..n /\ k + 1 \in 1..Len(u) /\ (k + 1) - 1 = k /\ k + 1 \in 0..n
    BY <1>1
  <2>2. g[k + 1] = IF k + 1 \in S THEN Append(g[k], t[k + 1]) ELSE g[k]
    BY <1>2, <2>1 DEF IsPicked
  <2>3. h[k + 1] = IF k + 1 \in T THEN Append(h[k], u[k + 1]) ELSE h[k]
    BY <1>3, <2>1 DEF IsPicked
  <2> QED BY <1>1, <1>5, <2>1, <2>2, <2>3
<1> HIDE DEF E
<1>6. n \in E
  <2>1. 0..n \subseteq E
    BY <1>1, <1>4, <1>5, IntervalInduction
  <2> QED BY <1>1, <2>1
<1>7. h[n] = g[n]
  BY <1>6 DEF E
<1>8. h[n + 1] = IF n + 1 \in T THEN Append(h[n], u[n + 1]) ELSE h[n]
  <2>1. n + 1 \in 1..Len(u) /\ (n + 1) - 1 = n
    BY <1>1
  <2> QED BY <1>3, <2>1 DEF IsPicked
<1>9. g[n] \in Seq(V)
  <2>1. n \in 0..n
    BY <1>1
  <2> HIDE DEF n
  <2> QED BY <1>2, <2>1
<1> QED BY <1>1, <1>2, <1>3, <1>7, <1>8, <1>9 DEF u

LEMMA PickIsSeq ==
  ASSUME NEW V, NEW t \in Seq(V), NEW S
  PROVE  Input!Pick(t, S) \in Seq(V)
<1>1. Len(t) \in 0..Len(t)
  BY LenProperties
<1> QED BY <1>1, PickChain

LEMMA PickNothing ==
  ASSUME NEW S
  PROVE  Input!Pick(<<>>, S) = <<>>
<1>1. <<>> \in Seq({}) /\ Len(<<>>) = 0
  OBVIOUS
<1>2. \A t \in Seq({}) :
        \E h \in [0..Len(t) -> Seq({})] : IsPicked(h, t, S) /\ Input!Pick(t, S) = h[Len(t)]
  BY PickChain
<1>3. PICK h : IsPicked(h, <<>>, S) /\ Input!Pick(<<>>, S) = h[Len(<<>>)]
  BY <1>1, <1>2
<1> QED BY <1>1, <1>3 DEF IsPicked

-----------------------------------------------------------------------------
(* Leaving out spaces, as ReadChar does with each character.               *)

\* A space behind s would be left out.
Spaced(s) == s = <<>> \/ s[Len(s)] = SPACE

Counts(s) == {i \in DOMAIN s : s[i] = SPACE => i > 1 /\ s[i - 1] # SPACE}

LEMMA SqueezedIs == \A s : Input!Squeezed(s) = Input!Pick(s, Counts(s))
BY DEF Input!Squeezed, Counts, Input!SPACE, SPACE

LEMMA SqueezeAppend ==
  ASSUME NEW V, NEW s \in Seq(V), NEW c \in V
  PROVE  /\ Input!Squeezed(s) \in Seq(V)
         /\ Input!Squeezed(Append(s, c)) = IF c = SPACE /\ Spaced(s) THEN Input!Squeezed(s)
                                           ELSE Append(Input!Squeezed(s), c)
         /\ Spaced(Append(s, c)) <=> c = SPACE
<1> DEFINE n == Len(s)
           t == Append(s, c)
<1>1. /\ n \in Nat /\ t \in Seq(V) /\ Len(t) = n + 1 /\ t[n + 1] = c
      /\ \A i \in 1..n : t[i] = s[i]
      /\ DOMAIN s = 1..n /\ DOMAIN t = 1..(n + 1)
  BY AppendProperties, LenProperties
<1> HIDE DEF t
<1>2. ASSUME NEW i \in 1..n PROVE i \in Counts(s) <=> i \in Counts(t)
  <2>1. i \in 1..(n + 1) /\ t[i] = s[i] /\ (i > 1 => i - 1 \in 1..n /\ t[i - 1] = s[i - 1])
    BY <1>1
  <2> QED BY <1>1, <2>1 DEF Counts
<1>3. n + 1 \in Counts(t) <=> ~(c = SPACE /\ Spaced(s))
  <2>1. n + 1 \in 1..(n + 1) /\ (n + 1) - 1 = n
    BY <1>1
  <2>2. n + 1 \in Counts(t) <=> (c = SPACE => n + 1 > 1 /\ t[n] # SPACE)
    BY <1>1, <2>1 DEF Counts
  <2>3. CASE n = 0
    <3>1. s = <<>>
      BY <2>3, EmptySeq
    <3> QED BY <2>2, <2>3, <3>1 DEF Spaced
  <2>4. CASE n # 0
    <3>1. s # <<>> /\ n + 1 > 1 /\ n \in 1..n
      BY <1>1, <2>4
    <3> QED BY <1>1, <2>2, <3>1 DEF Spaced
  <2> QED BY <2>3, <2>4
<1>4. /\ Input!Pick(s, Counts(s)) \in Seq(V)
      /\ Input!Pick(t, Counts(t)) = IF n + 1 \in Counts(t) THEN Append(Input!Pick(s, Counts(s)), c)
                                    ELSE Input!Pick(s, Counts(s))
  BY <1>2, PickAppend DEF t
<1>5. Spaced(t) <=> c = SPACE
  <2>1. t # <<>>
    BY <1>1
  <2> QED BY <1>1, <2>1 DEF Spaced
<1> QED BY <1>3, <1>4, <1>5, SqueezedIs DEF t

LEMMA SqueezeNothing == Input!Squeezed(<<>>) = <<>> /\ Spaced(<<>>)
BY SqueezedIs, PickNothing DEF Spaced

-----------------------------------------------------------------------------
(* Words, one character at a time.                                         *)

Quotes(s, i) == {j \in 1..(i - 1) : s[j] = QUOTE}
IsQuoted(s, i) == Cardinality(Quotes(s, i)) % 2 = 1
Breaks(s) == {i \in DOMAIN s : s[i] = SPACE /\ ~IsQuoted(s, i)}
Before(s, i) == {j \in Breaks(s) : j < i}
Places(s, k) ==
  {i \in DOMAIN s \ Breaks(s) : s[i] # QUOTE /\ Cardinality(Before(s, i)) = k - 1}

LEMMA CountsAreFinite ==
  ASSUME NEW V, NEW s \in Seq(V), NEW i \in Nat
  PROVE  /\ IsFiniteSet(Quotes(s, i)) /\ Cardinality(Quotes(s, i)) \in Nat
         /\ IsFiniteSet(Breaks(s)) /\ Cardinality(Breaks(s)) \in Nat
<1>1. IsFiniteSet(1..(i - 1)) /\ IsFiniteSet(1..Len(s)) /\ DOMAIN s = 1..Len(s)
  BY FS_Interval, LenProperties
<1>2. Quotes(s, i) \subseteq 1..(i - 1) /\ Breaks(s) \subseteq 1..Len(s)
  BY <1>1 DEF Quotes, Breaks
<1>3. IsFiniteSet(Quotes(s, i)) /\ IsFiniteSet(Breaks(s))
  BY <1>1, <1>2, FS_Subset
<1> QED BY <1>3, FS_CardinalityType

LEMMA SameCardinality == \A S : Input!Cardinality(S) = Cardinality(S)
BY DEF Input!Cardinality, Cardinality

LEMMA WordIs ==
  ASSUME NEW V, NEW s \in Seq(V), NEW k
  PROVE  Input!Word(s, k) = Input!Pick(s, Places(s, k))
<1>1. ASSUME NEW i \in DOMAIN s
      PROVE  Cardinality(Quotes(s, i)) % 2 = 0 <=> ~IsQuoted(s, i)
  <2>1. i \in Nat
    BY LenProperties
  <2>2. Cardinality(Quotes(s, i)) \in Nat
    BY <2>1, CountsAreFinite
  <2> QED BY <2>2 DEF IsQuoted
<1>2. Breaks(s) = {i \in DOMAIN s : s[i] = SPACE /\ Cardinality(Quotes(s, i)) % 2 = 0}
  BY <1>1 DEF Breaks
<1> DEFINE quotes(i) == Cardinality({j \in 1..(i - 1) : s[j] = QUOTE})
           breaks == {i \in DOMAIN s : s[i] = SPACE /\ quotes(i) % 2 = 0}
           before(i) == Cardinality({j \in breaks : j < i})
<1>3. Input!Word(s, k) = Input!Pick(s, {i \in DOMAIN s \ breaks : s[i] # QUOTE /\ before(i) = k - 1})
  BY SameCardinality DEF Input!Word, Input!SPACE, SPACE, Input!QUOTE, QUOTE
<1>4. breaks = Breaks(s)
  BY <1>2 DEF Quotes
<1>5. {i \in DOMAIN s \ breaks : s[i] # QUOTE /\ before(i) = k - 1} = Places(s, k)
  BY <1>4 DEF Places, Before
<1> QED BY <1>3, <1>5

\* A character c behind the n of s is in word k of t if that is where s ends.
PlacesGrow(s, c, n, t) ==
  \A k : /\ \A i \in 1..n : i \in Places(s, k) <=> i \in Places(t, k)
         /\ n + 1 \in Places(t, k) <=>
              /\ ~(c = SPACE /\ ~IsQuoted(s, n + 1)) /\ c # QUOTE
              /\ Cardinality(Breaks(s)) = k - 1

\* What one more character changes.
GrownCounts(s, c, n, t) ==
  /\ n \in Nat /\ Len(t) = n + 1
  /\ IsQuoted(t, n + 2) <=> IF c = QUOTE THEN ~IsQuoted(s, n + 1) ELSE IsQuoted(s, n + 1)
  /\ Cardinality(Breaks(t)) = IF c = SPACE /\ ~IsQuoted(s, n + 1)
                              THEN Cardinality(Breaks(s)) + 1 ELSE Cardinality(Breaks(s))
  /\ PlacesGrow(s, c, n, t)

LEMMA CountsGrow ==
  ASSUME NEW V, NEW s \in Seq(V), NEW c \in V, NEW n, n = Len(s), NEW t, t = Append(s, c)
  PROVE  GrownCounts(s, c, n, t)
<1>1. /\ n \in Nat /\ t \in Seq(V) /\ Len(t) = n + 1 /\ t[n + 1] = c
      /\ \A i \in 1..n : t[i] = s[i]
      /\ DOMAIN s = 1..n /\ DOMAIN t = 1..(n + 1)
  BY AppendProperties, LenProperties
<1>2. ASSUME NEW i \in 1..(n + 1)
      PROVE  Quotes(t, i) = Quotes(s, i) /\ (IsQuoted(t, i) <=> IsQuoted(s, i))
  <2>1. \A j \in 1..(i - 1) : t[j] = s[j]
    BY <1>1
  <2>2. Quotes(t, i) = Quotes(s, i)
    BY <2>1 DEF Quotes
  <2> QED BY <2>2 DEF IsQuoted
<1>3. /\ IsFiniteSet(Quotes(s, n + 1)) /\ Cardinality(Quotes(s, n + 1)) \in Nat
      /\ IsFiniteSet(Breaks(s)) /\ Cardinality(Breaks(s)) \in Nat
  <2>1. n + 1 \in Nat
    BY <1>1
  <2> QED BY <2>1, CountsAreFinite
<1>4. IsQuoted(t, n + 2) <=> IF c = QUOTE THEN ~IsQuoted(s, n + 1) ELSE IsQuoted(s, n + 1)
  <2> DEFINE Q == Quotes(s, n + 1)
  <2>1. (n + 2) - 1 = n + 1 /\ (n + 1) - 1 = n /\ \A j \in 1..(n + 1) : j = n + 1 \/ j \in 1..n
    BY <1>1
  <2>2. Quotes(t, n + 2) = IF c = QUOTE THEN Q \cup {n + 1} ELSE Q
    <3>1. Quotes(t, n + 2) = {j \in 1..(n + 1) : t[j] = QUOTE}
      BY <2>1 DEF Quotes
    <3>2. Q = {j \in 1..n : s[j] = QUOTE} /\ 1..n \subseteq 1..(n + 1) /\ n + 1 \in 1..(n + 1)
      BY <1>1, <2>1 DEF Quotes
    <3> HIDE DEF Q
    <3>3. \A j \in 1..n : t[j] = s[j] /\ j \in 1..(n + 1)
      BY <1>1, <3>2
    <3>4. n + 1 \notin 1..n
      BY <1>1
    <3>5. t[n + 1] = c
      BY <1>1
    <3>6. CASE c = QUOTE
      <4>1. \A j : j \in Quotes(t, n + 2) <=> j \in Q \/ j = n + 1
        BY <2>1, <3>1, <3>2, <3>3, <3>5, <3>6
      <4> QED BY <3>6, <4>1
    <3>7. CASE c # QUOTE
      <4>1. \A j : j \in Quotes(t, n + 2) <=> j \in Q
        BY <2>1, <3>1, <3>2, <3>3, <3>4, <3>5, <3>7
      <4> QED BY <3>7, <4>1
    <3> QED BY <3>6, <3>7
  <2>3. n + 1 \notin Q
    BY <1>1, <2>1 DEF Quotes
  <2>4. Cardinality(Q \cup {n + 1}) = Cardinality(Q) + 1
    BY <1>3, <2>3, FS_AddElement
  <2> HIDE DEF Q
  <2>5. \A m \in Nat : (m + 1) % 2 = 1 <=> ~(m % 2 = 1)
    OBVIOUS
  <2> QED BY <1>3, <2>2, <2>4, <2>5 DEF IsQuoted, Q
<1>5. Breaks(t) = IF c = SPACE /\ ~IsQuoted(s, n + 1) THEN Breaks(s) \cup {n + 1} ELSE Breaks(s)
  <2>1. /\ \A j \in 1..(n + 1) : j = n + 1 \/ j \in 1..n
        /\ 1..n \subseteq 1..(n + 1) /\ n + 1 \in 1..(n + 1) /\ n + 1 \notin 1..n
    BY <1>1
  <2>2. \A j \in 1..n : j \in Breaks(t) <=> j \in Breaks(s)
    BY <1>1, <1>2, <2>1 DEF Breaks
  <2>3. n + 1 \in Breaks(t) <=> c = SPACE /\ ~IsQuoted(s, n + 1)
    BY <1>1, <1>2, <2>1 DEF Breaks
  <2>4. Breaks(s) \subseteq 1..n /\ Breaks(t) \subseteq 1..(n + 1)
    BY <1>1 DEF Breaks
  <2>5. \A j : j \in Breaks(t) <=> \/ j = n + 1 /\ c = SPACE /\ ~IsQuoted(s, n + 1)
                                  \/ j \in Breaks(s)
    BY <2>1, <2>2, <2>3, <2>4
  <2> QED BY <2>5
<1>6. n + 1 \notin Breaks(s)
  BY <1>1 DEF Breaks
<1>7. Cardinality(Breaks(t)) = IF c = SPACE /\ ~IsQuoted(s, n + 1)
                               THEN Cardinality(Breaks(s)) + 1 ELSE Cardinality(Breaks(s))
  <2>1. Cardinality(Breaks(s) \cup {n + 1}) = Cardinality(Breaks(s)) + 1
    BY <1>3, <1>6, FS_AddElement
  <2> QED BY <1>5, <2>1
<1>8. ASSUME NEW i \in 1..(n + 1) PROVE Before(t, i) = Before(s, i)
  <2>1. ~(n + 1 < i)
    BY <1>1
  <2> QED BY <1>5, <2>1 DEF Before
<1>9. Before(s, n + 1) = Breaks(s)
  BY <1>1 DEF Before, Breaks
<1>10. ASSUME NEW k, NEW i \in 1..n PROVE i \in Places(s, k) <=> i \in Places(t, k)
  <2>1. i \in 1..(n + 1) /\ i # n + 1 /\ t[i] = s[i]
    BY <1>1
  <2>2. i \in Breaks(s) <=> i \in Breaks(t)
    BY <1>5, <2>1
  <2> QED BY <1>1, <1>8, <2>1, <2>2 DEF Places
<1>11. ASSUME NEW k
       PROVE  n + 1 \in Places(t, k) <=>
                /\ ~(c = SPACE /\ ~IsQuoted(s, n + 1)) /\ c # QUOTE
                /\ Cardinality(Breaks(s)) = k - 1
  <2>1. n + 1 \in 1..(n + 1)
    BY <1>1
  <2>2. n + 1 \in Breaks(t) <=> c = SPACE /\ ~IsQuoted(s, n + 1)
    BY <1>5, <1>6
  <2>3. Before(t, n + 1) = Breaks(s)
    BY <1>8, <1>9, <2>1
  <2> QED BY <1>1, <2>1, <2>2, <2>3 DEF Places
<1>12. PlacesGrow(s, c, n, t)
  BY <1>10, <1>11 DEF PlacesGrow
<1> QED BY <1>1, <1>4, <1>7, <1>12 DEF GrownCounts

LEMMA WordAppend ==
  ASSUME NEW V, NEW s \in Seq(V), NEW c \in V, NEW k
  PROVE  /\ Input!Word(s, k) \in Seq(V)
         /\ Input!Word(Append(s, c), k) =
              IF /\ ~(c = SPACE /\ ~IsQuoted(s, Len(s) + 1)) /\ c # QUOTE
                 /\ Cardinality(Breaks(s)) = k - 1
              THEN Append(Input!Word(s, k), c) ELSE Input!Word(s, k)
<1>0. PICK n, t : n = Len(s) /\ t = Append(s, c)
  OBVIOUS
<1>1. /\ \A i \in 1..n : i \in Places(s, k) <=> i \in Places(t, k)
      /\ n + 1 \in Places(t, k) <=>
           /\ ~(c = SPACE /\ ~IsQuoted(s, n + 1)) /\ c # QUOTE
           /\ Cardinality(Breaks(s)) = k - 1
  <2>1. PlacesGrow(s, c, n, t)
    BY <1>0, CountsGrow DEF GrownCounts
  <2> QED BY <2>1 DEF PlacesGrow
<1>2. /\ Input!Pick(s, Places(s, k)) \in Seq(V)
      /\ Input!Pick(t, Places(t, k)) = IF n + 1 \in Places(t, k)
                                       THEN Append(Input!Pick(s, Places(s, k)), c)
                                       ELSE Input!Pick(s, Places(s, k))
  BY <1>0, <1>1, PickAppend
<1>3. t \in Seq(V)
  BY <1>0, AppendProperties
<1>4. /\ Input!Word(s, k) = Input!Pick(s, Places(s, k))
      /\ Input!Word(t, k) = Input!Pick(t, Places(t, k))
  BY <1>3, WordIs
<1> QED BY <1>0, <1>1, <1>2, <1>4

LEMMA WordNothing ==
  /\ \A k : Input!Word(<<>>, k) = <<>>
  /\ Cardinality(Breaks(<<>>)) = 0 /\ ~IsQuoted(<<>>, 1) /\ Len(<<>>) = 0
<1>1. <<>> \in Seq({}) /\ Len(<<>>) = 0 /\ DOMAIN <<>> = {}
  OBVIOUS
<1>2. \A k : Input!Word(<<>>, k) = <<>>
  BY <1>1, WordIs, PickNothing
<1>3. Breaks(<<>>) = {} /\ Quotes(<<>>, 1) = {}
  <2>1. 1..(1 - 1) = {}
    OBVIOUS
  <2>2. \A S : S \subseteq {} => S = {}
    OBVIOUS
  <2>3. Breaks(<<>>) \subseteq {}
    BY <1>1 DEF Breaks
  <2>4. Quotes(<<>>, 1) \subseteq {}
    BY <2>1 DEF Quotes
  <2> QED BY <2>2, <2>3, <2>4
<1>4. Cardinality(Breaks(<<>>)) = 0 /\ Cardinality(Quotes(<<>>, 1)) = 0
  BY <1>3, FS_EmptySet
<1> QED BY <1>1, <1>2, <1>4 DEF IsQuoted

-----------------------------------------------------------------------------
(* Reading a line in pieces.                                               *)

\* A sequence in two parts, and behind another one.
LEMMA SplitAt ==
  ASSUME NEW V, NEW s \in Seq(V), NEW i \in 0..Len(s)
  PROVE  /\ s = SubSeq(s, 1, i) \o SubSeq(s, i + 1, Len(s))
         /\ SubSeq(s, 1, i) \in Seq(V) /\ Len(SubSeq(s, 1, i)) = i
         /\ \A j \in 1..i : SubSeq(s, 1, i)[j] = s[j]
         /\ SubSeq(s, i + 1, Len(s)) \in Seq(V)
<1>1. Len(s) \in Nat /\ \A j \in 1..Len(s) : s[j] \in V
  BY LenProperties, ElementOfSeq
<1>2. /\ SubSeq(s, 1, i) \in Seq(V)
      /\ Len(SubSeq(s, 1, i)) = IF 1 <= i THEN i - 1 + 1 ELSE 0
      /\ \A j \in 1..(i - 1 + 1) : SubSeq(s, 1, i)[j] = s[1 + j - 1]
  <2>1. 1 \in Int /\ i \in Int /\ \A j \in 1..i : s[j] \in V
    BY <1>1
  <2> QED BY <2>1, SubSeqProperties
<1>3. SubSeq(s, i + 1, Len(s)) \in Seq(V)
  <2>1. i + 1 \in Int /\ Len(s) \in Int /\ \A j \in (i + 1)..Len(s) : s[j] \in V
    BY <1>1
  <2> QED BY <2>1, SubSeqProperties
<1>4. s = SubSeq(s, 1, i) \o SubSeq(s, i + 1, Len(s))
  <2>1. 1 \in 1..(Len(s) + 1) /\ i \in (1 - 1)..Len(s) /\ Len(s) \in i..Len(s)
    BY <1>1
  <2> QED BY <2>1, ConcatAdjacentSubSeq, SubSeqFull
<1>5. i - 1 + 1 = i /\ (~(1 <= i) => i = 0) /\ \A j \in 1..i : 1 + j - 1 = j
  BY <1>1
<1> QED BY <1>2, <1>3, <1>4, <1>5

LEMMA BehindAnother ==
  ASSUME NEW V, NEW a \in Seq(V), NEW b \in Seq(V), NEW i \in 0..Len(b)
  PROVE  /\ SubSeq(a \o b, 1, Len(a) + i) = a \o SubSeq(b, 1, i)
         /\ SubSeq(a \o b, Len(a) + i + 1, Len(a \o b)) = SubSeq(b, i + 1, Len(b))
<1> DEFINE p == SubSeq(b, 1, i)
           t == a \o b
           u == SubSeq(t, 1, Len(a) + i)
           w == a \o p
<1>1. /\ Len(a) \in Nat /\ Len(b) \in Nat
      /\ t \in Seq(V) /\ Len(t) = Len(a) + Len(b)
      /\ \A j \in 1..(Len(a) + Len(b)) : t[j] = IF j <= Len(a) THEN a[j] ELSE b[j - Len(a)]
  BY LenProperties, ConcatProperties
<1>2. p \in Seq(V) /\ Len(p) = i /\ \A j \in 1..i : p[j] = b[j]
  BY SplitAt
<1> HIDE DEF p, t
<1>3. /\ w \in Seq(V) /\ Len(w) = Len(a) + i
      /\ \A j \in 1..(Len(a) + i) : w[j] = IF j <= Len(a) THEN a[j] ELSE p[j - Len(a)]
  BY <1>2, ConcatProperties
<1>4. Len(a) + i \in 0..Len(t)
  BY <1>1
<1>5. u \in Seq(V) /\ Len(u) = Len(a) + i /\ \A j \in 1..(Len(a) + i) : u[j] = t[j]
  BY <1>1, <1>4, SplitAt
<1> HIDE DEF u, w
<1>6. \A j \in 1..Len(u) : u[j] = w[j]
  <2> TAKE j \in 1..Len(u)
  <2>1. j \in 1..(Len(a) + i) /\ j \in 1..(Len(a) + Len(b)) /\ (j > Len(a) => j - Len(a) \in 1..i)
    BY <1>1, <1>5
  <2>2. u[j] = t[j] /\ t[j] = IF j <= Len(a) THEN a[j] ELSE b[j - Len(a)]
    BY <1>1, <1>5, <2>1
  <2>3. w[j] = IF j <= Len(a) THEN a[j] ELSE p[j - Len(a)]
    BY <1>3, <2>1
  <2>4. j > Len(a) => p[j - Len(a)] = b[j - Len(a)]
    BY <1>2, <2>1
  <2>5. j <= Len(a) \/ j > Len(a)
    BY <1>1
  <2> QED BY <2>2, <2>3, <2>4, <2>5
<1>7. u = w
  BY <1>3, <1>5, <1>6, SeqEqual
<1>8. SubSeq(t, Len(a) + i + 1, Len(t)) = SubSeq(b, i + 1, Len(b))
  <2>1. CASE i = Len(b)
    <3>1. Len(a) + i + 1 > Len(t) /\ Len(a) + i + 1 \in Int /\ Len(t) \in Int
          /\ i + 1 > Len(b) /\ i + 1 \in Int /\ Len(b) \in Int
      BY <1>1, <2>1
    <3>2. SubSeq(t, Len(a) + i + 1, Len(t)) = <<>>
      BY <3>1, SubSeqEmpty
    <3>3. SubSeq(b, i + 1, Len(b)) = <<>>
      BY <3>1, SubSeqEmpty
    <3> QED BY <3>2, <3>3
  <2>2. CASE i # Len(b)
    <3>1. /\ Len(a) + i + 1 \in (Len(a) + 1)..(Len(a) + Len(b))
          /\ Len(a) + Len(b) \in (Len(a) + 1)..(Len(a) + Len(b))
          /\ (Len(a) + i + 1) - Len(a) = i + 1 /\ (Len(a) + Len(b)) - Len(a) = Len(b)
      BY <1>1, <2>2
    <3>2. SubSeq(t, Len(a) + i + 1, Len(a) + Len(b)) = SubSeq(b, i + 1, Len(b))
      BY <3>1, SubSeqOfConcat2 DEF t
    <3> QED BY <1>1, <3>2
  <2> QED BY <2>1, <2>2
<1> QED BY <1>7, <1>8 DEF u, w, p, t

\* Where a newline is found.
IsEnd(chunk, end) ==
  \/ end = 0 /\ \A i \in 1..Len(chunk) : chunk[i] # NEWLINE
  \/ end \in 1..Len(chunk) /\ chunk[end] = NEWLINE /\ \A i \in 1..(end - 1) : chunk[i] # NEWLINE

LEMMA EndFacts ==
  ASSUME NEW V, NEW chunk \in Seq(V)
  PROVE  IsEnd(chunk, SelectInSeq(chunk, LAMBDA c : c = NEWLINE))
<1> DEFINE I == {i \in 1..Len(chunk) : chunk[i] = NEWLINE}
<1>1. SelectInSeq(chunk, LAMBDA c : c = NEWLINE) = IF I # {} THEN Min(I) ELSE 0
  BY DEF SelectInSeq
<1>2. Len(chunk) \in Nat
  BY LenProperties
<1>3. CASE I = {}
  BY <1>1, <1>3 DEF IsEnd
<1>4. CASE I # {}
  <2>1. I \subseteq Nat
    BY <1>2
  <2>2. Min(I) \in I /\ \A i \in I : Min(I) <= i
    BY <1>4, <2>1, MinFacts
  <2> DEFINE m == Min(I)
  <2>3. m \in I /\ \A i \in I : m <= i
    BY <2>2
  <2> HIDE DEF m
  <2>4. IsEnd(chunk, m)
    BY <1>2, <2>3 DEF IsEnd
  <2> QED BY <1>1, <1>4, <2>4 DEF m
<1> QED BY <1>3, <1>4

\* What the shell knows of a line of which it has read s.
State(s) == [result |-> Input!Squeezed(s), used |-> Spaced(s)]

LEMMA SqueezeState ==
  ASSUME NEW V, NEW s \in Seq(V)
  PROVE  State(s) \in [result : Seq(V), used : BOOLEAN]
<1>1. Input!Squeezed(s) \in Seq(V)
  BY PickIsSeq, SqueezedIs
<1> QED BY <1>1 DEF State, Spaced

LEMMA ReadCharIs ==
  ASSUME NEW V, NEW s \in Seq(V), NEW c \in V
  PROVE  ReadChar(State(s), c) = State(Append(s, c))
<1>1. /\ Input!Squeezed(Append(s, c)) = IF c = SPACE /\ Spaced(s) THEN Input!Squeezed(s)
                                           ELSE Append(Input!Squeezed(s), c)
      /\ Spaced(Append(s, c)) <=> c = SPACE
  BY SqueezeAppend
<1>2. Spaced(Append(s, c)) = (c = SPACE)
  BY <1>1 DEF Spaced
<1>3. CASE c = SPACE /\ Spaced(s)
  <2>1. Spaced(Append(s, c)) = Spaced(s)
    BY <1>2, <1>3 DEF Spaced
  <2> QED BY <1>1, <1>3, <2>1 DEF ReadChar, State
<1>4. CASE ~(c = SPACE /\ Spaced(s))
  BY <1>1, <1>2, <1>4 DEF ReadChar, State
<1> QED BY <1>3, <1>4

\* The state is that of the line, however the reads cut it into pieces.
LEMMA ReadCharsFacts ==
  ASSUME NEW V, NEW l \in Seq(V), NEW seen \in Seq(V)
  PROVE  FoldLeft(ReadChar, State(l), seen) = State(l \o seen)
<1> DEFINE start == State(l)
           n == Len(seen)
           s == seen
           A == [result : Seq(V), used : BOOLEAN]
           B == V
           G == [q \in A \X B |-> ReadChar(q[1], q[2])]
           F == CHOOSE f : f = [T \in SUBSET (1..n) |->
                  IF T = {} THEN start ELSE ReadChar(f[T \ {Max(T)}], s[Max(T)])]
<1>1. n \in Nat /\ s \in [1..n -> B] /\ DOMAIN s = 1..n /\ start \in A
  BY LenProperties, ElementOfSeq, SqueezeState
<1>2. ASSUME NEW r \in A, NEW e \in B PROVE ReadChar(r, e) \in A
  BY <1>2 DEF ReadChar
<1>3. G \in [A \X B -> A]
  BY <1>2
<1>4. FoldLeft(ReadChar, start, seen) = F[1..n]
  BY <1>1 DEF FoldLeft, MapThenFoldSet
<1> HIDE DEF n, s, A, B, start
<1>5. F = [T \in SUBSET (1..n) |-> IF T = {} THEN start ELSE ReadChar(F[T \ {Max(T)}], s[Max(T)])]
  <2>1. PICK f \in [SUBSET (1..n) -> A] : IsFold(f, G, start, s, n)
    <3> HIDE DEF G
    <3> QED BY <1>1, <1>3, FoldExists
  <2>2. ASSUME NEW T \in SUBSET (1..n), T # {}
        PROVE  G[<<f[T \ {Max(T)}], s[Max(T)]>>] = ReadChar(f[T \ {Max(T)}], s[Max(T)])
    <3>1. Max(T) \in 1..n /\ T \ {Max(T)} \in SUBSET (1..n)
      BY <1>1, <2>2, MaxFacts
    <3>2. f[T \ {Max(T)}] \in A /\ s[Max(T)] \in B
      BY <1>1, <3>1
    <3> QED BY <3>2
  <2> HIDE DEF G
  <2>3. f = [T \in SUBSET (1..n) |-> IF T = {} THEN start ELSE ReadChar(f[T \ {Max(T)}], s[Max(T)])]
    BY <2>1, <2>2 DEF IsFold
  <2>4. \E g : g = [T \in SUBSET (1..n) |-> IF T = {} THEN start ELSE ReadChar(g[T \ {Max(T)}], s[Max(T)])]
    BY <2>3
  <2> QED BY <2>4
<1> HIDE DEF F
<1>6. IsFoldIn(A, F, G, start, s, n)
  <2>1. F[{}] = start
    BY <1>5
  <2>2. ASSUME NEW T \in SUBSET (1..n), T # {}, F[T \ {Max(T)}] \in A
        PROVE  F[T] = G[<<F[T \ {Max(T)}], s[Max(T)]>>]
    <3>1. Max(T) \in 1..n
      BY <1>1, <2>2, MaxFacts
    <3>2. F[T] = ReadChar(F[T \ {Max(T)}], s[Max(T)]) /\ s[Max(T)] \in B
      BY <1>1, <1>5, <2>2, <3>1
    <3> QED BY <2>2, <3>2
  <2> HIDE DEF G
  <2> QED BY <2>1, <2>2 DEF IsFoldIn
<1> HIDE DEF G
<1>7. IsFoldEnd(A, F[1..n], G, start, s, n)
  BY <1>1, <1>3, <1>6, FoldChain
<1>8. PICK h \in [0..n -> A] : IsFoldChain(h, G, start, s, n) /\ F[1..n] = h[n]
  BY <1>7 DEF IsFoldEnd
<1>9. ASSUME NEW k \in 1..n
      PROVE  h[k] = ReadChar(h[k - 1], seen[k])
  <2>1. h[k] = G[<<h[k - 1], s[k]>>] /\ k - 1 \in 0..n /\ s[k] \in B /\ s[k] = seen[k]
    BY <1>1, <1>8 DEF IsFoldChain, s, n
  <2>2. h[k - 1] \in A
    BY <1>8, <2>1
  <2> QED BY <2>1, <2>2 DEF G
<1> DEFINE E == {k \in 0..n : h[k] = State(l \o SubSeq(seen, 1, k))}
<1>10. 0 \in E
  <2>0. 1 \in Int /\ 0 \in Int /\ 1 > 0
    OBVIOUS
  <2>3. SubSeq(seen, 1, 0) = <<>>
    BY <2>0, SubSeqEmpty
  <2>4. l \o <<>> = l
    BY ConcatEmptySeq
  <2>1. SubSeq(seen, 1, 0) = <<>> /\ l \o <<>> = l
    BY <2>3, <2>4
  <2>2. h[0] = State(l)
    BY <1>8 DEF IsFoldChain, start
  <2>5. h[0] = State(l \o SubSeq(seen, 1, 0))
    BY <2>1, <2>2
  <2>6. 0 \in 0..n
    BY <1>1
  <2> QED BY <2>5, <2>6
<1>11. ASSUME NEW k \in 0..(n - 1), k \in E PROVE k + 1 \in E
  <2>1. k + 1 \in 1..n /\ k + 1 \in 0..n /\ (k + 1) - 1 = k /\ k + 1 \in 1..Len(seen)
    BY <1>1 DEF n
  <2> DEFINE p == SubSeq(seen, 1, k)
  <2>2. /\ SubSeq(seen, 1, k + 1) = Append(p, seen[k + 1])
        /\ p \in Seq(V) /\ seen[k + 1] \in V
    BY <2>1, SubSeqGrows
  <2> HIDE DEF p
  <2>3. /\ l \o Append(p, seen[k + 1]) = Append(l \o p, seen[k + 1])
        /\ l \o p \in Seq(V)
    BY <2>2, AppendBehind
  <2>4. ReadChar(State(l \o p), seen[k + 1]) = State(Append(l \o p, seen[k + 1]))
    BY <2>2, <2>3, ReadCharIs
  <2>5. h[k + 1] = ReadChar(h[k], seen[k + 1])
    BY <1>9, <2>1
  <2>6. h[k] = State(l \o p)
    BY <1>11 DEF p
  <2>7. h[k + 1] = State(l \o SubSeq(seen, 1, k + 1))
    BY <2>2, <2>3, <2>4, <2>5, <2>6
  <2> QED BY <2>1, <2>7
<1> HIDE DEF E
<1>12. n \in E
  <2>1. 0..n \subseteq E
    BY <1>1, <1>10, <1>11, IntervalInduction
  <2> QED BY <1>1, <2>1
<1>13. SubSeq(seen, 1, n) = seen
  BY SubSeqFull DEF n
<1> QED BY <1>4, <1>8, <1>12, <1>13 DEF E, start

-----------------------------------------------------------------------------
(* What is true between two steps.                                         *)

Chars == DOMAIN Codes

\* While a line is read, what is known of it is the state of what was read.
ReadingLine ==
  /\ words = NO_WORDS /\ word = 1 /\ ~quoted
  /\ result = Input!Squeezed(line) /\ (used_space <=> Spaced(line))
  /\ \A i \in 1..Len(line) : line[i] # NEWLINE

\* The words are those of the characters of the line that were split, done.
IsSplit(done) ==
  /\ done \in Seq(Chars) /\ Input!Squeezed(line) = done \o result
  /\ words = [k \in 1..3 |-> Input!Word(done, k)]
  /\ word = IF Cardinality(Breaks(done)) < 3 THEN Cardinality(Breaks(done)) + 1 ELSE 4
  /\ quoted <=> IsQuoted(done, Len(done) + 1)

SplittingLine ==
  /\ used_space /\ line # <<>>
  /\ \E done : IsSplit(done)

NoLine ==
  /\ word = 1 /\ ~quoted /\ used_space
  /\ result = <<>> /\ line = <<>>

LineInv ==
  /\ phase = "boot" => ReadingLine /\ typed = <<>> /\ line = <<>>
  /\ phase = "reading" => ReadingLine
  /\ phase = "split" => SplittingLine
  /\ phase \in {"run", "answer", "gone"} => NoLine

ShellInv == ShellTypeOK /\ LineInv

AbsInput == IF phase = "reading" THEN line \o typed ELSE typed
AbsTaken == IF phase = "split" THEN line ELSE <<>>
AbsRunning == IF phase \in {"run", "answer"} THEN words ELSE NO_WORDS

\* A step of ShellAbs, or none.
AbsStep == Input!AbsNext \/ UNCHANGED Input!absVars

LEMMA NoWordsAre == Input!NO_WORDS = NO_WORDS
BY DEF Input!NO_WORDS, NO_WORDS

LEMMA NoStep ==
  ASSUME AbsInput' = AbsInput, AbsTaken' = AbsTaken, AbsRunning' = AbsRunning
  PROVE  AbsStep
BY NoWordsAre DEF AbsStep, AbsInput, AbsTaken, AbsRunning, Input!absVars

LEMMA DoneStep ==
  ASSUME AbsInput' = AbsInput, AbsTaken' = AbsTaken, AbsRunning' = NO_WORDS
  PROVE  AbsStep
<1>1. CASE AbsRunning = NO_WORDS
  BY <1>1, NoStep
<1>2. CASE AbsRunning # NO_WORDS
  <2>1. Input!Done
    BY <1>2, NoWordsAre DEF Input!Done, AbsInput, AbsTaken, AbsRunning
  <2> QED BY <2>1 DEF AbsStep, Input!AbsNext
<1> QED BY <1>1, <1>2

LEMMA StartStep ==
  ASSUME AbsInput' = AbsInput, AbsTaken # <<>>, AbsTaken' = <<>>,
         AbsRunning' = [k \in 1..3 |-> Input!Word(Input!Squeezed(AbsTaken), k)]
  PROVE  AbsStep
<1>1. Input!Start
  BY DEF Input!Start, AbsInput, AbsTaken, AbsRunning
<1> QED BY <1>1 DEF AbsStep, Input!AbsNext

LEMMA TypeStep ==
  ASSUME NEW l \in Lines,
         AbsInput' = AbsInput \o l, AbsTaken' = AbsTaken, AbsRunning' = AbsRunning
  PROVE  AbsStep
<1>1. Input!Type(l)
  BY DEF Input!Type, AbsInput, AbsTaken, AbsRunning
<1> QED BY <1>1 DEF AbsStep, Input!AbsNext

\* Character e of t is its first newline.
FirstNewline(t, e) == e \in DOMAIN t /\ t[e] = NEWLINE /\ \A i \in 1..(e - 1) : t[i] # NEWLINE

LEMMA TakeStep ==
  ASSUME NEW e \in Nat, NEW lost \in 0..(READ_SIZE - 1), e + lost <= Len(AbsInput),
         FirstNewline(AbsInput, e),
         AbsTaken = <<>>, AbsRunning = NO_WORDS, AbsRunning' = AbsRunning,
         AbsInput' = SubSeq(AbsInput, e + lost + 1, Len(AbsInput)),
         NEW l, l = SubSeq(AbsInput, 1, e - 1),
         AbsTaken' = IF Input!Squeezed(l) = <<>> THEN <<>> ELSE l
  PROVE  AbsStep
<1>1. Input!Take(e, lost)
  BY NoWordsAre DEF Input!Take, AbsInput, AbsTaken, AbsRunning, FirstNewline, NEWLINE, Input!NEWLINE
<1>2. e \in DOMAIN AbsInput
  BY DEF FirstNewline
<1>3. \E f \in DOMAIN AbsInput, m \in 0..(READ_SIZE - 1) :
        f + m <= Len(AbsInput) /\ Input!Take(f, m)
  BY <1>1, <1>2
<1> QED BY <1>3 DEF AbsStep, Input!AbsNext, AbsInput

-----------------------------------------------------------------------------
(* The steps.                                                              *)

\* Nothing of a line changes.
SameLine == UNCHANGED <<result, used_space, word, quoted, line>>

LEMMA SameReading ==
  ASSUME ReadingLine, SameLine, UNCHANGED words
  PROVE  ReadingLine'
BY DEF ReadingLine, SameLine, Spaced

KeptIsText(k) == \A p \in DOMAIN k : k[p] \in Seq(Seq(Chars))

LEMMA NoWordsFit ==
  ASSUME NEW V
  PROVE  <<>> \in Seq(V) /\ NO_WORDS \in [1..3 -> Seq(V)]
<1>1. <<>> \in Seq(V)
  OBVIOUS
<1> DEFINE e == <<>>
<1>2. NO_WORDS = <<e, e, e>> /\ e \in Seq(V)
  BY <1>1 DEF NO_WORDS
<1> HIDE DEF e
<1>3. DOMAIN <<e, e, e>> = 1..3 /\ <<e, e, e>> \in [1..3 -> Seq(V)]
  BY <1>2
<1> QED BY <1>1, <1>2, <1>3

\* The parts of the type invariant.
TypeParts ==
  /\ booted \in 0..BOOT_CALLS
  /\ phase \in {"boot", "reading", "split", "run", "answer", "gone"}
  /\ typed \in Seq(Chars) /\ result \in Seq(Chars) /\ line \in Seq(Chars)
  /\ used_space \in BOOLEAN
  /\ words \in [1..3 -> Seq(Chars)] /\ word \in 1..4 /\ quoted \in BOOLEAN
  /\ KeptIsText(kept)

LEMMA TypeIsParts == ShellTypeOK <=> TypeParts
BY DEF ShellTypeOK, TypeParts, KeptIsText, Chars

LEMMA TypeIsPartsNext == (ShellTypeOK <=> TypeParts)'
BY TypeIsParts, PTL

LEMMA ShellInitOK ==
  ASSUME ShellAssumption, ShellInit
  PROVE  ShellInv /\ Input!AbsInit
<1>1. <<>> \in Seq(Chars) /\ NO_WORDS \in [1..3 -> Seq(Chars)]
  BY NoWordsFit
<1>8. Len(<<>>) = 0 /\ 1..0 = {}
  OBVIOUS
<1>2. BOOT_CALLS = 14 /\ DOMAIN <<>> = {}
  BY DEF BOOT_CALLS
<1>3. ShellTypeOK
  <2>1. /\ booted = 0 /\ phase = "boot" /\ used_space = TRUE /\ word = 1 /\ quoted = FALSE
        /\ kept = <<>> /\ words = NO_WORDS /\ typed = <<>> /\ result = <<>> /\ line = <<>>
    BY DEF ShellInit
  <2>2. {typed, result, line} \subseteq Seq(Chars) /\ words \in [1..3 -> Seq(Chars)]
    BY <1>1, <2>1
  <2>3. booted \in 0..BOOT_CALLS /\ DOMAIN kept = {}
    BY <1>2, <2>1
  <2>5. word \in 1..4 /\ quoted \in BOOLEAN /\ used_space \in BOOLEAN
    <3>1. word \in 1..4
      BY <2>1
    <3>2. quoted \in BOOLEAN /\ used_space \in BOOLEAN
      BY <2>1, Zenon
    <3> QED BY <3>1, <3>2
  <2>6. KeptIsText(kept)
    BY <2>3 DEF KeptIsText
  <2>4. TypeParts
    BY <2>1, <2>2, <2>3, <2>5, <2>6 DEF TypeParts
  <2> QED BY <2>4, TypeIsParts
<1>4. ReadingLine
  BY <1>8, SqueezeNothing DEF ShellInit, ReadingLine
<1>5. LineInv
  BY <1>4 DEF ShellInit, LineInv
<1>6. <<>> \o <<>> = <<>>
  BY <1>1, ConcatEmptySeq
<1>7. Input!AbsInit
  BY <1>6, NoWordsAre DEF ShellInit, Input!AbsInit
<1> QED BY <1>3, <1>5, <1>7 DEF ShellInv

LEMMA BootStep ==
  ASSUME ShellInv, Boot
  PROVE  ShellInv' /\ AbsStep
<1>1. /\ phase = "boot" /\ phase' \in {"boot", "reading"} /\ booted' \in 0..BOOT_CALLS
      /\ UNCHANGED <<typed, lines, result, used_space, words, word, quoted, line, kept>>
  <2>1. booted \in 0..BOOT_CALLS /\ BOOT_CALLS = 14
    BY DEF ShellInv, ShellTypeOK, BOOT_CALLS
  <2>2. \/ booted' = booted + 1 /\ booted < BOOT_CALLS /\ phase' = phase
        \/ phase' = "reading" /\ booted' = booted
    BY DEF Boot
  <2>3. booted' \in 0..BOOT_CALLS
    BY <2>1, <2>2
  <2>4. /\ phase = "boot"
        /\ UNCHANGED <<typed, lines, result, used_space, words, word, quoted, line, kept>>
    BY DEF Boot, input, buffers
  <2> QED BY <2>2, <2>3, <2>4
<1>2. ShellTypeOK'
  BY <1>1 DEF ShellInv, ShellTypeOK
<1>3. ReadingLine /\ typed = <<>> /\ line = <<>>
  BY <1>1 DEF ShellInv, LineInv
<1>4. ReadingLine'
  BY <1>1, <1>3, SameReading DEF SameLine
<1>5. LineInv'
  BY <1>1, <1>3, <1>4 DEF LineInv
<1>6. AbsStep
  <2>1. line \o typed = typed /\ line' \o typed' = typed'
    <3>1. <<>> \in Seq({})
      OBVIOUS
    <3>2. <<>> \o <<>> = <<>>
      BY <3>1, ConcatEmptySeq
    <3> QED BY <1>1, <1>3, <3>2
  <2>2. AbsInput' = AbsInput /\ AbsTaken' = AbsTaken /\ AbsRunning' = AbsRunning
    BY <1>1, <2>1 DEF AbsInput, AbsTaken, AbsRunning
  <2> QED BY <2>2, NoStep
<1> QED BY <1>2, <1>5, <1>6 DEF ShellInv

LEMMA TypeLineStep ==
  ASSUME ShellAssumption, ShellInv, NEW l \in Lines, TypeLine(l)
  PROVE  ShellInv' /\ AbsStep
<1>1. /\ phase # "boot" /\ typed' = typed \o l
      /\ UNCHANGED <<booted, phase, result, used_space, words, word, quoted, line, kept>>
  BY DEF TypeLine, buffers
<1>2. l \in Seq(Chars) /\ typed \in Seq(Chars) /\ line \in Seq(Chars)
  BY DEF ShellInv, ShellTypeOK, ShellAssumption, Chars
<1>3. typed' \in Seq(Chars)
  BY <1>1, <1>2, ConcatProperties
<1>4. ShellTypeOK'
  BY <1>1, <1>3 DEF ShellInv, ShellTypeOK, Chars
<1>5. LineInv'
  <2>1. ReadingLine => ReadingLine'
    BY <1>1, SameReading DEF SameLine
  <2>2. SplittingLine => SplittingLine'
    BY <1>1 DEF SplittingLine, IsSplit
  <2>3. NoLine => NoLine'
    BY <1>1 DEF NoLine
  <2> QED BY <1>1, <2>1, <2>2, <2>3 DEF ShellInv, LineInv
<1>6. AbsStep
  <2>1. line \o (typed \o l) = (line \o typed) \o l
    <3>1. ASSUME NEW S, NEW s \in Seq(S), NEW t \in Seq(S), NEW u \in Seq(S)
          PROVE  s \o (t \o u) = (s \o t) \o u
      BY ConcatAssociative
    <3> QED BY ONLY <1>2, <3>1
  <2>2. AbsInput' = AbsInput \o l /\ AbsTaken' = AbsTaken /\ AbsRunning' = AbsRunning
    BY <1>1, <2>1 DEF AbsInput, AbsTaken, AbsRunning
  <2> QED BY <2>2, TypeStep
<1> QED BY <1>4, <1>5, <1>6 DEF ShellInv

\* What is left of a line once its words are known, or none was found.
LEMMA NoLineIsRead ==
  ASSUME NoLine, words = NO_WORDS
  PROVE  ReadingLine
<1>1. Len(<<>>) = 0 /\ 1..0 = {}
  OBVIOUS
<1> QED BY <1>1, SqueezeNothing DEF NoLine, ReadingLine

LEMMA EndOfLineStep ==
  ASSUME ShellInv, EndOfLine
  PROVE  ShellInv' /\ AbsStep
<1>1. /\ phase = "split" /\ result = <<>> /\ phase' = "run"
      /\ word' = 1 /\ quoted' = FALSE /\ line' = <<>>
      /\ UNCHANGED <<booted, typed, result, used_space, words, kept>>
  BY DEF EndOfLine, input
<1>2. /\ used_space /\ line # <<>>
      /\ \E done : IsSplit(done)
  BY <1>1 DEF ShellInv, LineInv, SplittingLine
<1>3. ShellTypeOK'
  <2>1. line' \in Seq(Chars)
    BY <1>1, NoWordsFit
  <2>2. TypeParts
    BY TypeIsParts DEF ShellInv
  <2>4. word' \in 1..4 /\ quoted' \in BOOLEAN
    <3>1. word' \in 1..4
      BY <1>1
    <3>2. quoted' \in BOOLEAN
      BY <1>1, Zenon
    <3> QED BY <3>1, <3>2
  <2>5. KeptIsText(kept')
    BY <1>1, <2>2 DEF TypeParts
  <2>3. TypeParts'
    BY <1>1, <2>1, <2>2, <2>4, <2>5 DEF TypeParts
  <2> QED BY <2>3, TypeIsPartsNext
<1>4. LineInv'
  BY <1>1, <1>2 DEF LineInv, NoLine
<1>5. AbsStep
  <2>1. PICK done : IsSplit(done)
    BY <1>2
  <2>2. done \o <<>> = done
    BY <2>1, ConcatEmptySeq DEF IsSplit
  <2>3. words = [k \in 1..3 |-> Input!Word(Input!Squeezed(line), k)]
    BY <1>1, <2>1, <2>2 DEF IsSplit
  <2>4. /\ AbsInput' = AbsInput /\ AbsTaken # <<>> /\ AbsTaken' = <<>>
        /\ AbsTaken = line /\ AbsRunning' = words
    BY <1>1, <1>2 DEF AbsInput, AbsTaken, AbsRunning
  <2> QED BY <2>3, <2>4, StartStep
<1> QED BY <1>3, <1>4, <1>5 DEF ShellInv

\* A command changes only what the files hold.
CommandFrame ==
  /\ phase = "run" /\ phase' \in {"answer", "gone"}
  /\ UNCHANGED <<booted, typed, result, used_space, words, word, quoted, line>>
  /\ KeptIsText(kept')

LEMMA CommandFrameStep ==
  ASSUME ShellInv, CommandFrame
  PROVE  ShellInv' /\ AbsStep
<1>1. ShellTypeOK'
  BY DEF ShellInv, ShellTypeOK, CommandFrame, KeptIsText, Chars
<1>2. LineInv'
  BY DEF ShellInv, LineInv, NoLine, CommandFrame
<1>3. /\ AbsInput' = AbsInput /\ AbsTaken' = AbsTaken
      /\ AbsRunning' = IF phase' = "answer" THEN AbsRunning ELSE NO_WORDS
  BY DEF CommandFrame, AbsInput, AbsTaken, AbsRunning
<1> QED BY <1>1, <1>2, <1>3, NoStep, DoneStep DEF ShellInv

LEMMA PrintAnswerStep ==
  ASSUME ShellInv, PrintAnswer
  PROVE  ShellInv' /\ AbsStep
<1>1. /\ phase = "answer" /\ phase' = "reading" /\ words' = NO_WORDS
      /\ UNCHANGED <<booted, typed, result, used_space, word, quoted, line, kept>>
  BY DEF PrintAnswer, input
<1>2. NoLine /\ typed \in Seq(Chars)
  BY <1>1 DEF ShellInv, LineInv, ShellTypeOK, Chars
<1>3. ShellTypeOK'
  <2>1. words' \in [1..3 -> Seq(Chars)]
    BY <1>1, NoWordsFit
  <2> QED BY <1>1, <2>1 DEF ShellInv, ShellTypeOK, Chars
<1>4. NoLine'
  BY <1>1, <1>2 DEF NoLine
<1>5. ReadingLine'
  <2>1. (NoLine /\ words = NO_WORDS => ReadingLine)'
    BY NoLineIsRead, PTL
  <2> QED BY <1>1, <1>4, <2>1
<1>6. LineInv'
  BY <1>1, <1>5 DEF LineInv
<1>7. AbsStep
  <2>1. line' \o typed' = typed
    <3>1. <<>> \o typed = typed
      BY <1>2, ConcatEmptySeq
    <3> QED BY <1>1, <1>2, <3>1 DEF NoLine
  <2>2. AbsInput' = AbsInput /\ AbsTaken' = AbsTaken /\ AbsRunning' = NO_WORDS
    BY <1>1, <2>1 DEF AbsInput, AbsTaken, AbsRunning
  <2> QED BY <2>2, DoneStep
<1> QED BY <1>3, <1>6, <1>7 DEF ShellInv

LEMMA KeepKeeps ==
  ASSUME ShellTypeOK, NEW texts \in Seq(Seq(Chars)), Keep(texts)
  PROVE  KeptIsText(kept')
<1> DEFINE f == Adjust(Target)
<1>1. kept' = [p \in DOMAIN kept \cup {f} |-> IF p = f THEN texts ELSE kept[p]]
  BY DEF Keep
<1>2. KeptIsText(kept)
  BY TypeIsParts DEF TypeParts
<1> HIDE DEF f
<1>3. ASSUME NEW p \in DOMAIN kept' PROVE kept'[p] \in Seq(Seq(Chars))
  <2>1. CASE p = f
    BY <1>1, <2>1
  <2>2. CASE p # f
    <3>1. p \in DOMAIN kept /\ kept'[p] = kept[p]
      BY <1>1, <1>3, <2>2
    <3> QED BY <1>2, <3>1 DEF KeptIsText
  <2> QED BY <2>1, <2>2
<1> QED BY <1>3 DEF KeptIsText

LEMMA ForgetKeeps ==
  ASSUME ShellTypeOK, Forget
  PROVE  KeptIsText(kept')
<1> DEFINE f == Adjust(Target)
<1>1. kept' = [p \in DOMAIN kept \ {f} |-> kept[p]]
  BY DEF Forget
<1>2. KeptIsText(kept)
  BY TypeIsParts DEF TypeParts
<1> HIDE DEF f
<1> QED BY <1>1, <1>2 DEF KeptIsText

LEMMA CommandStep ==
  ASSUME ShellInv, Command
  PROVE  ShellInv' /\ AbsStep
<1>0. SUFFICES CommandFrame
  BY CommandFrameStep
<1>1. /\ ShellTypeOK /\ KeptIsText(kept) /\ words[3] \in Seq(Chars)
  <2>1. TypeParts /\ ShellTypeOK
    BY TypeIsParts DEF ShellInv
  <2>2. 3 \in 1..3
    OBVIOUS
  <2> QED BY <2>1, <2>2 DEF TypeParts
<1>2. /\ <<>> \in Seq(Seq(Chars)) /\ <<words[3]>> \in Seq(Seq(Chars))
      /\ \A k \in Seq(Seq(Chars)) : Append(k, words[3]) \in Seq(Seq(Chars))
  BY <1>1, AppendProperties
<1> DEFINE OnFiles == /\ phase = "run" /\ phase' = "answer"
                      /\ UNCHANGED <<booted, input, buffers, answer>>
<1>3. ASSUME OnFiles, KeptIsText(kept') PROVE CommandFrame
  BY <1>3 DEF CommandFrame, input, buffers
<1>4. CASE List
  BY <1>1, <1>3, <1>4 DEF List, Run, Elsewhere
<1>5. CASE CreateNamed
  <2>1. OnFiles
    BY <1>5 DEF CreateNamed, Run, Elsewhere
  <2>2. Keep(<<>>) \/ UNCHANGED kept
    BY <1>5 DEF CreateNamed
  <2>3. KeptIsText(kept')
    BY <1>1, <1>2, <2>2, KeepKeeps
  <2> QED BY <1>3, <2>1, <2>3
<1>6. CASE DeleteNamed
  <2>1. OnFiles
    BY <1>6 DEF DeleteNamed, Run, Elsewhere
  <2>2. Forget \/ UNCHANGED kept
    BY <1>6 DEF DeleteNamed
  <2>3. KeptIsText(kept')
    BY <1>1, <2>2, ForgetKeeps
  <2> QED BY <1>3, <2>1, <2>3
<1>7. CASE WriteNamed
  <2>1. OnFiles
    BY <1>7 DEF WriteNamed, Run, Elsewhere
  <2>2. Keep(<<words[3]>>) \/ UNCHANGED kept
    BY <1>7 DEF WriteNamed
  <2>3. KeptIsText(kept')
    BY <1>1, <1>2, <2>2, KeepKeeps
  <2> QED BY <1>3, <2>1, <2>3
<1>8. CASE AppendNamed
  <2>1. OnFiles
    BY <1>8 DEF AppendNamed, Run, Elsewhere
  <2>2. \/ /\ Adjust(Target) \in DOMAIN kept
           /\ Keep(Append(kept[Adjust(Target)], words[3]))
        \/ Forget
        \/ UNCHANGED kept
    BY <1>8 DEF AppendNamed
  <2>3. ASSUME /\ Adjust(Target) \in DOMAIN kept
               /\ Keep(Append(kept[Adjust(Target)], words[3]))
        PROVE  KeptIsText(kept')
    <3>1. Append(kept[Adjust(Target)], words[3]) \in Seq(Seq(Chars))
      BY <1>1, <1>2, <2>3 DEF KeptIsText
    <3> QED BY <1>1, <2>3, <3>1, KeepKeeps
  <2>4. KeptIsText(kept')
    BY <1>1, <2>2, <2>3, ForgetKeeps
  <2> QED BY <1>3, <2>1, <2>4
<1>9. CASE ReadNamed
  BY <1>1, <1>3, <1>9 DEF ReadNamed, Run, Elsewhere
<1>10. CASE Hello
  BY <1>1, <1>10 DEF Hello, NotFiles, Elsewhere, CommandFrame, input, buffers
<1>11. CASE NoSuchCommand
  BY <1>1, <1>11 DEF NoSuchCommand, NotFiles, Elsewhere, CommandFrame, input, buffers
<1>13. Command <=> \/ List \/ CreateNamed \/ DeleteNamed \/ WriteNamed \/ AppendNamed
                   \/ ReadNamed \/ Hello \/ NoSuchCommand
  BY DEF Command
<1> HIDE DEF OnFiles
<1> QED BY <1>4, <1>5, <1>6, <1>7, <1>8, <1>9, <1>10, <1>11, <1>13

\* The first character moves from what is left to what is done.
LEMMA MoveFirst ==
  ASSUME NEW V, NEW s \in Seq(V), NEW r \in Seq(V), r # <<>>
  PROVE  /\ Head(r) \in V /\ Tail(r) \in Seq(V)
         /\ Append(s, Head(r)) \in Seq(V)
         /\ s \o r = Append(s, Head(r)) \o Tail(r)
<1> DEFINE c == Head(r)
           t == Tail(r)
<1>1. c \in V /\ t \in Seq(V) /\ <<c>> \in Seq(V)
  BY HeadTailProperties
<1>2. r = <<c>> \o t
  <2>1. Len(r) \in Nat /\ Len(r) # 0 /\ 1 \in 1..Len(r) /\ Len(r) \in 1..Len(r)
    BY EmptySeq, LenProperties
  <2>2. SubSeq(r, 1, Len(r)) = <<r[1]>> \o SubSeq(r, 1 + 1, Len(r))
    BY <2>1, SubSeqRecursiveFirst
  <2>3. SubSeq(r, 1, Len(r)) = r /\ t = SubSeq(r, 2, Len(r)) /\ c = r[1]
    BY SubSeqFull, TailIsSubSeq
  <2> QED BY <2>2, <2>3
<1>3. Append(s, c) = s \o <<c>> /\ Append(s, c) \in Seq(V)
  BY <1>1, AppendProperties, AppendIsConcat
<1> HIDE DEF c, t
<1>4. (s \o <<c>>) \o t = s \o (<<c>> \o t)
  BY ONLY <1>1, s \in Seq(V), ConcatAssociative
<1> QED BY <1>1, <1>2, <1>3, <1>4 DEF c, t

LEMMA WordIsSeq ==
  ASSUME NEW V, NEW s \in Seq(V), NEW k
  PROVE  Input!Word(s, k) \in Seq(V)
BY WordIs, PickIsSeq

\* Which word the next character is in, after m breaks.
WordAfter(m) == IF m < 3 THEN m + 1 ELSE 4

LEMMA NextWordIs ==
  ASSUME NEW m \in Nat
  PROVE  NextWord(WordAfter(m)) = WordAfter(m + 1)
<1> DEFINE w == WordAfter(m)
<1>1. w \in 1..4 /\ WordAfter(m + 1) = IF w < 4 THEN w + 1 ELSE 4
  BY DEF WordAfter
<1> HIDE DEF w
<1>2. Min({w + 1, 4}) = IF w + 1 <= 4 THEN w + 1 ELSE 4
  BY <1>1, MinMaxOfTwo
<1> QED BY <1>1, <1>2 DEF NextWord, w

LEMMA SplitWords ==
  ASSUME NEW done \in Seq(Chars), NEW c \in Chars, NEW breaks \in BOOLEAN,
         words = [k \in 1..3 |-> Input!Word(done, k)],
         NEW m \in Nat, m = Cardinality(Breaks(done)), word = WordAfter(m),
         breaks <=> c = SPACE /\ ~IsQuoted(done, Len(done) + 1)
  PROVE  (IF c = QUOTE \/ breaks THEN words ELSE WithCharacter(c))
           = [k \in 1..3 |-> Input!Word(Append(done, c), k)]
<1>1. \A k : Input!Word(Append(done, c), k) =
               IF ~breaks /\ c # QUOTE /\ m = k - 1
               THEN Append(Input!Word(done, k), c) ELSE Input!Word(done, k)
  BY WordAppend
<1>2. CASE c = QUOTE \/ breaks
  BY <1>1, <1>2
<1>3. CASE ~(c = QUOTE \/ breaks)
  <2>1. DOMAIN words = 1..3 /\ \A k \in 1..3 : words[k] = Input!Word(done, k)
    OBVIOUS
  <2>2. \A k \in 1..3 : word = k <=> m = k - 1
    BY DEF WordAfter
  <2>3. \A k \in 1..3 : Input!Word(Append(done, c), k) =
                          IF word = k THEN Append(words[k], c) ELSE words[k]
    BY <1>1, <1>3, <2>1, <2>2
  <2>4. WithCharacter(c) = [k \in 1..3 |-> IF word = k THEN Append(words[k], c) ELSE words[k]]
    <3>1. CASE word \in 1..3
      <4>1. WithCharacter(c) = [words EXCEPT ![word] = Append(words[word], c)]
        BY <2>1, <3>1 DEF WithCharacter
      <4>2. words = [k \in 1..3 |-> words[k]]
        BY <2>1
      <4> QED BY <2>1, <3>1, <4>1, <4>2
    <3>2. CASE word \notin 1..3
      <4>1. WithCharacter(c) = words
        BY <2>1, <3>2 DEF WithCharacter
      <4>2. words = [k \in 1..3 |-> words[k]]
        BY <2>1
      <4> QED BY <3>2, <4>1, <4>2
    <3> QED BY <3>1, <3>2
  <2> QED BY <1>3, <2>3, <2>4
<1> QED BY <1>2, <1>3

LEMMA SplitLineStep ==
  ASSUME ShellInv, SplitLine
  PROVE  ShellInv' /\ AbsStep
<1>1. PICK c, breaks : c = Head(result) /\ breaks = (c = SPACE /\ ~quoted)
  OBVIOUS
<1>2. /\ phase = "split" /\ result # <<>> /\ result' = Tail(result)
      /\ UNCHANGED <<booted, phase, typed, used_space, line, kept>>
  BY DEF SplitLine, input
<1>3. /\ quoted' = IF c = QUOTE THEN ~quoted ELSE quoted
      /\ word' = IF breaks THEN NextWord(word) ELSE word
      /\ words' = IF c = QUOTE \/ breaks THEN words ELSE WithCharacter(c)
  BY <1>1 DEF SplitLine
<1>4. TypeParts /\ used_space /\ line # <<>> /\ \E done : IsSplit(done)
  BY <1>2, TypeIsParts DEF ShellInv, LineInv, SplittingLine
<1>5. PICK done : IsSplit(done)
  BY <1>4
<1>6. /\ done \in Seq(Chars) /\ Input!Squeezed(line) = done \o result
      /\ words = [k \in 1..3 |-> Input!Word(done, k)]
      /\ word = WordAfter(Cardinality(Breaks(done)))
      /\ quoted <=> IsQuoted(done, Len(done) + 1)
  BY <1>5 DEF IsSplit, WordAfter
<1>7. PICK m, after : m = Cardinality(Breaks(done)) /\ after = Append(done, c)
  OBVIOUS
<1>8. /\ c \in Chars /\ Tail(result) \in Seq(Chars) /\ after \in Seq(Chars)
      /\ done \o result = after \o Tail(result)
  <2>1. result \in Seq(Chars)
    BY <1>4 DEF TypeParts
  <2> QED BY <1>1, <1>2, <1>6, <1>7, <2>1, MoveFirst
<1>9. /\ m \in Nat /\ Len(after) = Len(done) + 1 /\ Len(done) \in Nat
      /\ IsQuoted(after, Len(done) + 2) <=> IF c = QUOTE THEN ~quoted ELSE quoted
      /\ Cardinality(Breaks(after)) = IF breaks THEN m + 1 ELSE m
  <2>1. m \in Nat
    BY <1>6, <1>7, CountsAreFinite
  <2>2. PICK n : n = Len(done)
    OBVIOUS
  <2>3. GrownCounts(done, c, n, after)
    <3>1. done \in Seq(Chars) /\ c \in Chars /\ after = Append(done, c)
      BY <1>6, <1>7, <1>8
    <3> QED BY ONLY <2>2, <3>1, CountsGrow
  <2> QED BY <1>1, <1>6, <1>7, <2>1, <2>2, <2>3 DEF GrownCounts
<1>10. words' = [k \in 1..3 |-> Input!Word(after, k)]
  <2>1. breaks \in BOOLEAN /\ (breaks <=> c = SPACE /\ ~IsQuoted(done, Len(done) + 1))
    BY <1>1, <1>6
  <2> QED BY <1>3, <1>6, <1>7, <1>8, <1>9, <2>1, SplitWords
<1>11. word' = WordAfter(Cardinality(Breaks(after)))
  BY <1>3, <1>6, <1>7, <1>9, NextWordIs
<1>12. quoted' <=> IsQuoted(after, Len(after) + 1)
  <2>1. Len(after) + 1 = Len(done) + 2
    BY <1>9
  <2> QED BY <1>3, <1>9, <2>1
<1>13. IsSplit(after)'
  <2>1. Input!Squeezed(line') = after \o result'
    BY <1>2, <1>6, <1>8
  <2> QED BY <1>8, <1>10, <1>11, <1>12, <2>1 DEF IsSplit, WordAfter
<1>14. LineInv'
  <2>1. SplittingLine'
    BY <1>2, <1>4, <1>13 DEF SplittingLine
  <2> QED BY <1>2, <2>1 DEF LineInv
<1>15. ShellTypeOK'
  <2>1. \A k \in 1..3 : Input!Word(after, k) \in Seq(Chars)
    BY <1>8, WordIsSeq
  <2>2. words' \in [1..3 -> Seq(Chars)]
    BY <1>10, <2>1
  <2>3. word' \in 1..4
    BY <1>9, <1>11 DEF WordAfter
  <2>4. quoted' \in BOOLEAN
    <3>1. quoted \in BOOLEAN
      BY <1>4 DEF TypeParts
    <3> QED BY <1>3, <3>1, Zenon
  <2>5. TypeParts'
    BY <1>2, <1>4, <1>8, <2>2, <2>3, <2>4 DEF TypeParts
  <2> QED BY <2>5, TypeIsPartsNext
<1>16. AbsInput' = AbsInput /\ AbsTaken' = AbsTaken /\ AbsRunning' = AbsRunning
  BY <1>2 DEF AbsInput, AbsTaken, AbsRunning
<1> QED BY <1>14, <1>15, <1>16, NoStep DEF ShellInv

LEMMA SameTruth ==
  ASSUME NEW a \in BOOLEAN, NEW b \in BOOLEAN, a <=> b
  PROVE  a = b
OBVIOUS

LEMMA SubSeqTwice ==
  ASSUME NEW V, NEW s \in Seq(V), NEW n \in 0..Len(s), NEW i \in 0..n
  PROVE  SubSeq(SubSeq(s, 1, n), 1, i) = SubSeq(s, 1, i)
<1> DEFINE p == SubSeq(s, 1, n)
           q == SubSeq(p, 1, i)
           r == SubSeq(s, 1, i)
<1>1. Len(s) \in Nat /\ n \in Nat /\ i \in 0..Len(s)
  BY LenProperties
<1>2. p \in Seq(V) /\ Len(p) = n /\ \A j \in 1..n : p[j] = s[j]
  BY SplitAt
<1>3. r \in Seq(V) /\ Len(r) = i /\ \A j \in 1..i : r[j] = s[j]
  BY <1>1, SplitAt
<1> HIDE DEF p, r
<1>4. q \in Seq(V) /\ Len(q) = i /\ \A j \in 1..i : q[j] = p[j]
  BY <1>2, SplitAt
<1> HIDE DEF q
<1>5. \A j \in 1..Len(q) : q[j] = r[j]
  BY <1>1, <1>2, <1>3, <1>4
<1>6. q = r
  BY <1>3, <1>4, <1>5, SeqEqual
<1> QED BY <1>6 DEF p, q, r

\* What a read of chunk, the first of t, changes; r is what is known of the line.
IsRead(n, chunk, end, seen, read) ==
  /\ n <= Len(typed) /\ chunk = SubSeq(typed, 1, n) /\ IsEnd(chunk, end)
  /\ seen = IF end = 0 THEN chunk ELSE SubSeq(chunk, 1, end - 1)
  /\ read = FoldLeft(ReadChar, [result |-> result, used |-> used_space], seen)
  /\ typed' = SubSeq(typed, n + 1, Len(typed))
  /\ result' = read.result
  /\ used_space' = (end # 0 \/ read.used)

LEMMA ReadInputIs ==
  ASSUME NEW n \in 1..READ_SIZE, ReadInput(n), TypeParts, ShellAssumption
  PROVE  \E chunk, end, seen, read :
           /\ IsRead(n, chunk, end, seen, read)
           /\ phase' = IF end # 0 /\ read.result # <<>> THEN "split" ELSE "reading"
           /\ line' = IF end = 0 \/ read.result # <<>> THEN line \o seen ELSE <<>>
<1>1. PICK chunk : chunk = SubSeq(typed, 1, n)
  OBVIOUS
<1>2. n <= Len(typed) /\ n \in 0..Len(typed)
  <2>1. n <= Len(typed) /\ n \in Nat
    BY DEF ReadInput, ShellAssumption
  <2>2. Len(typed) \in Nat
    BY LenProperties DEF TypeParts
  <2> QED BY <2>1, <2>2
<1>3. PICK end : end = SelectInSeq(chunk, LAMBDA c : c = NEWLINE)
  OBVIOUS
<1>4. IsEnd(chunk, end)
  <2>1. chunk \in Seq(Chars)
    BY <1>1, <1>2, SplitAt DEF TypeParts
  <2> QED BY <1>3, <2>1, EndFacts
<1>5. PICK seen : seen = IF end = 0 THEN chunk ELSE SubSeq(chunk, 1, end - 1)
  OBVIOUS
<1>6. PICK read : read = FoldLeft(ReadChar, [result |-> result, used |-> used_space], seen)
  OBVIOUS
<1>7. /\ typed' = SubSeq(typed, n + 1, Len(typed))
      /\ phase' = IF end # 0 /\ read.result # <<>> THEN "split" ELSE "reading"
      /\ result' = read.result
      /\ used_space' = (end # 0 \/ read.used)
      /\ line' = IF (end # 0 /\ read.result # <<>>) \/ end = 0 THEN line \o seen ELSE <<>>
  BY <1>1, <1>3, <1>5, <1>6 DEF ReadInput, NothingEntered
<1>8. IsRead(n, chunk, end, seen, read)
  BY <1>1, <1>2, <1>4, <1>5, <1>6, <1>7 DEF IsRead
<1> QED BY <1>7, <1>8

LEMMA ReadInputStep ==
  ASSUME ShellAssumption, ShellInv, NEW n \in 1..READ_SIZE, ReadInput(n)
  PROVE  ShellInv' /\ AbsStep
<1>1. /\ phase = "reading"
      /\ UNCHANGED <<booted, words, word, quoted, kept>>
  BY DEF ReadInput
<1>2. TypeParts /\ ReadingLine
  BY <1>1, TypeIsParts DEF ShellInv, LineInv
<1>3. PICK chunk, end, seen, read :
           /\ IsRead(n, chunk, end, seen, read)
           /\ phase' = IF end # 0 /\ read.result # <<>> THEN "split" ELSE "reading"
           /\ line' = IF end = 0 \/ read.result # <<>> THEN line \o seen ELSE <<>>
  BY <1>2, ReadInputIs
<1>4. /\ typed \in Seq(Chars) /\ line \in Seq(Chars) /\ Len(typed) \in Nat /\ Len(line) \in Nat
      /\ n \in Nat /\ n # 0 /\ n <= READ_SIZE /\ READ_SIZE \in Nat
  <2>1. typed \in Seq(Chars) /\ line \in Seq(Chars)
    BY <1>2 DEF TypeParts
  <2> QED BY <2>1, LenProperties DEF ShellAssumption
<1>5. n <= Len(typed) /\ n \in 0..Len(typed)
  BY <1>3, <1>4 DEF IsRead
<1>6. /\ chunk = SubSeq(typed, 1, n) /\ chunk \in Seq(Chars) /\ Len(chunk) = n
      /\ \A j \in 1..n : chunk[j] = typed[j]
      /\ typed' \in Seq(Chars) /\ typed = chunk \o typed'
  BY <1>3, <1>4, <1>5, SplitAt DEF IsRead
<1>7. IsEnd(chunk, end) /\ end \in 0..n
  <2>1. IsEnd(chunk, end)
    BY <1>3 DEF IsRead
  <2> QED BY <1>4, <1>6, <2>1 DEF IsEnd
<1>8. /\ seen \in Seq(Chars) /\ \A i \in 1..Len(seen) : seen[i] # NEWLINE
      /\ Len(seen) = IF end = 0 THEN n ELSE end - 1
  <2>1. CASE end = 0
    <3>1. seen = chunk
      BY <1>3, <2>1 DEF IsRead
    <3> QED BY <1>6, <1>7, <2>1, <3>1 DEF IsEnd
  <2>2. CASE end # 0
    <3>1. end - 1 \in 0..n /\ seen = SubSeq(chunk, 1, end - 1)
      BY <1>3, <1>4, <1>7, <2>2 DEF IsRead
    <3>2. PICK m : m = end - 1
      OBVIOUS
    <3>3. chunk \in Seq(Chars) /\ m \in 0..Len(chunk) /\ seen = SubSeq(chunk, 1, m)
      BY <1>6, <3>1, <3>2
    <3>4. /\ seen \in Seq(Chars) /\ Len(seen) = m
          /\ \A j \in 1..m : seen[j] = chunk[j]
      BY ONLY <3>3, SplitAt
    <3> QED BY <1>7, <2>2, <3>2, <3>4 DEF IsEnd
  <2> QED BY <2>1, <2>2
<1>9. PICK all : all = line \o seen
  OBVIOUS
<1>10. /\ all \in Seq(Chars) /\ Len(all) = Len(line) + Len(seen)
       /\ \A i \in 1..Len(all) : all[i] # NEWLINE
  <2>1. /\ all \in Seq(Chars) /\ Len(all) = Len(line) + Len(seen)
        /\ \A i \in 1..(Len(line) + Len(seen)) :
             all[i] = IF i <= Len(line) THEN line[i] ELSE seen[i - Len(line)]
    <3>1. line \in Seq(Chars) /\ seen \in Seq(Chars) /\ all = line \o seen
      BY <1>4, <1>8, <1>9
    <3> QED BY ONLY <3>1, ConcatProperties
  <2>2. ASSUME NEW i \in 1..Len(all) PROVE all[i] # NEWLINE
    <3>0. Len(seen) \in Nat
      BY <1>8, LenProperties
    <3>1. CASE i <= Len(line)
      <4>1. i \in 1..Len(line) /\ all[i] = line[i]
        BY <1>4, <2>1, <3>0, <3>1
      <4> QED BY <1>2, <4>1 DEF ReadingLine
    <3>2. CASE i > Len(line)
      <4>1. i - Len(line) \in 1..Len(seen) /\ all[i] = seen[i - Len(line)]
        BY <1>4, <2>1, <3>0, <3>2
      <4> QED BY <1>8, <4>1
    <3> QED BY <1>4, <3>1, <3>2
  <2> QED BY <2>1, <2>2
<1>11. read = State(all)
  <2>1. used_space = Spaced(line) /\ result = Input!Squeezed(line)
    <3>1. used_space \in BOOLEAN /\ (used_space <=> Spaced(line)) /\ Spaced(line) \in BOOLEAN
      BY <1>2 DEF TypeParts, ReadingLine, Spaced
    <3>3. used_space = Spaced(line)
      BY <3>1, SameTruth
    <3> QED BY <1>2, <3>3 DEF ReadingLine
  <2>2. [result |-> result, used |-> used_space] = State(line)
    BY <2>1 DEF State
  <2>3. read = FoldLeft(ReadChar, [result |-> result, used |-> used_space], seen)
    BY <1>3 DEF IsRead
  <2>4. FoldLeft(ReadChar, State(line), seen) = State(line \o seen)
    BY <1>4, <1>8, ReadCharsFacts
  <2> QED BY <1>9, <2>2, <2>3, <2>4
<1>12. /\ read.result = Input!Squeezed(all) /\ read.used = Spaced(all)
       /\ read.result \in Seq(Chars) /\ read.used \in BOOLEAN
  <2>1. State(all) \in [result : Seq(Chars), used : BOOLEAN]
    BY <1>10, SqueezeState
  <2>2. read.result = Input!Squeezed(all) /\ read.used = Spaced(all)
    BY <1>11 DEF State
  <2> QED BY <1>11, <2>1, <2>2
<1>13. result' = Input!Squeezed(all) /\ used_space' = (end # 0 \/ Spaced(all))
  BY <1>3, <1>12 DEF IsRead
<1> DEFINE entered == end # 0 /\ Input!Squeezed(all) # <<>>
<1>14. /\ phase' = IF entered THEN "split" ELSE "reading"
       /\ line' = IF end = 0 \/ Input!Squeezed(all) # <<>> THEN all ELSE <<>>
  BY <1>3, <1>9, <1>12
<1>15. ShellTypeOK'
  <2>1. line' \in Seq(Chars)
    BY <1>10, <1>14, NoWordsFit
  <2>2. result' \in Seq(Chars)
    BY <1>12, <1>13
  <2>3. used_space' \in BOOLEAN
    BY <1>13, Zenon
  <2>4. TypeParts'
    BY <1>1, <1>2, <1>6, <1>14, <2>1, <2>2, <2>3 DEF TypeParts
  <2> QED BY <2>4, TypeIsPartsNext
<1>16. ASSUME end = 0 PROVE LineInv' /\ AbsStep
  <2>1. phase' = "reading" /\ line' = all /\ result' = Input!Squeezed(line')
    BY <1>13, <1>14, <1>16
  <2>2. used_space' <=> Spaced(line')
    BY <1>13, <1>14, <1>16
  <2>3. ReadingLine'
    BY <1>1, <1>2, <1>10, <2>1, <2>2 DEF ReadingLine, Spaced
  <2>4. LineInv'
    BY <2>1, <2>3 DEF LineInv
  <2>5. all \o typed' = line \o typed
    <3>1. seen = chunk
      BY <1>3, <1>16 DEF IsRead
    <3>2. ASSUME NEW S, NEW s \in Seq(S), NEW t \in Seq(S), NEW u \in Seq(S)
          PROVE  (s \o t) \o u = s \o (t \o u)
      BY ConcatAssociative
    <3>3. PICK rest : rest = typed'
      OBVIOUS
    <3>4. (line \o seen) \o rest = line \o (seen \o rest)
      <4>1. line \in Seq(Chars) /\ seen \in Seq(Chars) /\ rest \in Seq(Chars)
        BY <1>4, <1>6, <1>8, <3>3
      <4> QED BY ONLY <3>2, <4>1
    <3> QED BY <1>6, <1>9, <3>1, <3>3, <3>4
  <2>6. AbsInput' = AbsInput /\ AbsTaken' = AbsTaken /\ AbsRunning' = AbsRunning
    BY <1>1, <2>1, <2>5 DEF AbsInput, AbsTaken, AbsRunning
  <2> QED BY <2>4, <2>6, NoStep
<1>17. ASSUME end # 0 PROVE LineInv' /\ AbsStep
  <2>1. line' = IF Input!Squeezed(all) = <<>> THEN <<>> ELSE all
    BY <1>14, <1>17
  <2>2. ASSUME Input!Squeezed(all) = <<>> PROVE LineInv'
    <3>1. phase' = "reading" /\ line' = <<>> /\ result' = <<>> /\ used_space'
      BY <1>13, <1>14, <1>17, <2>2
    <3>2. Len(<<>>) = 0 /\ 1..0 = {}
      OBVIOUS
    <3>3. ReadingLine'
      BY <1>1, <1>2, <3>1, <3>2, SqueezeNothing DEF ReadingLine, Spaced
    <3> QED BY <3>1, <3>3 DEF LineInv
  <2>3. ASSUME Input!Squeezed(all) # <<>> PROVE LineInv'
    <3>1. /\ phase' = "split" /\ line' = all /\ result' = Input!Squeezed(all) /\ used_space'
      BY <1>13, <1>14, <1>17, <2>3
    <3>2. all # <<>>
      BY <2>3, SqueezeNothing
    <3>3. <<>> \o result' = result' /\ <<>> \in Seq(Chars)
      BY <1>12, <1>13, ConcatEmptySeq, NoWordsFit
    <3>4. words = [k \in 1..3 |-> Input!Word(<<>>, k)]
      <4>1. words = NO_WORDS /\ \A k : Input!Word(<<>>, k) = <<>>
        BY <1>2, WordNothing DEF ReadingLine
      <4>2. NO_WORDS = [k \in 1..3 |-> <<>>]
        BY DEF NO_WORDS
      <4> QED BY <4>1, <4>2
    <3>5. /\ word = IF Cardinality(Breaks(<<>>)) < 3 THEN Cardinality(Breaks(<<>>)) + 1 ELSE 4
          /\ quoted <=> IsQuoted(<<>>, Len(<<>>) + 1)
      BY <1>2, WordNothing DEF ReadingLine
    <3>6. IsSplit(<<>>)'
      BY <1>1, <3>1, <3>3, <3>4, <3>5 DEF IsSplit
    <3> QED BY <3>1, <3>2, <3>6 DEF LineInv, SplittingLine
  <2>4. LineInv'
    BY <2>2, <2>3
  <2>5. PICK t, e, lost : t = line \o typed /\ e = Len(line) + end /\ lost = n - end
    OBVIOUS
  <2>6. /\ e \in Nat /\ lost \in 0..(READ_SIZE - 1) /\ e + lost = Len(line) + n
        /\ end \in 1..n /\ Len(seen) = end - 1
    BY <1>4, <1>7, <1>8, <1>17, <2>5
  <2>7. /\ t \in Seq(Chars) /\ Len(t) = Len(line) + Len(typed)
        /\ \A i \in 1..(Len(line) + Len(typed)) :
             t[i] = IF i <= Len(line) THEN line[i] ELSE typed[i - Len(line)]
    BY <1>4, <2>5, ConcatProperties
  <2>8. SubSeq(t, 1, e - 1) = all
    <3>1. end - 1 \in 0..Len(typed) /\ end - 1 \in 0..n /\ e - 1 = Len(line) + (end - 1)
      BY <1>4, <1>5, <2>5, <2>6
    <3>2. SubSeq(t, 1, e - 1) = line \o SubSeq(typed, 1, end - 1)
      <4>1. SubSeq(line \o typed, 1, Len(line) + (end - 1)) = line \o SubSeq(typed, 1, end - 1)
        BY <1>4, <3>1, BehindAnother
      <4> QED BY <2>5, <3>1, <4>1
    <3>3. SubSeq(typed, 1, end - 1) = SubSeq(chunk, 1, end - 1)
      BY <1>4, <1>5, <1>6, <3>1, SubSeqTwice
    <3>4. seen = SubSeq(chunk, 1, end - 1)
      BY <1>3, <1>17 DEF IsRead
    <3> QED BY <1>9, <3>2, <3>3, <3>4
  <2>9. SubSeq(t, e + lost + 1, Len(t)) = typed'
    <3>1. SubSeq(t, Len(line) + n + 1, Len(t)) = SubSeq(typed, n + 1, Len(typed))
      BY <1>4, <1>5, <2>5, BehindAnother
    <3>2. e + lost + 1 = Len(line) + n + 1
      BY <1>4, <2>6
    <3> QED BY <1>3, <3>1, <3>2 DEF IsRead
  <2>10. FirstNewline(t, e)
    <3>1. e \in 1..Len(t) /\ DOMAIN t = 1..Len(t) /\ e > Len(line) /\ e - Len(line) = end
      BY <1>4, <1>5, <2>5, <2>6, <2>7, LenProperties
    <3>2. t[e] = typed[end]
      BY <1>4, <2>7, <3>1
    <3>3. typed[end] = chunk[end] /\ chunk[end] = NEWLINE
      BY <1>6, <1>7, <1>17, <2>6 DEF IsEnd
    <3>4. ASSUME NEW i \in 1..(e - 1) PROVE t[i] # NEWLINE
      <4>1. e - 1 \in 0..Len(t) /\ i \in 1..Len(all)
        BY <1>4, <1>10, <2>5, <2>6, <3>1
      <4>2. SubSeq(t, 1, e - 1)[i] = t[i]
        BY <2>7, <4>1, SplitAt
      <4> QED BY <1>10, <2>8, <4>1, <4>2
    <3> QED BY <3>1, <3>2, <3>3, <3>4 DEF FirstNewline
  <2>11. /\ AbsInput = t /\ AbsInput' = typed' /\ AbsTaken = <<>> /\ AbsTaken' = line'
         /\ AbsRunning = NO_WORDS /\ AbsRunning' = NO_WORDS
    <3>1. phase' = "split" \/ (phase' = "reading" /\ line' = <<>>)
      BY <1>14, <1>17
    <3>2. <<>> \o typed' = typed'
      BY <1>6, ConcatEmptySeq
    <3> QED BY <1>1, <2>5, <3>1, <3>2 DEF AbsInput, AbsTaken, AbsRunning
  <2>12. e + lost <= Len(AbsInput)
    BY <1>4, <1>5, <2>6, <2>7, <2>11
  <2>13. /\ FirstNewline(AbsInput, e) /\ AbsTaken = <<>> /\ AbsRunning = NO_WORDS
         /\ AbsRunning' = AbsRunning
         /\ AbsInput' = SubSeq(AbsInput, e + lost + 1, Len(AbsInput))
         /\ all = SubSeq(AbsInput, 1, e - 1)
         /\ AbsTaken' = IF Input!Squeezed(all) = <<>> THEN <<>> ELSE all
    BY <2>1, <2>8, <2>9, <2>10, <2>11
  <2>14. AbsStep
    BY <2>6, <2>12, <2>13, TakeStep
  <2> QED BY <2>4, <2>14
<1> QED BY <1>15, <1>16, <1>17 DEF ShellInv

-----------------------------------------------------------------------------
(* The invariant is kept.                                                  *)

LEMMA ShellStep ==
  ASSUME ShellAssumption, ShellInv, [ShellNext]_shellVars
  PROVE  ShellInv' /\ AbsStep
<1>1. CASE Boot
  BY <1>1, BootStep
<1>2. CASE \E l \in Lines : TypeLine(l)
  BY <1>2, TypeLineStep
<1>3. CASE \E n \in 1..READ_SIZE : ReadInput(n)
  BY <1>3, ReadInputStep
<1>4. CASE SplitLine
  BY <1>4, SplitLineStep
<1>5. CASE EndOfLine
  BY <1>5, EndOfLineStep
<1>6. CASE Command
  BY <1>6, CommandStep
<1>7. CASE PrintAnswer
  BY <1>7, PrintAnswerStep
<1>8. CASE ReadNothing \/ Gone \/ UNCHANGED shellVars
  <2>1. /\ UNCHANGED <<booted, phase, typed, result, used_space, words, word, quoted, line, kept>>
    BY <1>8 DEF ReadNothing, Gone, shellVars, input, buffers
  <2>2. TypeParts'
    BY <2>1, TypeIsParts DEF ShellInv, TypeParts
  <2>3. LineInv'
    <3>1. /\ ReadingLine => ReadingLine'
          /\ SplittingLine => SplittingLine'
          /\ NoLine => NoLine'
      BY <2>1 DEF ReadingLine, Spaced, SplittingLine, IsSplit, NoLine
    <3> QED BY <2>1, <3>1 DEF ShellInv, LineInv
  <2>4. AbsInput' = AbsInput /\ AbsTaken' = AbsTaken /\ AbsRunning' = AbsRunning
    BY <2>1 DEF AbsInput, AbsTaken, AbsRunning
  <2> QED BY <2>2, <2>3, <2>4, TypeIsPartsNext, NoStep DEF ShellInv
<1> QED BY <1>1, <1>2, <1>3, <1>4, <1>5, <1>6, <1>7, <1>8 DEF ShellNext

LEMMA ShellIsSafe ==
  ShellInit /\ [][ShellNext]_shellVars => []ShellTypeOK /\ InputRefines
<1>1. ShellInit => ShellInv /\ Input!AbsInit
  BY ShellInitOK, ShellAssumption
<1>2. ShellInv /\ [ShellNext]_shellVars => ShellInv' /\ [Input!AbsNext]_Input!absVars
  BY ShellStep, ShellAssumption DEF AbsStep
<1>3. ShellInv => ShellTypeOK
  BY DEF ShellInv
<1> QED BY <1>1, <1>2, <1>3, PTL DEF InputRefines, Input!AbsSpec

\* The variables of the shell keep their types: whatever is typed and read, a
\* line, its words and what is kept of the files are sequences of characters, and
\* never more than three words are put into the buffers (user.c:865-952).
THEOREM ShellTypeHolds == ShellSpec => []ShellTypeOK
BY ShellIsSafe, PTL DEF ShellSpec

\* The lines are run as ShellAbs says, for all lines, however many characters a
\* read returns: the words of a command are those of its line, with nothing left
\* of the line before it, and no more is lost than what the last read of a line
\* had behind its end (user.c:865-952, 1035-1042).
THEOREM ImplementsInput == ShellSpec => InputRefines
BY ShellIsSafe, PTL DEF ShellSpec

-----------------------------------------------------------------------------
(* The name in a word.                                                     *)

CutStep(p, c) == IF c = "/" THEN Append(p, "") ELSE Append(Front(p), Last(p) \o c)
CutName(w) == FoldLeft(LAMBDA p, c : CutStep(p, c), <<"">>, w)

LEMMA FileNameIs ==
  \A w : FileName(w) \in {Absolute(ROOT), Absolute(Tail(CutName(w))), Relative(CutName(w))}
BY DEF FileName, CutName, CutStep

\* A sequence of whatever values.
IsSequence(p) == \E X : p \in Seq(X) /\ p # <<>>

LEMMA CutStepFacts ==
  ASSUME NEW p, IsSequence(p), NEW c
  PROVE  IsSequence(CutStep(p, c))
<1>1. PICK X : p \in Seq(X) /\ p # <<>>
  BY DEF IsSequence
<1>2. CASE c = "/"
  <2>1. PICK e : e = ""
    OBVIOUS
  <2>2. Append(p, e) \in Seq(X \cup {e}) /\ Append(p, e) # <<>>
    <3>1. p \in Seq(X \cup {e})
      BY <1>1, SeqMonotonic
    <3> QED BY <3>1, AppendProperties
  <2> QED BY <1>2, <2>1, <2>2 DEF CutStep, IsSequence
<1>3. CASE c # "/"
  <2>1. PICK e : e = Last(p) \o c
    OBVIOUS
  <2>2. PICK q : q = Front(p)
    OBVIOUS
  <2>3. q \in Seq(X)
    <3>1. Len(p) \in Nat /\ \A i \in 1..(Len(p) - 1) : p[i] \in X
      BY <1>1, LenProperties, ElementOfSeq
    <3>2. Len(p) - 1 \in Int /\ 1 \in Int
      BY <3>1
    <3>3. SubSeq(p, 1, Len(p) - 1) \in Seq(X)
      BY <1>1, <3>1, <3>2, SubSeqProperties
    <3> QED BY <2>2, <3>3 DEF Front
  <2>4. q \in Seq(X \cup {e})
    BY <2>3, SeqMonotonic
  <2>5. Append(q, e) \in Seq(X \cup {e}) /\ Append(q, e) # <<>>
    BY <2>4, AppendProperties
  <2> QED BY <1>3, <2>1, <2>2, <2>5 DEF CutStep, IsSequence
<1> QED BY <1>2, <1>3

\* The components of a name are a sequence.
LEMMA CutNameFacts ==
  ASSUME NEW V, NEW w \in Seq(V)
  PROVE  IsSequence(CutName(w))
<1> DEFINE n == Len(w)
           start == <<"">>
           Step(f, T) == IF T = {} THEN start ELSE CutStep(f[T \ {Max(T)}], w[Max(T)])
           Folds(f, m) == f = [T \in SUBSET (1..m) |-> Step(f, T)]
           F == CHOOSE f : Folds(f, n)
           S == {m \in 0..n : \E f : Folds(f, m)}
<1>1. n \in Nat /\ DOMAIN w = 1..n
  BY LenProperties
<1>2. CutName(w) = F[1..n]
  BY <1>1 DEF CutName, FoldLeft, MapThenFoldSet
<1> HIDE DEF n, start
<1>3. 0 \in S
  <2> DEFINE f == [T \in SUBSET (1..0) |-> start]
  <2>1. \A T \in SUBSET (1..0) : T = {}
    OBVIOUS
  <2>2. Folds(f, 0)
    BY <2>1
  <2>3. \E g : Folds(g, 0)
    BY <2>2
  <2>4. 0 \in 0..n
    BY <1>1
  <2> HIDE DEF Folds
  <2> QED BY <2>3, <2>4
<1>4. ASSUME NEW m \in 0..(n - 1), m \in S PROVE m + 1 \in S
  <2>1. PICK f : Folds(f, m)
    BY <1>4
  <2> DEFINE g == [T \in SUBSET (1..(m + 1)) |->
                     IF m + 1 \in T THEN CutStep(f[T \ {m + 1}], w[m + 1]) ELSE f[T]]
  <2>2. ASSUME NEW T \in SUBSET (1..(m + 1)) PROVE g[T] = Step(g, T)
    <3>1. CASE m + 1 \in T
      <4>1. Max(T) = m + 1 /\ T # {}
        BY <1>1, <3>1, MaxOfInterval
      <4>2. T \ {m + 1} \in SUBSET (1..m) /\ T \ {m + 1} \in SUBSET (1..(m + 1))
        BY <1>1
      <4>3. g[T \ {m + 1}] = f[T \ {m + 1}]
        BY <4>2
      <4> QED BY <3>1, <4>1, <4>3
    <3>2. CASE m + 1 \notin T
      <4>1. T \in SUBSET (1..m)
        BY <1>1, <3>2
      <4>2. f[T] = Step(f, T)
        BY <2>1, <4>1
      <4>3. CASE T = {}
        BY <3>2, <4>1, <4>2, <4>3
      <4>4. CASE T # {}
        <5> DEFINE U == T \ {Max(T)}
        <5>1. U \in SUBSET (1..(m + 1)) /\ m + 1 \notin U
          BY <3>2
        <5>2. g[U] = f[U] /\ g[T] = f[T]
          BY <3>2, <5>1
        <5> QED BY <5>2, <4>1, <4>2, <4>4
      <4> QED BY <4>3, <4>4
    <3> QED BY <3>1, <3>2
  <2> HIDE DEF Step
  <2>3. Folds(g, m + 1)
    BY <2>2
  <2>4. \E h : Folds(h, m + 1)
    BY <2>3
  <2>5. m + 1 \in 0..n
    BY <1>1
  <2> HIDE DEF Folds
  <2> QED BY <2>4, <2>5
<1>5. Folds(F, n)
  <2>1. n \in 0..n
    BY <1>1
  <2> HIDE DEF S
  <2>2. 0..n \subseteq S
    BY <1>1, <1>3, <1>4, IntervalInduction
  <2>3. \E f : Folds(f, n)
    BY <2>1, <2>2 DEF S
  <2> HIDE DEF Folds
  <2> QED BY <2>3
<1> HIDE DEF F, S
<1> DEFINE R == {k \in 0..n : IsSequence(F[1..k])}
<1>6. 0 \in R
  <2>1. 1..0 = {} /\ 0 \in 0..n /\ {} \in SUBSET (1..n)
    BY <1>1
  <2>2. F[1..0] = start
    BY <1>5, <2>1
  <2>3. IsSequence(start)
    <3>1. PICK e : e = ""
      OBVIOUS
    <3>2. <<e>> \in Seq({e}) /\ <<e>> # <<>>
      OBVIOUS
    <3> QED BY <3>1, <3>2 DEF IsSequence, start
  <2> QED BY <2>1, <2>2, <2>3
<1>7. ASSUME NEW k \in 0..(n - 1), k \in R PROVE k + 1 \in R
  <2>1. k \in Nat /\ k + 1 \in 1..n /\ k + 1 \in 0..n /\ 1..(k + 1) \in SUBSET (1..n)
    BY <1>1
  <2>2. (1..(k + 1)) \ {k + 1} = 1..k /\ 1..(k + 1) # {}
    BY <2>1
  <2>3. Max(1..(k + 1)) = k + 1
    <3>1. k + 1 \in 1..(k + 1) /\ 1..(k + 1) \in SUBSET (1..(k + 1))
      BY <2>1
    <3> QED BY <2>1, <3>1, MaxOfInterval
  <2>4. F[1..(k + 1)] = CutStep(F[1..k], w[k + 1])
    <3>1. F[1..(k + 1)] = Step(F, 1..(k + 1))
      <4> HIDE DEF Step
      <4> QED BY <1>5, <2>1
    <3> QED BY <2>2, <2>3, <3>1
  <2>5. IsSequence(F[1..k])
    BY <1>7
  <2>6. IsSequence(F[1..(k + 1)])
    BY <2>4, <2>5, CutStepFacts
  <2> QED BY <2>1, <2>6
<1> HIDE DEF R
<1>8. n \in R
  <2>1. 0..n \subseteq R
    BY <1>1, <1>6, <1>7, IntervalInduction
  <2> QED BY <1>1, <2>1
<1> QED BY <1>2, <1>8 DEF R

\* What the kernel and the shell name a file by.
IsNamed(n) == n = Absolute(n.path) \/ (n = Relative(n.path) /\ IsSequence(n.path))

\* No file that is made has the empty name of an entry that is not in use.
LEMMA NameIsUsed ==
  ASSUME directory \in {ROOT, <<"hello">>}, NEW n, IsNamed(n), n.path # UNUSED
  PROVE  Adjust(n) # UNUSED
<1>1. CASE n.absolute
  BY <1>1 DEF Adjust, UNUSED
<1>2. CASE ~n.absolute
  <2>1. PICK X : n.path \in Seq(X) /\ n.path # <<>>
    BY <1>2 DEF IsNamed, IsSequence, Absolute
  <2>2. CASE directory = ROOT
    <3>1. ROOT \o n.path = n.path
      BY <2>1, ConcatEmptySeq DEF ROOT
    <3> QED BY <1>2, <2>2, <3>1 DEF Adjust, UNUSED
  <2>3. CASE directory = <<"hello">>
    <3>1. PICK h, q : h = "hello" /\ q = n.path
      OBVIOUS
    <3>2. <<h>> \in Seq({h} \cup X) /\ q \in Seq({h} \cup X)
      BY <2>1, <3>1, SeqMonotonic
    <3>3. Len(<<h>> \o q) = 1 + Len(q) /\ Len(q) \in Nat /\ Len(q) # 0
      BY <2>1, <3>1, <3>2, LenProperties, EmptySeq
    <3>4. Len(UNUSED) = 1
      BY DEF UNUSED
    <3>5. <<h>> \o q # UNUSED
      BY <3>3, <3>4
    <3>6. directory # ROOT
      BY <2>3 DEF ROOT
    <3> QED BY <1>2, <2>3, <3>1, <3>5, <3>6 DEF Adjust
  <2> QED BY <2>2, <2>3
<1> QED BY <1>1, <1>2

-----------------------------------------------------------------------------
(* What is kept of the files.                                              *)

\* The text of the command that is run and the byte that ends it fit a block.
TextFits == Len(AbsRunning[3]) < N_DATA

CodesOf(w) == [i \in DOMAIN w |-> Codes[w[i]]]

\* The file of that name begins with the text and the byte that ends it, and
\* has as many bytes, or more if there is a second part.
HasText(p, parts) ==
  LET text == FlattenSeq(parts)
  IN \E m \in Nat : /\ Holds(p, Append(CodesOf(text), 0), m)
                    /\ Len(text) + 1 <= m /\ Len(text) + 1 <= N_DATA
                    /\ Len(parts) = 1 => m = Len(text) + 1
IsKept(p, parts) == IF parts = <<>> THEN Holds(p, <<>>, 0) ELSE HasText(p, parts)

\* What a read of it returns.
TextOf(parts) == IF parts = <<>> THEN <<Blank>> ELSE CodesOf(FlattenSeq(parts))

LEMMA CodesFacts ==
  ASSUME ShellAssumption, NEW w \in Seq(Chars)
  PROVE  /\ CodesOf(w) \in Seq(Bytes \ {0}) /\ CodesOf(w) \in Seq(Bytes)
         /\ Len(CodesOf(w)) = Len(w) /\ Len(w) \in Nat
         /\ CString0(w) = Append(CodesOf(w), 0) /\ CString0(w) \in Seq(Bytes)
         /\ Len(CString0(w)) = Len(w) + 1
<1>1. PICK c : c = CodesOf(w)
  OBVIOUS
<1>2. Len(w) \in Nat /\ DOMAIN w = 1..Len(w) /\ \A i \in 1..Len(w) : w[i] \in Chars
  BY LenProperties, ElementOfSeq
<1>3. \A x \in Chars : Codes[x] \in Bytes \ {0}
  <2>1. \A x \in Chars : Codes[x] \in 1..(N_BYTES - 1)
    BY DEF ShellAssumption, Chars
  <2>2. N_BYTES \in Nat
    BY SizeFacts
  <2>3. \A k \in 1..(N_BYTES - 1) : k \in 0..(N_BYTES - 1) /\ k # 0
    BY <2>2
  <2> QED BY <2>1, <2>3 DEF Bytes
<1>4. c \in [1..Len(w) -> Bytes \ {0}]
  BY <1>1, <1>2, <1>3 DEF CodesOf
<1>5. c \in Seq(Bytes \ {0}) /\ Len(c) = Len(w)
  BY <1>2, <1>4, FunctionIsSeq
<1>6. c \in Seq(Bytes) /\ 0 \in Bytes
  <2>1. Bytes \ {0} \subseteq Bytes
    OBVIOUS
  <2> QED BY <1>5, <2>1, SeqMonotonic, SizeFacts
<1>7. Append(c, 0) = c \o <<0>>
  BY <1>6, AppendIsConcat
<1>8. CString0(w) = c \o <<0>>
  BY <1>1 DEF CString0, CodesOf
<1>9. Append(c, 0) \in Seq(Bytes) /\ Len(Append(c, 0)) = Len(c) + 1
  BY <1>6, AppendProperties
<1> QED BY <1>1, <1>2, <1>5, <1>6, <1>7, <1>8, <1>9

LEMMA CodesBehind ==
  ASSUME ShellAssumption, NEW u \in Seq(Chars), NEW v \in Seq(Chars)
  PROVE  /\ u \o v \in Seq(Chars) /\ Len(u \o v) = Len(u) + Len(v)
         /\ CodesOf(u \o v) = CodesOf(u) \o CodesOf(v)
         /\ CodesOf(u) \o CString0(v) = Append(CodesOf(u \o v), 0)
<1>1. PICK a, b, s : a = CodesOf(u) /\ b = CodesOf(v) /\ s = u \o v
  OBVIOUS
<1>2. /\ a \in Seq(Bytes) /\ b \in Seq(Bytes) /\ Len(a) = Len(u) /\ Len(b) = Len(v)
      /\ Len(u) \in Nat /\ Len(v) \in Nat /\ CString0(v) = Append(b, 0)
  BY <1>1, CodesFacts
<1>3. a \in Seq(Bytes) /\ b \in Seq(Bytes)
  BY <1>2
<1>4. Len(a) = Len(u) /\ Len(b) = Len(v) /\ Len(u) \in Nat /\ Len(v) \in Nat
  BY <1>2
<1>5. s \in Seq(Chars) /\ Len(s) = Len(u) + Len(v)
  BY <1>1, ConcatProperties
<1>6. PICK c : c = CodesOf(s)
  OBVIOUS
<1>7. c \in Seq(Bytes) /\ Len(c) = Len(s)
  BY <1>5, <1>6, CodesFacts
<1>8. a \o b \in Seq(Bytes) /\ Len(a \o b) = Len(u) + Len(v)
  <2>1. a \o b \in Seq(Bytes) /\ Len(a \o b) = Len(a) + Len(b)
    BY <1>3, ConcatProperties
  <2> QED BY <1>4, <2>1
<1>9. ASSUME NEW i \in 1..Len(s) PROVE c[i] = (a \o b)[i]
  <2>1. c[i] = Codes[s[i]]
    BY <1>5, <1>6, LenProperties DEF CodesOf
  <2>2. \A j \in 1..Len(u) : a[j] = Codes[u[j]]
    BY <1>1, LenProperties DEF CodesOf
  <2>3. \A j \in 1..Len(v) : b[j] = Codes[v[j]]
    BY <1>1, LenProperties DEF CodesOf
  <2>4. s[i] = IF i <= Len(u) THEN u[i] ELSE v[i - Len(u)]
    BY <1>1, <1>5, ConcatProperties
  <2>5. (a \o b)[i] = IF i <= Len(a) THEN a[i] ELSE b[i - Len(a)]
    <3>1. i \in 1..(Len(a) + Len(b))
      BY <1>4, <1>5
    <3> QED BY <1>3, <3>1, ConcatProperties
  <2>6. i \in Nat /\ i >= 1 /\ i <= Len(u) + Len(v)
    BY <1>4, <1>5
  <2>7. CASE i <= Len(u)
    <3>1. i \in 1..Len(u)
      BY <1>4, <2>6, <2>7
    <3> QED BY <1>4, <2>1, <2>2, <2>4, <2>5, <2>7, <3>1
  <2>8. CASE ~(i <= Len(u))
    <3>1. i - Len(u) \in 1..Len(v)
      BY <1>4, <2>6, <2>8
    <3> QED BY <1>4, <2>1, <2>3, <2>4, <2>5, <2>8, <3>1
  <2> QED BY <2>7, <2>8
<1>10. c = a \o b
  BY <1>5, <1>7, <1>8, <1>9, SeqEqual
<1>11. 0 \in Bytes
  BY SizeFacts
<1>12. a \o Append(b, 0) = Append(a \o b, 0)
  BY <1>3, <1>11, AppendBehind
<1> QED BY <1>1, <1>2, <1>5, <1>6, <1>10, <1>12

\* The text of a file that was written, and of one that was then appended to.
LEMMA PartsFacts ==
  ASSUME NEW V, NEW u \in Seq(V)
  PROVE  /\ FlattenSeq(<<u>>) = u /\ <<u>> # <<>> /\ Len(<<u>>) = 1
         /\ \A v \in Seq(V) : /\ FlattenSeq(Append(<<u>>, v)) = u \o v
                              /\ Append(<<u>>, v) # <<>> /\ Len(Append(<<u>>, v)) = 2
<1>1. <<u>> \in Seq(Seq(V)) /\ Len(<<u>>) = 1 /\ <<u>>[1] = u
  OBVIOUS
<1>2. <<>> \o u = u
  BY ConcatEmptySeq
<1>3. FlattenSeq(<<u>>) = u
  <2>1. PICK f \in [0..Len(<<u>>) -> Seq(V)] :
          /\ f[0] = <<>> /\ \A k \in 1..Len(<<u>>) : f[k] = f[k - 1] \o <<u>>[k]
          /\ FlattenSeq(<<u>>) = f[Len(<<u>>)]
    BY <1>1, FlattenUnfolds
  <2>2. 1 \in 1..1 /\ 1 - 1 = 0
    OBVIOUS
  <2>3. f[1] = f[0] \o u
    BY <1>1, <2>1, <2>2
  <2> QED BY <1>1, <1>2, <2>1, <2>3
<1>4. ASSUME NEW v \in Seq(V)
      PROVE  /\ FlattenSeq(Append(<<u>>, v)) = u \o v
             /\ Append(<<u>>, v) # <<>> /\ Len(Append(<<u>>, v)) = 2
  <2>1. PICK t : t = Append(<<u>>, v)
    OBVIOUS
  <2>2. t \in Seq(Seq(V)) /\ Len(t) = 2 /\ t[1] = u /\ t[2] = v /\ t # <<>>
    BY <1>1, <2>1, AppendProperties
  <2>3. PICK f \in [0..Len(t) -> Seq(V)] :
          /\ f[0] = <<>> /\ \A k \in 1..Len(t) : f[k] = f[k - 1] \o t[k]
          /\ FlattenSeq(t) = f[Len(t)]
    BY <2>2, FlattenUnfolds
  <2>4. 1 \in 1..2 /\ 2 \in 1..2 /\ 1 - 1 = 0 /\ 2 - 1 = 1
    OBVIOUS
  <2>5. f[1] = f[0] \o u /\ f[2] = f[1] \o v
    BY <2>2, <2>3, <2>4
  <2> QED BY <1>2, <2>1, <2>2, <2>3, <2>5
<1> QED BY <1>1, <1>3, <1>4

\* The commands are told apart.
LEMMA OneCommand ==
  ASSUME NEW c, NEW d, Is(c), Is(d)
  PROVE  c = d
<1>1. Len(words[1]) = 1 /\ \A i \in DOMAIN words[1] : words[1][i] = <<c>>[i] /\ words[1][i] = <<d>>[i]
  BY DEF Is, Same
<1>2. Is(c) => 1 \in DOMAIN words[1]
  BY DEF Is, Same
<1> QED BY <1>1, <1>2

\* Calls that leave the other files, or all, leave what they are kept for.
LEMMA KeptFacts ==
  ASSUME NEW q, NEW parts, IsKept(q, parts)
  PROVE  /\ AllHold => IsKept(q, parts)'
         /\ \A p : OthersHold(p) /\ q # p => IsKept(q, parts)'
<1>1. ASSUME \A w, n : Holds(q, w, n) => Holds(q, w, n)' PROVE IsKept(q, parts)'
  BY <1>1 DEF IsKept, HasText
<1>2. AllHold => \A w, n : Holds(q, w, n) => Holds(q, w, n)'
  BY DEF AllHold
<1>3. ASSUME NEW p, OthersHold(p), q # p PROVE \A w, n : Holds(q, w, n) => Holds(q, w, n)'
  BY <1>3 DEF OthersHold
<1> QED BY <1>1, <1>2, <1>3

\* What a write leaves is what is kept for it.
LEMMA WriteIsKept ==
  ASSUME ShellAssumption, FilesInv, Paced, NEW n, NEW v \in Seq(Chars), NEW append \in BOOLEAN,
         Write(n, CString0(v), append), NEW p, p = Adjust(n), reply'.code = 0, Len(v) < N_DATA
  PROVE  /\ ~append => IsKept(p, <<v>>)'
         /\ \A u \in Seq(Chars) : append /\ IsKept(p, <<u>>) => IsKept(p, Append(<<u>>, v))'
<1>1. PICK t, c : t = CString0(v) /\ c = CodesOf(v)
  OBVIOUS
<1>2. t \in Seq(Bytes) /\ Len(t) = Len(v) + 1 /\ t = Append(c, 0) /\ Len(v) \in Nat
      /\ N_DATA \in Nat
  BY <1>1, CodesFacts, SizeFacts
<1>3. Len(t) <= N_DATA
  BY <1>2
<1>4. Write(n, t, append)
  BY <1>1
<1>5. ASSUME ~append PROVE IsKept(p, <<v>>)'
  <2>1. Holds(p, t, Len(t))'
    BY <1>2, <1>3, <1>4, <1>5, WriteKeepsFiles
  <2>2. FlattenSeq(<<v>>) = v /\ <<v>> # <<>>
    BY PartsFacts
  <2>3. Holds(p, Append(CodesOf(v), 0), Len(v) + 1)'
    BY <1>1, <1>2, <2>1
  <2>4. HasText(p, <<v>>)'
    BY <1>2, <1>3, <2>2, <2>3 DEF HasText
  <2> QED BY <2>2, <2>4 DEF IsKept
<1>6. ASSUME append, NEW u \in Seq(Chars), IsKept(p, <<u>>) PROVE IsKept(p, Append(<<u>>, v))'
  <2>1. PICK w : w = CodesOf(u)
    OBVIOUS
  <2>2. w \in Seq(Bytes) /\ Len(w) = Len(u) /\ Len(u) \in Nat
    BY <2>1, CodesFacts
  <2>3. FlattenSeq(<<u>>) = u /\ <<u>> # <<>> /\ Len(<<u>>) = 1
    BY PartsFacts
  <2>4. Holds(p, Append(w, 0), Len(w) + 1)
    <3>1. HasText(p, <<u>>)
      BY <1>6, <2>3 DEF IsKept
    <3> QED BY <2>1, <2>2, <2>3, <3>1 DEF HasText
  <2>5. PICK m : m = Len(w) + 1 + Len(t)
    OBVIOUS
  <2>6. Len(w) + Len(t) <= N_DATA /\ Holds(p, w \o t, m)'
    BY <1>2, <1>3, <1>4, <1>6, <2>2, <2>4, <2>5, WriteKeepsFiles
  <2>7. PICK text : text = u \o v
    OBVIOUS
  <2>8. Len(text) = Len(u) + Len(v) /\ w \o t = Append(CodesOf(text), 0)
    BY <1>1, <2>1, <2>7, CodesBehind
  <2>9. m \in Nat /\ Len(text) + 1 <= m /\ Len(text) + 1 <= N_DATA
    BY <1>2, <2>2, <2>5, <2>6, <2>8
  <2>10. Holds(p, Append(CodesOf(text), 0), m)'
    BY <2>6, <2>8
  <2>11. PICK parts : parts = Append(<<u>>, v)
    OBVIOUS
  <2>12. FlattenSeq(parts) = text /\ parts # <<>> /\ Len(parts) # 1
    <3>1. FlattenSeq(parts) = text /\ parts # <<>> /\ Len(parts) = 2
      BY <2>7, <2>11, PartsFacts
    <3> QED BY <3>1
  <2>13. HasText(p, parts)'
    BY <2>9, <2>10, <2>12 DEF HasText
  <2> QED BY <2>11, <2>12, <2>13 DEF IsKept
<1> QED BY <1>5, <1>6

\* What a read returns is what is kept.
LEMMA ReadIsKept ==
  ASSUME ShellAssumption, FilesInv, NEW n, Read(n), NEW p, p = Adjust(n),
         NEW parts \in Seq(Seq(Chars)), IsKept(p, parts)
  PROVE  reply'.text = TextOf(parts)
<1>1. CASE parts = <<>>
  BY <1>1, ReadFinds DEF IsKept, TextOf
<1>2. CASE parts # <<>>
  <2>1. PICK text : text = FlattenSeq(parts)
    OBVIOUS
  <2>2. text \in Seq(Chars)
    <3>1. PICK f \in [0..Len(parts) -> Seq(Chars)] : FlattenSeq(parts) = f[Len(parts)]
      BY FlattenUnfolds
    <3>2. Len(parts) \in 0..Len(parts)
      BY LenProperties
    <3> QED BY <2>1, <3>1, <3>2
  <2>3. PICK u : u = CodesOf(text)
    OBVIOUS
  <2>4. u \in Seq(Bytes \ {0}) /\ Len(u) = Len(text)
    BY <2>2, <2>3, CodesFacts
  <2>5. PICK m \in Nat : Holds(p, Append(u, 0), m) /\ Len(u) + 1 <= m /\ Len(u) + 1 <= N_DATA
    BY <1>2, <2>1, <2>3, <2>4 DEF IsKept, HasText
  <2>6. reply'.text = u
    BY <2>4, <2>5, ReadFinds
  <2> QED BY <1>2, <2>1, <2>3, <2>6 DEF TextOf
<1> QED BY <1>1, <1>2

-----------------------------------------------------------------------------
(* It stays so.                                                            *)

AtHome == directory \in {ROOT, <<"hello">>}

LEMMA TargetIsNamed ==
  ASSUME words \in [1..3 -> Seq(Chars)]
  PROVE  IsNamed(Target)
<1>1. PICK w : w = words[2]
  OBVIOUS
<1>2. w \in Seq(Chars)
  BY <1>1
<1>3. IsSequence(CutName(w))
  BY <1>2, CutNameFacts
<1>4. FileName(w) \in {Absolute(ROOT), Absolute(Tail(CutName(w))), Relative(CutName(w))}
  BY FileNameIs
<1>5. /\ \A q : Absolute(q) = Absolute(Absolute(q).path)
      /\ \A q : Relative(q) = Relative(Relative(q).path) /\ Relative(q).path = q
  BY DEF Absolute, Relative
<1> QED BY <1>1, <1>3, <1>4, <1>5 DEF IsNamed, Target

LEMMA CreateIsKept ==
  ASSUME FilesInv, AtHome, Paced, NEW n, IsNamed(n), NEW type \in {"FILE", "DIRECTORY"},
         NEW call, Create(call, n, type), NEW p, p = Adjust(n)
  PROVE  /\ FilesInv' /\ AllHold /\ UNCHANGED directory
         /\ reply'.code = 0 /\ type = "FILE" /\ p # ROOT => IsKept(p, <<>>)'
<1>1. CreateError(n, type) = 0 => p # UNUSED
  <2> SUFFICES ASSUME CreateError(n, type) = 0 PROVE p # UNUSED
    OBVIOUS
  <2>0. 249 # 0 /\ 254 # 0
    OBVIOUS
  <2> DEFINE A == n = [absolute |-> TRUE, path |-> ROOT] /\ type = "DIRECTORY"
             B == n.path = UNUSED
             C == IF ~IsRoot(Exists(p, type)) THEN 1
                  ELSE IF \E q \in {SubSeq(p, 1, k) : k \in 1..(Len(p) - 1)} :
                            IsRoot(Exists(q, "DIRECTORY")) THEN 2
                  ELSE IF \A i \in Entries : entries[i].name # UNUSED THEN 255 ELSE 0
  <2>1. CreateError(n, type) = IF A THEN 249 ELSE IF B THEN 254 ELSE C
    BY ONLY p = Adjust(n) DEF CreateError, UNUSED
  <2> HIDE DEF A, B, C
  <2>2. ~B
    BY <2>0, <2>1
  <2>3. n.path # UNUSED
    BY <2>2 DEF B
  <2> QED BY <2>3, NameIsUsed DEF AtHome
<1>2. UNCHANGED directory
  BY DEF Create
<1>3. /\ FilesInv' /\ AllHold
      /\ reply'.code = 0 /\ type = "FILE" /\ p # ROOT => Holds(p, <<>>, 0)'
  BY <1>1, CreateKeepsFiles
<1> QED BY <1>2, <1>3 DEF IsKept

LEMMA BootKeepsFiles ==
  ASSUME FilesInv, AtHome, Paced, BootCall
  PROVE  FilesInv' /\ AtHome'
<1>1. PICK d, f : d = "DIRECTORY" /\ f = "FILE"
  OBVIOUS
<1>2. ASSUME NEW q, NEW call, NEW type \in {d, f}, Create(call, Absolute(q), type)
      PROVE  FilesInv' /\ AtHome'
  <2>1. IsNamed(Absolute(q))
    BY DEF IsNamed, Absolute
  <2>2. FilesInv' /\ UNCHANGED directory
    BY <1>1, <1>2, <2>1, CreateIsKept
  <2> QED BY <2>2 DEF AtHome
<1>3. ASSUME NEW e, NEW call, NEW type \in {d, f}, Create(call, Relative(<<e>>), type)
      PROVE  FilesInv' /\ AtHome'
  <2>1. <<e>> \in Seq({e}) /\ <<e>> # <<>>
    OBVIOUS
  <2>2. IsNamed(Relative(<<e>>))
    BY <2>1 DEF IsNamed, Relative, IsSequence
  <2>3. FilesInv' /\ UNCHANGED directory
    BY <1>1, <1>3, <2>2, CreateIsKept
  <2> QED BY <2>3 DEF AtHome
<1>4. ASSUME NEW n, Write(n, DATA, FALSE) PROVE FilesInv' /\ AtHome'
  <2>1. DATA \in Seq(Bytes)
    <3>1. 1 \in Bytes
      <4>1. N_BYTES \in Nat /\ N_BYTES >= 2
        BY FileSystemAssumption
      <4> QED BY <4>1 DEF Bytes
    <3> QED BY <3>1 DEF DATA
  <2>2. UNCHANGED directory
    BY <1>4 DEF Write
  <2>3. FilesInv'
    BY <1>4, <2>1, WriteKeepsFiles
  <2> QED BY <2>2, <2>3 DEF AtHome
<1>5. ASSUME NEW n, Read(n) \/ Delete(n) PROVE FilesInv' /\ AtHome'
  <2>1. UNCHANGED directory
    BY <1>5 DEF Read, Delete
  <2>2. FilesInv'
    BY <1>5, ReadFinds, DeleteKeepsFiles
  <2> QED BY <2>1, <2>2 DEF AtHome
<1>6. ASSUME SetDirectory(Absolute(<<"hello">>)) PROVE FilesInv' /\ AtHome'
  <2>1. UNCHANGED <<entries, blocks, current_location>>
    BY <1>6 DEF SetDirectory
  <2>2. directory' \in {directory, Adjust(Absolute(<<"hello">>))}
    BY <1>6 DEF SetDirectory
  <2>3. Adjust(Absolute(<<"hello">>)) = <<"hello">>
    BY DEF Adjust, Absolute
  <2> QED BY <2>1, <2>2, <2>3, NothingChanges DEF AtHome
<1>7. \A n : /\ CreateFile(n) => Create("create", n, f)
             /\ CreateDirectory(n) => Create("mkdir", n, d)
  BY <1>1 DEF CreateFile, CreateDirectory
<1>8. \/ \E q : CreateFile(Absolute(q)) \/ CreateDirectory(Absolute(q))
      \/ \E e : CreateFile(Relative(<<e>>)) \/ CreateDirectory(Relative(<<e>>))
      \/ \E n : Write(n, DATA, FALSE)
      \/ \E n : Read(n) \/ Delete(n)
      \/ SetDirectory(Absolute(<<"hello">>))
  BY Zenon DEF BootCall
<1> QED BY <1>2, <1>3, <1>4, <1>5, <1>6, <1>7, <1>8

\* The files are what is kept of them, and so is the answer to a read.
KeptAre ==
  \A q, parts : q \in DOMAIN kept /\ q # ROOT /\ parts = kept[q] => IsKept(q, parts)
ReadIs ==
  phase = "answer" /\ Is("read") =>
    \A q, parts : q = Adjust(Target) /\ q \in DOMAIN kept /\ q # ROOT /\ parts = kept[q]
                    => reply.text = TextOf(parts)

KeptInv ==
  /\ Paced /\ FilesInv /\ AtHome
  /\ phase = "boot" => DOMAIN kept = {}
  /\ KeptAre /\ ReadIs

LEMMA SameKept ==
  ASSUME KeptAre, UNCHANGED kept, AllHold
  PROVE  KeptAre'
<1>1. ASSUME NEW q, NEW parts, q \in DOMAIN kept, q # ROOT, parts = kept[q]
      PROVE  IsKept(q, parts)'
  <2>1. IsKept(q, parts)
    BY <1>1 DEF KeptAre
  <2> QED BY <2>1, KeptFacts
<1> QED BY <1>1 DEF KeptAre

LEMMA KeepFacts ==
  ASSUME KeptAre, NEW p, p = Adjust(Target), NEW texts, Keep(texts), OthersHold(p),
         p # ROOT => IsKept(p, texts)'
  PROVE  KeptAre'
<1>1. ASSUME NEW q, NEW parts, q \in DOMAIN kept', q # ROOT, parts = kept'[q]
      PROVE  IsKept(q, parts)'
  <2>1. kept' = [r \in DOMAIN kept \cup {p} |-> IF r = p THEN texts ELSE kept[r]]
    BY DEF Keep
  <2>2. CASE q = p
    <3>1. parts = texts
      BY <1>1, <2>1, <2>2
    <3> QED BY <1>1, <2>2, <3>1
  <2>3. CASE q # p
    <3>1. q \in DOMAIN kept /\ parts = kept[q]
      BY <1>1, <2>1, <2>3
    <3>2. IsKept(q, parts)
      BY <1>1, <3>1 DEF KeptAre
    <3> QED BY <2>3, <3>2, KeptFacts
  <2> QED BY <2>2, <2>3
<1> QED BY <1>1 DEF KeptAre

LEMMA ForgetFacts ==
  ASSUME KeptAre, NEW p, p = Adjust(Target), Forget, OthersHold(p)
  PROVE  KeptAre'
<1>1. ASSUME NEW q, NEW parts, q \in DOMAIN kept', q # ROOT, parts = kept'[q]
      PROVE  IsKept(q, parts)'
  <2>1. kept' = [r \in DOMAIN kept \ {p} |-> kept[r]]
    BY DEF Forget
  <2>2. q # p /\ q \in DOMAIN kept /\ parts = kept[q]
    BY <1>1, <2>1
  <2>3. IsKept(q, parts)
    BY <1>1, <2>2 DEF KeptAre
  <2> QED BY <2>2, <2>3, KeptFacts
<1> QED BY <1>1 DEF KeptAre

\* A command that is not read has no text to return.
LEMMA NotRead ==
  ASSUME NEW c, Is(c), c # "read", UNCHANGED words
  PROVE  ReadIs'
<1>1. ~Is("read")
  BY OneCommand
<1>2. ~Is("read")'
  BY <1>1 DEF Is
<1> QED BY <1>2 DEF ReadIs

LEMMA CommandKeeps ==
  ASSUME ShellAssumption, ShellInv, KeptInv, TextFits, Command
  PROVE  KeptInv'
<1>1. PICK p, t, v : p = Adjust(Target) /\ t = CString0(words[3]) /\ v = words[3]
  OBVIOUS
<1>2. /\ words \in [1..3 -> Seq(Chars)] /\ v \in Seq(Chars) /\ KeptIsText(kept)
      /\ Paced /\ FilesInv /\ AtHome /\ KeptAre /\ IsNamed(Target)
  <2>1. TypeParts
    BY TypeIsParts DEF ShellInv
  <2>2. words \in [1..3 -> Seq(Chars)] /\ KeptIsText(kept)
    BY <2>1 DEF TypeParts
  <2>3. 3 \in 1..3
    OBVIOUS
  <2> QED BY <1>1, <2>2, <2>3, TargetIsNamed DEF KeptInv
<1>3. t \in Seq(Bytes) /\ Len(v) < N_DATA
  <2>1. phase = "run"
    BY DEF Command, List, CreateNamed, DeleteNamed, WriteNamed, AppendNamed, ReadNamed, Hello,
           NoSuchCommand, Run
  <2> QED BY <1>1, <1>2, <2>1, CodesFacts DEF TextFits, AbsRunning
<1>4. phase' # "boot" /\ UNCHANGED words
  BY DEF Command, List, CreateNamed, DeleteNamed, WriteNamed, AppendNamed, ReadNamed, Hello,
         NoSuchCommand, Run, Elsewhere, buffers
<1>5. ASSUME FilesInv', AtHome', KeptAre', ReadIs' PROVE KeptInv'
  BY <1>2, <1>4, <1>5 DEF KeptInv
<1>6. ASSUME UNCHANGED <<entries, blocks, current_location, kept>>
      PROVE  FilesInv' /\ KeptAre'
  BY <1>2, <1>6, NothingChanges, SameKept
<1>7. \A c \in {"ls", "cd", "mkfile", "rm", "write", "writea", "hello"} : Is(c) => ReadIs'
  <2>1. \A c \in {"ls", "cd", "mkfile", "rm", "write", "writea", "hello"} : c # "read"
    OBVIOUS
  <2> QED BY <1>4, <2>1, NotRead
<1>8. AllHold => OthersHold(p)
  BY DEF AllHold, OthersHold
<1>9. CASE List
  <2>1. Is("ls") /\ UNCHANGED <<entries, blocks, current_location, kept, directory>>
    BY <1>9 DEF List, Run, ListFiles
  <2> QED BY <1>2, <1>5, <1>6, <1>7, <2>1 DEF AtHome
<1>10. CASE CreateNamed
  <2>1. /\ Is("mkfile") \/ Is("cd")
        /\ Create("create", Target, "FILE")
        /\ IF reply'.code = 0 THEN Keep(<<>>) ELSE UNCHANGED kept
    BY <1>10 DEF CreateNamed, Run, CreateFile
  <2>2. /\ FilesInv' /\ AllHold /\ UNCHANGED directory
        /\ reply'.code = 0 /\ p # ROOT => IsKept(p, <<>>)'
    <3>1. PICK n : n = Target
      OBVIOUS
    <3> QED BY <1>1, <1>2, <2>1, <3>1, CreateIsKept
  <2>3. KeptAre'
    BY <1>1, <1>2, <1>8, <2>1, <2>2, KeepFacts, SameKept
  <2> QED BY <1>2, <1>5, <1>7, <2>1, <2>2, <2>3 DEF AtHome
<1>11. CASE DeleteNamed
  <2>1. Is("rm") /\ Delete(Target) /\ IF reply'.code = 0 THEN Forget ELSE UNCHANGED kept
    BY <1>11 DEF DeleteNamed, Run
  <2>2. FilesInv' /\ OthersHold(p) /\ (reply'.code # 0 => AllHold)
    <3>1. PICK n : n = Target
      OBVIOUS
    <3> QED BY <1>1, <1>2, <2>1, <3>1, DeleteKeepsFiles
  <2>3. KeptAre'
    BY <1>1, <1>2, <2>1, <2>2, ForgetFacts, SameKept
  <2>4. UNCHANGED directory
    BY <2>1 DEF Delete
  <2> QED BY <1>2, <1>5, <1>7, <2>1, <2>2, <2>3, <2>4 DEF AtHome
<1>12. CASE WriteNamed
  <2>1. /\ Is("write") /\ Write(Target, t, FALSE)
        /\ IF reply'.code = 0 THEN Keep(<<v>>) ELSE UNCHANGED kept
    BY <1>1, <1>12 DEF WriteNamed, Run
  <2>2. FilesInv' /\ OthersHold(p) /\ (reply'.code # 0 => AllHold)
        /\ (reply'.code = 0 => IsKept(p, <<v>>)')
    <3>1. PICK n : n = Target
      OBVIOUS
    <3> QED BY <1>1, <1>2, <1>3, <2>1, <3>1, WriteKeepsFiles, WriteIsKept
  <2>3. KeptAre'
    BY <1>1, <1>2, <2>1, <2>2, KeepFacts, SameKept
  <2>4. UNCHANGED directory
    BY <2>1 DEF Write
  <2> QED BY <1>2, <1>5, <1>7, <2>1, <2>2, <2>3, <2>4 DEF AtHome
<1>13. CASE AppendNamed
  <2> DEFINE Once == p \in DOMAIN kept /\ Len(kept[p]) = 1
  <2>1. /\ Is("writea") /\ Write(Target, t, TRUE)
        /\ IF reply'.code # 0 THEN UNCHANGED kept
           ELSE IF Once THEN Keep(Append(kept[p], v)) ELSE Forget
    BY <1>1, <1>13 DEF AppendNamed, Run
  <2>2. /\ FilesInv' /\ OthersHold(p) /\ (reply'.code # 0 => AllHold)
        /\ \A u \in Seq(Chars) : reply'.code = 0 /\ IsKept(p, <<u>>) => IsKept(p, Append(<<u>>, v))'
    <3>1. PICK n : n = Target
      OBVIOUS
    <3> QED BY <1>1, <1>2, <1>3, <2>1, <3>1, WriteKeepsFiles, WriteIsKept
  <2>3. ASSUME reply'.code = 0, Once, p # ROOT, NEW texts, texts = Append(kept[p], v)
        PROVE  IsKept(p, texts)'
    <3>1. PICK k : k = kept[p]
      OBVIOUS
    <3>2. k \in Seq(Seq(Chars)) /\ Len(k) = 1
      BY <1>2, <2>3, <3>1 DEF KeptIsText
    <3>3. PICK u : u = k[1]
      OBVIOUS
    <3>4. u \in Seq(Chars) /\ k = <<u>>
      <4>1. u \in Seq(Chars)
        BY <3>2, <3>3, ElementOfSeq
      <4>2. <<u>> \in Seq(Seq(Chars)) /\ Len(<<u>>) = 1 /\ <<u>>[1] = u
        BY <4>1
      <4>3. \A i \in 1..Len(k) : k[i] = <<u>>[i]
        BY <3>2, <3>3, <4>2
      <4> QED BY <3>2, <4>1, <4>2, <4>3, SeqEqual
    <3>5. IsKept(p, k)
      BY <1>2, <2>3, <3>1 DEF KeptAre
    <3>6. texts = Append(<<u>>, v)
      BY <2>3, <3>1, <3>4
    <3> QED BY <2>2, <2>3, <3>4, <3>5, <3>6
  <2>4. KeptAre'
    <3>1. CASE reply'.code # 0
      BY <1>2, <2>1, <2>2, <3>1, SameKept
    <3>2. CASE reply'.code = 0 /\ Once
      <4>1. PICK texts : texts = Append(kept[p], v)
        OBVIOUS
      <4>2. Keep(texts)
        BY <2>1, <3>2, <4>1
      <4>3. p # ROOT => IsKept(p, texts)'
        BY <2>3, <3>2, <4>1
      <4> QED BY <1>1, <1>2, <2>2, <4>2, <4>3, KeepFacts
    <3>3. CASE reply'.code = 0 /\ ~Once
      BY <1>1, <1>2, <2>1, <2>2, <3>3, ForgetFacts
    <3> QED BY <3>1, <3>2, <3>3
  <2>5. UNCHANGED directory
    BY <2>1 DEF Write
  <2> QED BY <1>2, <1>5, <1>7, <2>1, <2>2, <2>4, <2>5 DEF AtHome
<1>14. CASE ReadNamed
  <2>1. Is("read") /\ Read(Target) /\ UNCHANGED kept
    BY <1>14 DEF ReadNamed, Run
  <2>2. UNCHANGED <<entries, blocks, current_location, directory>>
    BY <2>1 DEF Read
  <2>3. Adjust(Target)' = p
    BY <1>1, <1>4, <2>2 DEF Adjust, Target
  <2>4. ASSUME NEW parts, p \in DOMAIN kept, p # ROOT, parts = kept[p] PROVE reply'.text = TextOf(parts)
    <3>1. parts \in Seq(Seq(Chars))
      BY <1>2, <2>4 DEF KeptIsText
    <3>2. IsKept(p, parts)
      BY <1>2, <2>4 DEF KeptAre
    <3>3. PICK n : n = Target
      OBVIOUS
    <3> QED BY <1>1, <1>2, <2>1, <3>1, <3>2, <3>3, ReadIsKept
  <2>5. ReadIs'
    BY <2>1, <2>3, <2>4 DEF ReadIs
  <2> QED BY <1>2, <1>5, <1>6, <2>1, <2>2, <2>5 DEF AtHome
<1>15. CASE Hello
  <2>1. Is("hello") /\ UNCHANGED <<entries, blocks, current_location, directory, kept>>
    BY <1>15 DEF Hello, NotFiles, vars
  <2> QED BY <1>2, <1>5, <1>6, <1>7, <2>1 DEF AtHome
<1>16. CASE NoSuchCommand
  <2>1. ~Is("read") /\ UNCHANGED <<entries, blocks, current_location, directory, kept>>
    BY <1>16 DEF NoSuchCommand, CallCommands, NotFiles, vars
  <2>2. ~Is("read")'
    BY <1>4, <2>1 DEF Is
  <2>3. ReadIs'
    BY <2>2 DEF ReadIs
  <2> QED BY <1>2, <1>5, <1>6, <2>1, <2>3 DEF AtHome
<1> QED BY <1>9, <1>10, <1>11, <1>12, <1>13, <1>14, <1>15, <1>16 DEF Command

LEMMA InitIsKept ==
  ASSUME ShellInit, Paced
  PROVE  KeptInv
<1>1. Init /\ phase = "boot" /\ kept = <<>>
  BY DEF ShellInit
<1>2. \A i \in Entries : /\ entries[i].name = IF i = 1 THEN ROOT ELSE UNUSED
                         /\ entries[i].type = "DIRECTORY"
  BY <1>1 DEF Init, Unused
<1>3. entries \in [Entries -> Row({ROOT, UNUSED})]
  BY <1>1, SizeFacts DEF Init, Unused, Row
<1>4. Files = {}
  BY <1>2 DEF Files, Used, Directories
<1>5. blocks \in BlockTables /\ \A b \in Bytes : blocks[b][NEXT] = 0
  BY <1>1, CellFacts, SizeFacts DEF Init, BlockTables
<1>6. current_location \in Bytes /\ directory = ROOT
  BY <1>1, SizeFacts DEF Init
<1>7. FilesInv
  BY <1>2, <1>3, <1>4, <1>5, <1>6, SizeFacts DEF FilesInv
<1>8. DOMAIN kept = {}
  BY <1>1
<1> QED BY <1>1, <1>6, <1>7, <1>8 DEF KeptInv, AtHome, KeptAre, ReadIs

LEMMA KeptStep ==
  ASSUME ShellAssumption, ShellInv, KeptInv, TextFits, [ShellNext]_shellVars
  PROVE  KeptInv'
<1>1. Paced /\ FilesInv /\ AtHome /\ KeptAre /\ ReadIs
  BY DEF KeptInv
<1>2. CASE Boot
  <2>1. phase = "boot" /\ phase' \in {"boot", "reading"} /\ UNCHANGED <<words, kept>>
        /\ (BootCall \/ UNCHANGED vars)
    BY <1>2 DEF Boot, buffers
  <2>2. FilesInv' /\ AtHome'
    <3>1. CASE BootCall
      BY <1>1, <3>1, BootKeepsFiles
    <3>2. CASE UNCHANGED vars
      BY <1>1, <3>2, NothingChanges DEF vars, AtHome
    <3> QED BY <2>1, <3>1, <3>2
  <2>3. DOMAIN kept' = {} /\ phase' # "answer"
    BY <2>1 DEF KeptInv
  <2> QED BY <1>1, <2>2, <2>3 DEF KeptInv, KeptAre, ReadIs
<1>3. CASE Command
  BY <1>3, CommandKeeps
<1>4. ASSUME UNCHANGED <<vars, kept>>, phase' # "boot" \/ phase = "boot",
             phase' # "answer" \/ (phase = "answer" /\ UNCHANGED words)
      PROVE  KeptInv'
  <2>1. UNCHANGED <<entries, blocks, current_location, directory, reply>>
    BY <1>4 DEF vars
  <2>2. FilesInv' /\ AllHold /\ AtHome'
    BY <1>1, <2>1, NothingChanges DEF AtHome
  <2>3. KeptAre'
    BY <1>1, <1>4, <2>2, SameKept
  <2>4. ReadIs'
    <3>1. CASE phase' # "answer"
      BY <3>1 DEF ReadIs
    <3>2. CASE phase = "answer" /\ UNCHANGED words
      <4>1. (Is("read"))' = Is("read") /\ Adjust(Target)' = Adjust(Target)
        BY <2>1, <3>2 DEF Is, Adjust, Target
      <4> QED BY <1>1, <1>4, <2>1, <3>2, <4>1 DEF ReadIs
    <3> QED BY <1>4, <3>1, <3>2
  <2> QED BY <1>1, <1>4, <2>2, <2>3, <2>4 DEF KeptInv
<1>5. CASE \E l \in Lines : TypeLine(l)
  BY <1>4, <1>5 DEF TypeLine, buffers
<1>6. CASE \E n \in 1..READ_SIZE : ReadInput(n)
  BY <1>4, <1>6 DEF ReadInput
<1>7. CASE SplitLine \/ EndOfLine \/ PrintAnswer
  BY <1>4, <1>7 DEF SplitLine, EndOfLine, PrintAnswer
<1>8. CASE ReadNothing \/ Gone \/ UNCHANGED shellVars
  BY <1>4, <1>8 DEF ReadNothing, Gone, shellVars, buffers
<1> QED BY <1>2, <1>3, <1>5, <1>6, <1>7, <1>8 DEF ShellNext

\* What is printed for a read.
LEMMA ReadIsAnswered ==
  ASSUME ShellAssumption, Is("read"), NEW parts \in Seq(Seq(Chars)), reply.text = TextOf(parts)
  PROVE  Answer = Printed(parts)
<1>1. /\ ~Is("ls") /\ ~(\E c \in {"cd", "mkfile", "rm", "write", "writea"} : Is(c))
  <2>1. "ls" # "read" /\ \A c \in {"cd", "mkfile", "rm", "write", "writea"} : c # "read"
    OBVIOUS
  <2> QED BY <2>1, OneCommand
<1>2. Answer = ReadAnswer
  BY <1>1 DEF Answer
<1>3. PICK text : text = FlattenSeq(parts)
  OBVIOUS
<1>4. Printed(parts) = CASE parts = <<>> \/ (text # <<>> /\ text[1] = SPACE) ->
                              [is |-> "File is empty", text |-> <<>>]
                         [] parts # <<>> /\ text = <<>> -> [is |-> "No such file.", text |-> <<>>]
                         [] OTHER -> [is |-> "text", text |-> CodesOf(text)]
  BY <1>3 DEF Printed, CodesOf
<1>5. PICK first : first = IF reply.text = <<>> THEN 0 ELSE reply.text[1]
  OBVIOUS
<1>6. Blank # 0
  <2>1. Blank \in 1..(N_BYTES - 1)
    BY FileSystemAssumption
  <2> QED BY <2>1
<1>7. ReadAnswer = IF first = Blank THEN [is |-> "File is empty", text |-> <<>>]
                   ELSE IF first = 0 THEN [is |-> "No such file.", text |-> <<>>]
                   ELSE [is |-> "text", text |-> reply.text]
  BY <1>5, <1>6 DEF ReadAnswer
<1>8. CASE parts = <<>>
  <2>1. first = Blank
    BY <1>5, <1>8 DEF TextOf
  <2> QED BY <1>2, <1>4, <1>7, <1>8, <2>1
<1>9. CASE parts # <<>>
  <2>1. text \in Seq(Chars)
    <3>1. PICK f \in [0..Len(parts) -> Seq(Chars)] : FlattenSeq(parts) = f[Len(parts)]
      BY FlattenUnfolds
    <3>2. Len(parts) \in 0..Len(parts)
      BY LenProperties
    <3> QED BY <1>3, <3>1, <3>2
  <2>2. reply.text = CodesOf(text)
    BY <1>3, <1>9 DEF TextOf
  <2>3. CodesOf(text) \in Seq(Bytes \ {0}) /\ Len(CodesOf(text)) = Len(text) /\ Len(text) \in Nat
    BY <2>1, CodesFacts
  <2>4. CASE text = <<>>
    <3>1. reply.text = <<>>
      BY <2>2, <2>3, <2>4, EmptySeq
    <3>2. first = 0
      BY <1>5, <3>1
    <3> QED BY <1>2, <1>4, <1>6, <1>7, <1>9, <2>4, <3>2
  <2>5. CASE text # <<>>
    <3>1. Len(text) \in Nat \ {0} /\ 1 \in 1..Len(text) /\ DOMAIN text = 1..Len(text)
      BY <2>1, <2>5, EmptySeq, LenProperties
    <3>2. reply.text # <<>> /\ reply.text[1] = Codes[text[1]] /\ text[1] \in Chars
      BY <2>1, <2>2, <2>3, <3>1, EmptySeq, ElementOfSeq DEF CodesOf
    <3>3. Codes[text[1]] = Blank <=> text[1] = SPACE
      BY <3>2 DEF ShellAssumption, Chars
    <3>4. first = Codes[text[1]] /\ first # 0
      <4>1. first = Codes[text[1]]
        BY <1>5, <3>2
      <4>2. first \in 1..(N_BYTES - 1)
        BY <3>2, <4>1 DEF ShellAssumption, Chars
      <4> QED BY <4>1, <4>2
    <3> QED BY <1>2, <1>4, <1>7, <1>9, <2>2, <2>5, <3>3, <3>4
  <2> QED BY <2>4, <2>5
<1> QED BY <1>8, <1>9

LEMMA ReadsBackStep ==
  ASSUME ShellAssumption, ShellInv, KeptInv, [ShellNext]_shellVars, ~UNCHANGED shellVars,
         phase' = "reading", Is("read"), Adjust(Target) \in DOMAIN kept \ {ROOT}
  PROVE  answer' = Printed(kept[Adjust(Target)])
<1>1. PICK p, parts : p = Adjust(Target) /\ parts = kept[p]
  OBVIOUS
<1>2. p \in DOMAIN kept /\ p # ROOT /\ parts \in Seq(Seq(Chars))
  <2>1. KeptIsText(kept)
    BY TypeIsParts DEF ShellInv, TypeParts
  <2> QED BY <1>1, <2>1 DEF KeptIsText
<1>3. phase \notin {"boot", "reading"}
  <2>1. words # NO_WORDS
    <3>1. Len(words[1]) = 1
      BY DEF Is, Same
    <3>2. Len(NO_WORDS[1]) = 0
      BY DEF NO_WORDS
    <3> QED BY <3>1, <3>2
  <2> QED BY <2>1 DEF ShellInv, LineInv, ReadingLine
<1>4. PrintAnswer
  <2>1. ~Boot /\ ~ReadNothing /\ ~(\E n \in 1..READ_SIZE : ReadInput(n))
    BY <1>3 DEF Boot, ReadNothing, ReadInput
  <2>2. ~(\E l \in Lines : TypeLine(l)) /\ ~SplitLine /\ ~EndOfLine /\ ~Gone
    BY <1>3 DEF TypeLine, SplitLine, EndOfLine, Gone
  <2>3. ~Command
    BY DEF Command, List, CreateNamed, DeleteNamed, WriteNamed, AppendNamed, ReadNamed, Hello,
           NoSuchCommand, Run
  <2> QED BY <2>1, <2>2, <2>3 DEF ShellNext
<1>5. phase = "answer" /\ answer' = Answer
  BY <1>4 DEF PrintAnswer
<1>6. reply.text = TextOf(parts)
  BY <1>1, <1>2, <1>5 DEF KeptInv, ReadIs
<1>7. Answer = Printed(parts)
  BY <1>2, <1>6, ReadIsAnswered
<1> QED BY <1>1, <1>5, <1>7

-----------------------------------------------------------------------------
(* Texts that fit a block.                                                 *)

\* The text of a command and the byte that ends it fit a block.
ShortText(s) == Len(Input!Word(Input!Squeezed(s), 3)) < N_DATA

\* The places i to j of t, if any, are in one line.
InOneLine(t, i, j) ==
  /\ i \in 1..(Len(t) + 1) /\ j \in (i - 1)..Len(t)
  /\ \A k \in i..j : t[k] # NEWLINE

\* Wherever in t the shell begins to read.
TextsFit(t) == \A i, j \in Nat : InOneLine(t, i, j) => ShortText(SubSeq(t, i, j))
LinesFit == \A l \in Lines : TextsFit(l)

Ended(t) == t = <<>> \/ t[Len(t)] = NEWLINE

TextInv ==
  /\ AbsInput \in Seq(Chars) /\ TextsFit(AbsInput) /\ Ended(AbsInput)
  /\ ShortText(AbsTaken)
  /\ Len(AbsRunning[3]) < N_DATA

LEMMA NothingFits == ShortText(<<>>) /\ Len(NO_WORDS[3]) < N_DATA
<1>1. Len(<<>>) = 0 /\ NO_WORDS[3] = <<>>
  BY DEF NO_WORDS
<1> QED BY <1>1, SqueezeNothing, WordNothing, SizeFacts DEF ShortText

LEMMA PartOfPart ==
  ASSUME NEW V, NEW t \in Seq(V), NEW a \in 1..(Len(t) + 1), NEW b \in (a - 1)..Len(t),
         NEW i \in 1..(b - a + 2), NEW j \in (i - 1)..(b - a + 1)
  PROVE  SubSeq(SubSeq(t, a, b), i, j) = SubSeq(t, a + i - 1, a + j - 1)
<1> DEFINE s == SubSeq(t, a, b)
           p == SubSeq(s, i, j)
           q == SubSeq(t, a + i - 1, a + j - 1)
<1>1. Len(t) \in Nat /\ \A k \in 1..Len(t) : t[k] \in V
  BY LenProperties, ElementOfSeq
<1>2. /\ s \in Seq(V) /\ Len(s) = b - a + 1 /\ \A k \in 1..(b - a + 1) : s[k] = t[a + k - 1]
  <2>1. a \in Int /\ b \in Int /\ \A k \in a..b : t[k] \in V
    BY <1>1
  <2> QED BY <1>1, <2>1, SubSeqProperties
<1>3. /\ q \in Seq(V) /\ Len(q) = j - i + 1 /\ \A k \in 1..(j - i + 1) : q[k] = t[a + i - 1 + k - 1]
  <2>1. PICK c, d : c = a + i - 1 /\ d = a + j - 1
    OBVIOUS
  <2>2. c \in Int /\ d \in Int /\ \A k \in c..d : t[k] \in V
    BY <1>1, <2>1
  <2>3. PICK r : r = SubSeq(t, c, d)
    OBVIOUS
  <2>4. /\ r \in Seq(V) /\ Len(r) = IF c <= d THEN d - c + 1 ELSE 0
        /\ \A k \in 1..(d - c + 1) : r[k] = t[c + k - 1]
    BY <2>2, <2>3, SubSeqProperties
  <2>5. d - c + 1 = j - i + 1 /\ j - i + 1 >= 0 /\ (c <= d <=> j - i + 1 > 0)
    BY <1>1, <2>1
  <2>6. q = r
    BY <2>1, <2>3
  <2> HIDE DEF q
  <2> QED BY <1>1, <2>1, <2>4, <2>5, <2>6
<1> HIDE DEF s, q
<1>4. /\ p \in Seq(V) /\ Len(p) = j - i + 1 /\ \A k \in 1..(j - i + 1) : p[k] = s[i + k - 1]
  <2>1. i \in Int /\ j \in Int /\ \A k \in i..j : s[k] \in V
    BY <1>1, <1>2, ElementOfSeq
  <2> QED BY <1>1, <2>1, SubSeqProperties
<1> HIDE DEF p
<1>5. ASSUME NEW k \in 1..(j - i + 1) PROVE p[k] = q[k]
  <2>1. i + k - 1 \in 1..(b - a + 1) /\ a + (i + k - 1) - 1 = a + i - 1 + k - 1
    BY <1>1
  <2> QED BY <1>2, <1>3, <1>4, <2>1
<1>6. p = q
  BY <1>3, <1>4, <1>5, SeqEqual
<1> QED BY <1>6 DEF p, q, s

\* What is left of the input when its beginning is read.
LEMMA RestFits ==
  ASSUME NEW t \in Seq(Chars), TextsFit(t), Ended(t), NEW n \in 0..Len(t),
         NEW s, s = SubSeq(t, n + 1, Len(t))
  PROVE  s \in Seq(Chars) /\ TextsFit(s) /\ Ended(s)
<1>1. Len(t) \in Nat
  BY LenProperties
<1>2. s \in Seq(Chars) /\ Len(s) = Len(t) - n /\ \A k \in 1..(Len(t) - n) : s[k] = t[n + k]
  <2>1. n + 1 \in Int /\ Len(t) \in Int /\ \A k \in (n + 1)..Len(t) : t[k] \in Chars
    BY <1>1, ElementOfSeq
  <2>2. /\ s \in Seq(Chars) /\ Len(s) = (IF n + 1 <= Len(t) THEN Len(t) - (n + 1) + 1 ELSE 0)
        /\ \A k \in 1..(Len(t) - (n + 1) + 1) : s[k] = t[n + 1 + k - 1]
    BY <2>1, SubSeqProperties
  <2> QED BY <1>1, <2>2
<1>3. ASSUME NEW i \in Nat, NEW j \in Nat, InOneLine(s, i, j) PROVE ShortText(SubSeq(s, i, j))
  <2>1. i \in 1..(Len(t) - n + 1) /\ j \in (i - 1)..(Len(t) - n) /\ \A k \in i..j : s[k] # NEWLINE
    BY <1>2, <1>3 DEF InOneLine
  <2>2. SubSeq(s, i, j) = SubSeq(t, n + 1 + i - 1, n + 1 + j - 1)
    <3>1. /\ n + 1 \in 1..(Len(t) + 1) /\ Len(t) \in (n + 1 - 1)..Len(t)
          /\ i \in 1..(Len(t) - (n + 1) + 2) /\ j \in (i - 1)..(Len(t) - (n + 1) + 1)
      BY <1>1, <2>1
    <3> QED BY <3>1, PartOfPart
  <2>3. InOneLine(t, n + i, n + j) /\ n + i \in Nat /\ n + j \in Nat
    <3>1. ASSUME NEW k \in (n + i)..(n + j) PROVE t[k] # NEWLINE
      <4>1. k - n \in i..j /\ k - n \in 1..(Len(t) - n) /\ n + (k - n) = k
        BY <1>1, <2>1
      <4> QED BY <1>2, <2>1, <4>1
    <3>2. n + i \in 1..(Len(t) + 1) /\ n + j \in (n + i - 1)..Len(t)
      BY <1>1, <2>1
    <3> QED BY <1>1, <3>1, <3>2 DEF InOneLine
  <2>4. n + 1 + i - 1 = n + i /\ n + 1 + j - 1 = n + j
    BY <1>1
  <2> QED BY <2>2, <2>3, <2>4 DEF TextsFit
<1>4. Ended(s)
  <2>1. CASE n = Len(t)
    BY <1>1, <1>2, <2>1, EmptySeq DEF Ended
  <2>2. CASE n # Len(t)
    <3>1. t # <<>>
      <4>1. Len(t) # 0
        BY <1>1, <2>2
      <4> QED BY <4>1, EmptySeq
    <3>2. Len(s) \in 1..(Len(t) - n) /\ n + Len(s) = Len(t)
      BY <1>1, <1>2, <2>2
    <3>3. s[Len(s)] = t[Len(t)]
      BY <1>2, <3>2
    <3> QED BY <3>1, <3>3 DEF Ended
  <2> QED BY <2>1, <2>2
<1> QED BY <1>2, <1>3, <1>4 DEF TextsFit

\* A line behind what was typed before it.
LEMMA JoinFits ==
  ASSUME NEW a \in Seq(Chars), NEW l \in Seq(Chars), TextsFit(a), TextsFit(l),
         Ended(a), Ended(l), NEW t, t = a \o l
  PROVE  t \in Seq(Chars) /\ TextsFit(t) /\ Ended(t)
<1>1. /\ t \in Seq(Chars) /\ Len(t) = Len(a) + Len(l) /\ Len(a) \in Nat /\ Len(l) \in Nat
      /\ \A k \in 1..(Len(a) + Len(l)) : t[k] = IF k <= Len(a) THEN a[k] ELSE l[k - Len(a)]
  BY ConcatProperties, LenProperties
<1>2. SubSeq(t, 1, Len(a)) = a /\ SubSeq(t, Len(a) + 1, Len(t)) = l
  <2>1. SubSeq(l, 1, 0) = <<>> /\ SubSeq(l, 1, Len(l)) = l /\ a \o <<>> = a
    BY SubSeqEmpty, SubSeqFull, ConcatEmptySeq
  <2>2. 0 \in 0..Len(l)
    BY <1>1
  <2>3. /\ SubSeq(t, 1, Len(a) + 0) = a \o SubSeq(l, 1, 0)
        /\ SubSeq(t, Len(a) + 0 + 1, Len(t)) = SubSeq(l, 0 + 1, Len(l))
    BY <2>2, BehindAnother
  <2>4. Len(a) + 0 = Len(a) /\ 0 + 1 = 1
    BY <1>1
  <2> QED BY <2>1, <2>3, <2>4
<1>3. ASSUME NEW i \in Nat, NEW j \in Nat, InOneLine(t, i, j) PROVE ShortText(SubSeq(t, i, j))
  <2>1. i \in 1..(Len(a) + Len(l) + 1) /\ j \in (i - 1)..(Len(a) + Len(l))
        /\ \A k \in i..j : t[k] # NEWLINE
    BY <1>1, <1>3 DEF InOneLine
  <2>2. CASE j <= Len(a)
    <3>1. SubSeq(a, i, j) = SubSeq(t, 1 + i - 1, 1 + j - 1)
      <4>1. /\ 1 \in 1..(Len(t) + 1) /\ Len(a) \in (1 - 1)..Len(t)
            /\ i \in 1..(Len(a) - 1 + 2) /\ j \in (i - 1)..(Len(a) - 1 + 1)
        BY <1>1, <2>1, <2>2
      <4> QED BY <1>1, <1>2, <4>1, PartOfPart
    <3>2. 1 + i - 1 = i /\ 1 + j - 1 = j
      OBVIOUS
    <3>3. InOneLine(a, i, j)
      <4>1. ASSUME NEW k \in i..j PROVE a[k] # NEWLINE
        <5>1. k \in 1..(Len(a) + Len(l)) /\ k <= Len(a)
          BY <1>1, <2>1, <2>2
        <5> QED BY <1>1, <2>1, <5>1
      <4>2. i \in 1..(Len(a) + 1) /\ j \in (i - 1)..Len(a)
        BY <1>1, <2>1, <2>2
      <4> QED BY <4>1, <4>2 DEF InOneLine
    <3> QED BY <3>1, <3>2, <3>3 DEF TextsFit
  <2>3. CASE j > Len(a)
    <3>1. i > Len(a)
      <4>1. SUFFICES ASSUME i <= Len(a) PROVE FALSE
        BY <1>1, <2>1
      <4>2. Len(a) # 0 /\ Len(a) \in i..j /\ Len(a) \in 1..(Len(a) + Len(l))
        BY <1>1, <2>1, <2>3, <4>1
      <4>3. a # <<>>
        BY <4>2, EmptySeq
      <4>4. t[Len(a)] = NEWLINE
        BY <1>1, <4>2, <4>3 DEF Ended
      <4> QED BY <2>1, <4>2, <4>4
    <3>2. PICK u, v : u = i - Len(a) /\ v = j - Len(a)
      OBVIOUS
    <3>3. u \in 1..(Len(l) + 1) /\ v \in (u - 1)..Len(l) /\ u \in Nat /\ v \in Nat
      BY <1>1, <2>1, <2>3, <3>1, <3>2
    <3>4. SubSeq(l, u, v) = SubSeq(t, Len(a) + 1 + u - 1, Len(a) + 1 + v - 1)
      <4>1. PICK c, d : c = Len(a) + 1 /\ d = Len(t)
        OBVIOUS
      <4>2. /\ t \in Seq(Chars) /\ c \in 1..(Len(t) + 1) /\ d \in (c - 1)..Len(t)
            /\ u \in 1..(d - c + 2) /\ v \in (u - 1)..(d - c + 1)
        BY <1>1, <3>3, <4>1
      <4>3. SubSeq(SubSeq(t, c, d), u, v) = SubSeq(t, c + u - 1, c + v - 1)
        BY ONLY <4>2, PartOfPart
      <4> QED BY <1>2, <4>1, <4>3
    <3>5. Len(a) + 1 + u - 1 = i /\ Len(a) + 1 + v - 1 = j
      BY <1>1, <3>2
    <3>6. InOneLine(l, u, v)
      <4>1. ASSUME NEW k \in u..v PROVE l[k] # NEWLINE
        <5>1. /\ Len(a) + k \in i..j /\ Len(a) + k \in 1..(Len(a) + Len(l))
              /\ ~(Len(a) + k <= Len(a)) /\ Len(a) + k - Len(a) = k
          BY <1>1, <2>1, <3>2, <3>3
        <5> QED BY <1>1, <2>1, <5>1
      <4> QED BY <3>3, <4>1 DEF InOneLine
    <3> QED BY <3>3, <3>4, <3>5, <3>6 DEF TextsFit
  <2> QED BY <1>1, <2>1, <2>2, <2>3
<1>4. Ended(t)
  <2>1. CASE l = <<>>
    <3>1. a \o l = a
      BY <2>1, ConcatEmptySeq
    <3> QED BY <3>1
  <2>2. CASE l # <<>>
    <3>1. Len(l) # 0
      BY <2>2, EmptySeq
    <3>2. /\ Len(t) \in 1..(Len(a) + Len(l)) /\ ~(Len(t) <= Len(a)) /\ Len(t) - Len(a) = Len(l)
      BY <1>1, <3>1
    <3>3. t[Len(t)] = l[Len(l)]
      BY <1>1, <3>2
    <3> QED BY <2>2, <3>3 DEF Ended
  <2> QED BY <2>1, <2>2
<1> QED BY <1>1, <1>3, <1>4 DEF TextsFit

LEMMA InitFits ==
  ASSUME Input!AbsInit
  PROVE  TextInv
<1>1. AbsInput = <<>> /\ AbsTaken = <<>> /\ AbsRunning = NO_WORDS
  BY NoWordsAre DEF Input!AbsInit, AbsInput, AbsTaken, AbsRunning
<1>2. <<>> \in Seq(Chars) /\ Len(<<>>) = 0
  OBVIOUS
<1>3. ASSUME NEW i \in Nat, NEW j \in Nat, InOneLine(<<>>, i, j) PROVE ShortText(SubSeq(<<>>, i, j))
  <2>1. i = 1 /\ j = 0
    BY <1>2, <1>3 DEF InOneLine
  <2>2. SubSeq(<<>>, 1, 0) = <<>>
    BY SubSeqEmpty
  <2> QED BY <2>1, <2>2, NothingFits
<1>4. TextsFit(<<>>)
  BY <1>3 DEF TextsFit
<1> QED BY <1>1, <1>2, <1>4, NothingFits DEF TextInv, Ended

LEMMA FitsStep ==
  ASSUME ShellAssumption, LinesFit, TextInv, AbsStep
  PROVE  TextInv'
<1>1. PICK t, u : t = AbsInput /\ u = AbsInput'
  OBVIOUS
<1>2. t \in Seq(Chars) /\ TextsFit(t) /\ Ended(t) /\ Len(t) \in Nat
  BY <1>1, LenProperties DEF TextInv
<1>3. ASSUME u \in Seq(Chars), TextsFit(u), Ended(u), NEW s, s = AbsTaken', ShortText(s),
             NEW w, w = AbsRunning', Len(w[3]) < N_DATA
      PROVE  TextInv'
  BY <1>1, <1>3 DEF TextInv, TextsFit, InOneLine, Ended, ShortText
<1>4. CASE UNCHANGED Input!absVars
  <2>1. UNCHANGED <<AbsInput, AbsTaken, AbsRunning>>
    BY <1>4 DEF Input!absVars, AbsInput, AbsTaken, AbsRunning
  <2> QED BY <1>1, <1>2, <1>3, <2>1 DEF TextInv
<1>5. ASSUME NEW l \in Lines, Input!Type(l) PROVE TextInv'
  <2>1. u = t \o l /\ UNCHANGED <<AbsTaken, AbsRunning>>
    BY <1>1, <1>5 DEF Input!Type, AbsInput, AbsTaken, AbsRunning
  <2>2. l \in Seq(Chars) /\ TextsFit(l) /\ Ended(l)
    BY DEF ShellAssumption, Chars, LinesFit, Ended, Last
  <2>3. u \in Seq(Chars) /\ TextsFit(u) /\ Ended(u)
    BY <1>2, <2>1, <2>2, JoinFits
  <2> QED BY <1>3, <2>1, <2>3 DEF TextInv
<1>6. ASSUME NEW e \in DOMAIN AbsInput, NEW lost \in 0..(READ_SIZE - 1),
             e + lost <= Len(AbsInput), Input!Take(e, lost)
      PROVE  TextInv'
  <2>1. PICK s : s = SubSeq(t, 1, e - 1)
    OBVIOUS
  <2>2. /\ u = SubSeq(t, e + lost + 1, Len(t)) /\ \A i \in 1..(e - 1) : t[i] # NEWLINE
        /\ AbsTaken' = IF Input!Squeezed(s) = <<>> THEN <<>> ELSE s
        /\ UNCHANGED AbsRunning
    BY <1>1, <1>6, <2>1 DEF Input!Take, AbsInput, AbsTaken, AbsRunning, NEWLINE, Input!NEWLINE
  <2>3. e \in 1..Len(t) /\ lost \in Nat /\ e + lost \in 0..Len(t) /\ e - 1 \in Nat
    <3>1. e \in 1..Len(t)
      BY <1>1, <1>2, <1>6, LenProperties
    <3> QED BY <1>1, <1>2, <1>6, <3>1 DEF ShellAssumption
  <2>4. u \in Seq(Chars) /\ TextsFit(u) /\ Ended(u)
    BY <1>2, <2>2, <2>3, RestFits
  <2>5. ShortText(s)
    <3>1. InOneLine(t, 1, e - 1)
      BY <1>2, <2>2, <2>3 DEF InOneLine
    <3> QED BY <1>2, <2>1, <2>3, <3>1 DEF TextsFit
  <2>6. PICK r : r = AbsTaken'
    OBVIOUS
  <2>7. ShortText(r)
    BY <2>2, <2>5, <2>6, NothingFits
  <2> QED BY <1>3, <2>2, <2>4, <2>6, <2>7 DEF TextInv
<1>7. CASE Input!Start
  <2>1. PICK w : w = AbsRunning'
    OBVIOUS
  <2>2. /\ w = [k \in 1..3 |-> Input!Word(Input!Squeezed(AbsTaken), k)]
        /\ AbsTaken' = <<>> /\ u = t
    BY <1>1, <1>7, <2>1 DEF Input!Start, AbsInput, AbsTaken, AbsRunning
  <2>3. Len(w[3]) < N_DATA
    BY <2>2 DEF TextInv, ShortText
  <2> QED BY <1>2, <1>3, <2>1, <2>2, <2>3, NothingFits
<1>8. CASE Input!Done
  <2>1. AbsRunning' = NO_WORDS /\ u = t /\ UNCHANGED AbsTaken
    BY <1>1, <1>8, NoWordsAre DEF Input!Done, AbsInput, AbsTaken, AbsRunning
  <2> QED BY <1>2, <1>3, <2>1, NothingFits DEF TextInv
<1>9. Input!AbsNext => \/ \E l \in Lines : Input!Type(l)
                       \/ \E e \in DOMAIN AbsInput, lost \in 0..(READ_SIZE - 1) :
                            e + lost <= Len(AbsInput) /\ Input!Take(e, lost)
                       \/ Input!Start \/ Input!Done
  BY DEF Input!AbsNext, AbsInput
<1> QED BY <1>4, <1>5, <1>6, <1>7, <1>8, <1>9 DEF AbsStep

LEMMA ReadsBackIf ==
  Paced /\ LinesFit /\ ShellInit /\ [][ShellNext]_shellVars => ReadsBack
<1> SUFFICES ASSUME Paced, LinesFit
             PROVE  ShellInit /\ [][ShellNext]_shellVars => ReadsBack
  OBVIOUS
<1>1. ShellInit => ShellInv /\ KeptInv /\ TextInv
  BY ShellInitOK, InitIsKept, InitFits, ShellAssumption
<1>2. ShellInv /\ KeptInv /\ TextInv /\ [ShellNext]_shellVars => ShellInv' /\ KeptInv' /\ TextInv'
  <2>1. TextInv => TextFits
    BY DEF TextInv, TextFits
  <2> QED BY <2>1, ShellStep, KeptStep, FitsStep, ShellAssumption
<1>3. ShellInv /\ KeptInv /\ [ShellNext]_shellVars =>
        [phase' = "reading" /\ Is("read") /\ Adjust(Target) \in DOMAIN kept \ {ROOT} =>
           answer' = Printed(kept[Adjust(Target)])]_shellVars
  BY ReadsBackStep, ShellAssumption
<1> QED BY <1>1, <1>2, <1>3, PTL DEF ReadsBack

\* Paced /\ LinesFit /\ ShellSpec => ReadsBack: as long as there is room in the
\* file system and no text is longer than the data of a block, a command that
\* reads a file prints what was written to it, with what was appended to it once,
\* whatever other files the shell makes, writes and removes meanwhile, and
\* however the lines arrive (user.c:954-1030, fileSystem.c:268-342).
THEOREM ReadsBackHolds == Paced /\ LinesFit /\ ShellSpec => ReadsBack
BY ReadsBackIf, PTL DEF ShellSpec

-----------------------------------------------------------------------------
(* The whole machine: the parts do not disturb each other.                 *)

\* From the building of the image to the last command, the bootstrap and the shell
\* are what they are on their own: the programs are loaded as they were built and
\* stay so, the lines are run as they were typed, and what was written is read back
\* (bootstrap.S:118-203, startup.S, system.c, user.c:865-1030).
THEOREM MachineIsSafe ==
  MachineSpec => /\ [](StoresInPlace /\ ProgramsAreLoaded /\ ShellTypeOK) /\ InputRefines
                 /\ Paced /\ LinesFit => ReadsBack
<1>1. [MachineNext]_machineVars => [BootNext]_bootVars /\ [ShellNext]_shellVars
  BY DEF MachineNext, LoadSystem, RunSystem, Stopped, machineVars
<1> QED BY <1>1, BootIsSafe, ShellIsSafe, ReadsBackIf, PTL DEF MachineSpec, MachineInit

=============================================================================
