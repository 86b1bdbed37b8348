-------------------------- MODULE FileSystemProofs --------------------------
(***************************************************************************)
(* The table of FileSystem is a tree, its files own their blocks, and its  *)
(* calls do what FileSystemAbs promises, for every number of entries,      *)
(* every set of names and texts and every size of a block.                 *)
(***************************************************************************)
EXTENDS FileSystem, InductionFacts, FiniteSetTheorems

\* A path without empty components.
Proper(p) == p \in Seq(Components) /\ \A k \in DOMAIN p : p[k] # ""

\* What IsTree needs to be kept: the names in the table, and the current
\* directory from which more of them are built, have no empty component, or
\* the search for a directory above would find an entry that is not in use;
\* and entry 1 is the root, which a search that finds nothing returns.
TreeInv ==
  /\ entries \in [Entries -> Entry]
  /\ current_location \in Bytes
  /\ Proper(directory)
  /\ entries[1].name = ROOT /\ entries[1].type = "DIRECTORY"
  /\ \A i \in Entries : entries[i].name = UNUSED \/ Proper(entries[i].name)
  /\ IsTree

-----------------------------------------------------------------------------
(* Paths.                                                                  *)

\* What the proofs use of the constants.
LEMMA SizeFacts ==
  /\ N_ENTRIES \in Nat /\ N_BYTES \in Nat /\ N_BYTES > 0
  /\ N_DATA \in Nat /\ N_DATA > 0 /\ N_SIZES \in Nat /\ N_SIZES > 0
  /\ Entries \subseteq Nat /\ 1 \in Entries
  /\ Bytes \subseteq Nat /\ 0 \in Bytes /\ \A k \in Int : k % N_BYTES \in Bytes
  /\ \A k \in Bytes : k % N_BYTES = k
  /\ 0 \in 0..(N_SIZES - 1) /\ \A k \in Int : k % N_SIZES \in 0..(N_SIZES - 1)
BY FileSystemAssumption DEF N_DATA, Entries, Bytes

\* A proper path is never the name of an entry that is not in use, and neither
\* is the beginning of one.
LEMMA ProperFacts ==
  ASSUME NEW p, Proper(p)
  PROVE  /\ p # UNUSED
         /\ \A k \in 1..(Len(p) - 1) : SubSeq(p, 1, k) # UNUSED
<1>1. Len(p) \in Nat /\ DOMAIN p = 1..Len(p) /\ p \in Seq(Components)
  BY LenProperties DEF Proper
<1>2. UNUSED[1] = "" /\ DOMAIN UNUSED = 1..1 /\ 1 \in 1..1
  BY DEF UNUSED
<1>3. p # UNUSED
  BY <1>2 DEF Proper
<1>4. ASSUME NEW k \in 1..(Len(p) - 1)
      PROVE  SubSeq(p, 1, k) # UNUSED
  <2>1. k \in Nat /\ 1 \in 1..k /\ 1 \in DOMAIN p /\ \A i \in 1..k : p[i] \in Components
    BY <1>1, ElementOfSeq
  <2>2. SubSeq(p, 1, k)[1] = p[1]
    BY <1>1, <2>1, SubSeqProperties
  <2> QED BY <1>2, <2>1, <2>2 DEF Proper
<1> QED BY <1>3, <1>4

\* The root is a proper path without components.
LEMMA RootFacts ==
  ROOT \in Seq(Components) /\ Proper(ROOT) /\ ROOT # UNUSED /\ Len(ROOT) = 0
<1>1. ROOT \in Seq(Components) /\ Len(ROOT) = 0 /\ DOMAIN ROOT = {}
  BY EmptySeq DEF ROOT
<1>2. Proper(ROOT)
  BY <1>1 DEF Proper
<1> QED BY <1>1, <1>2, ProperFacts

\* What is put behind a path makes it longer, and keeps it proper if it is
\* proper itself.
LEMMA ConcatFacts ==
  ASSUME NEW a \in Seq(Components), NEW b \in Seq(Components)
  PROVE  /\ a \o b \in Seq(Components)
         /\ b # <<>> => a \o b # <<>>
         /\ a # <<>> /\ Len(b) = 1 => Len(a \o b) # 1
         /\ Proper(a) /\ Proper(b) => Proper(a \o b)
<1> DEFINE m == Len(a)
           n == Len(b)
           c == a \o b
<1>1. /\ m \in Nat /\ n \in Nat /\ DOMAIN a = 1..m /\ DOMAIN b = 1..n
      /\ a # <<>> => m # 0
      /\ b # <<>> => n # 0
  BY LenProperties, EmptySeq
<1>2. /\ c \in Seq(Components) /\ Len(c) = m + n
      /\ \A i \in 1..(m + n) : c[i] = IF i <= m THEN a[i] ELSE b[i - m]
  BY ConcatProperties
<1>3. DOMAIN c = 1..(m + n) /\ (c = <<>> => Len(c) = 0)
  BY <1>2, LenProperties
<1>4. n = Len(b)
  OBVIOUS
<1> HIDE DEF m, n, c
<1>5. ASSUME Proper(a), Proper(b), NEW i \in 1..(m + n)
      PROVE  c[i] # ""
  <2>1. CASE i <= m
    <3>1. i \in 1..m
      BY <1>1, <2>1
    <3> QED BY <1>1, <1>2, <1>5, <2>1, <3>1 DEF Proper
  <2>2. CASE ~(i <= m)
    <3>1. i - m \in 1..n
      BY <1>1, <2>2
    <3> QED BY <1>1, <1>2, <1>5, <2>2, <3>1 DEF Proper
  <2> QED BY <2>1, <2>2
<1>6. Proper(a) /\ Proper(b) => Proper(c)
  BY <1>2, <1>3, <1>5 DEF Proper
<1>7. (b # <<>> => Len(c) # 0) /\ (a # <<>> /\ n = 1 => Len(c) # 1)
  BY <1>1, <1>2
<1> QED BY <1>2, <1>3, <1>4, <1>6, <1>7 DEF c

\* A name begins with each of its beginnings but itself, up to the last
\* component.
LEMMA BeginningFacts ==
  ASSUME NEW q \in Seq(Components), NEW k \in 1..(Len(q) - 1)
  PROVE  LET p == SubSeq(q, 1, k)
         IN /\ q # p /\ Len(p) = k /\ Len(p) <= Len(q)
            /\ SubSeq(q, 1, Len(p) - 1) = Front(p)
            /\ q[Len(p)] = Last(p)
<1> DEFINE p == SubSeq(q, 1, k)
<1>1. Len(q) \in Nat /\ \A j \in 1..Len(q) : q[j] \in Components
  BY LenProperties, ElementOfSeq
<1>2. /\ p \in Seq(Components) /\ Len(p) = k /\ k \in Nat /\ k >= 1
      /\ \A j \in 1..k : p[j] = q[j]
  BY <1>1, SubSeqProperties
<1> HIDE DEF p
<1> DEFINE a == SubSeq(q, 1, k - 1)
           b == SubSeq(p, 1, k - 1)
<1>3. /\ a \in Seq(Components) /\ Len(a) = k - 1
      /\ \A j \in 1..(k - 1) : a[j] = q[j]
  BY <1>1, <1>2, SubSeqProperties
<1>4. \A j \in 1..(k - 1) : p[j] \in Components
  BY <1>2, ElementOfSeq
<1>5. /\ b \in Seq(Components) /\ Len(b) = k - 1
      /\ \A j \in 1..(k - 1) : b[j] = p[j]
  BY <1>2, <1>4, SubSeqProperties
<1> HIDE DEF a, b
<1>6. \A j \in 1..(k - 1) : j \in 1..k
  BY <1>2
<1>7. a = b
  BY <1>2, <1>3, <1>5, <1>6, SeqEqual
<1>8. k \in 1..k /\ k # Len(q) /\ k <= Len(q)
  BY <1>1, <1>2
<1> QED BY <1>2, <1>7, <1>8 DEF Front, Last, a, b, p

\* _adjust_filename returns a proper path of every name but the empty one.
LEMMA AdjustFacts ==
  ASSUME TreeInv, NEW n \in Names
  PROVE  /\ Adjust(n) \in Seq(Components) /\ Adjust(n) # UNUSED
         /\ n.path # <<"">> => Proper(Adjust(n))
         /\ n.path # <<"">> /\ Adjust(n) = ROOT
              => n = [absolute |-> TRUE, path |-> ROOT]
<1>1. n \in [absolute : BOOLEAN, path : Seq(Components)]
  <2>1. n \in [absolute : BOOLEAN, path : Seq(STRING)]
    BY FileSystemAssumption
  <2>2. n.path \in Seq(Components)
    <3>1. /\ Len(n.path) \in Nat /\ n.path = [k \in 1..Len(n.path) |-> n.path[k]]
          /\ \A k \in 1..Len(n.path) : n.path[k] \in Components
      BY <2>1, LenProperties, ElementOfSeq DEF Components
    <3> QED BY <3>1, SeqDef
  <2> QED BY <2>1, <2>2
<1>2. Proper(directory)
  BY DEF TreeInv
<1>3. directory \in Seq(Components) /\ Len(directory) \in Nat
  BY <1>2, LenProperties DEF Proper
<1>4. Proper(ROOT)
  BY EmptySeq DEF Proper, ROOT
<1>5. CASE n = [absolute |-> FALSE, path |-> <<"">>]
  <2>1. CASE directory = ROOT
    BY <1>4, <1>5, <2>1, ProperFacts DEF Adjust, Proper
  <2>2. CASE directory # ROOT
    <3>1. Adjust(n) = directory \o <<"">>
      BY <1>5, <2>2 DEF Adjust
    <3>2. <<"">> \in Seq(Components) /\ Len(<<"">>) = 1
      BY <1>1, <1>5
    <3>3. Adjust(n) \in Seq(Components) /\ Len(Adjust(n)) # 1
      BY <1>3, <2>2, <3>1, <3>2, ConcatFacts DEF ROOT
    <3> QED BY <1>5, <3>2, <3>3 DEF UNUSED
  <2> QED BY <2>1, <2>2
<1>6. CASE "" \notin ToSet(n.path) /\ (n.path = ROOT => n.absolute)
  <2>1. Proper(n.path)
    BY <1>1, <1>6 DEF Proper, ToSet
  <2>2. n.path # <<"">>
    BY <2>1, ProperFacts DEF UNUSED
  <2>3. CASE n.absolute
    <3>1. Adjust(n) = n.path /\ n = [absolute |-> TRUE, path |-> n.path]
      BY <1>1, <2>3 DEF Adjust
    <3> QED BY <2>1, <3>1, ProperFacts DEF Proper
  <2>4. CASE ~n.absolute
    <3>1. Adjust(n) = directory \o n.path
      BY <2>2, <2>4 DEF Adjust
    <3>2. n.path # <<>>
      BY <1>6, <2>4 DEF ROOT
    <3>3. Proper(directory \o n.path) /\ directory \o n.path # <<>>
      <4>1. directory \in Seq(Components) /\ n.path \in Seq(Components)
        BY <1>1, <1>3
      <4> QED BY <1>2, <2>1, <3>2, <4>1, ConcatFacts
    <3> QED BY <3>1, <3>3, ProperFacts DEF Proper, ROOT
  <2> QED BY <1>1, <2>3, <2>4
<1> QED BY <1>5, <1>6, NameAssumption

\* _sfs_exists returns an entry of that name and type, or the root if there is
\* none.
LEMMA ExistsFacts ==
  ASSUME TreeInv, NEW p, NEW type
  PROVE  /\ Exists(p, type) \in Entries
         /\ \/ /\ entries[Exists(p, type)].name = p
               /\ entries[Exists(p, type)].type = type
            \/ /\ IsRoot(Exists(p, type))
               /\ \A j \in Entries : entries[j].name = p => entries[j].type # type
<1> DEFINE found == {i \in Entries : entries[i].name = p /\ entries[i].type = type}
<1>1. CASE found = {}
  <2>1. Exists(p, type) = 1
    BY <1>1 DEF Exists
  <2> QED BY <1>1, <2>1, SizeFacts DEF TreeInv, IsRoot
<1>2. CASE found # {}
  <2>1. Exists(p, type) = Min(found)
    BY <1>2 DEF Exists
  <2>2. Min(found) \in found
    BY <1>2, SizeFacts, MinFacts
  <2> QED BY <2>1, <2>2
<1> QED BY <1>1, <1>2

-----------------------------------------------------------------------------
(* The initial state, and one lemma for each kind of step.                 *)

LEMMA InitTree == Init => TreeInv
<1> SUFFICES ASSUME Init PROVE TreeInv
  OBVIOUS
<1>1. <<"">> \in Seq(Components)
  BY DEF Components
<1>2. ROOT \in Seq(Components) /\ Proper(ROOT) /\ ROOT # UNUSED /\ Len(ROOT) = 0
  BY RootFacts
<1>3. \A i \in Entries :
        entries[i] = IF i = 1 THEN [name |-> ROOT, type |-> "DIRECTORY", size |-> 0, payload |-> 0]
                     ELSE [name |-> UNUSED, type |-> "DIRECTORY", size |-> 0, payload |-> 0]
  <2>1. [Unused EXCEPT !.name = ROOT]
          = [name |-> ROOT, type |-> "DIRECTORY", size |-> 0, payload |-> 0]
    BY DEF Unused
  <2> QED BY <2>1 DEF Init, Unused
<1>4. entries \in [Entries -> Entry]
  <2>1. \A i \in Entries : entries[i] \in Entry
    <3>1. UNUSED \in Seq(Components) /\ ROOT \in Seq(Components)
      BY <1>1, <1>2 DEF UNUSED
    <3>2. \A m \in Seq(Components) :
            [name |-> m, type |-> "DIRECTORY", size |-> 0, payload |-> 0] \in Entry
      BY SizeFacts DEF Entry
    <3> QED BY <1>3, <3>1, <3>2
  <2> QED BY <2>1 DEF Init
<1>5. Used = {1}
  <2>1. 1 \in Entries /\ entries[1].name = ROOT
        /\ \A i \in Entries : i # 1 => entries[i].name = UNUSED
    BY <1>3, SizeFacts
  <2> QED BY <1>2, <2>1 DEF Used
<1>6. IsTree
  <2>1. Directories \cup Files \subseteq {1}
    BY <1>5 DEF Directories, Files
  <2>2. \A k \in 1..(Len(entries[1].name) - 1) : FALSE
    BY <1>2, <1>3, SizeFacts
  <2> QED BY <1>5, <2>1, <2>2 DEF IsTree
<1>7. /\ entries[1].name = ROOT /\ entries[1].type = "DIRECTORY"
      /\ \A i \in Entries : entries[i].name = UNUSED \/ Proper(entries[i].name)
  BY <1>2, <1>3, SizeFacts
<1>8. directory = ROOT /\ current_location = 0
  BY DEF Init
<1> QED BY <1>2, <1>4, <1>6, <1>7, <1>8, SizeFacts DEF TreeInv

\* A call that changes neither a name nor a type.
LEMMA NamesKept ==
  ASSUME TreeInv, entries' \in [Entries -> Entry],
         \A i \in Entries : /\ entries'[i].name = entries[i].name
                            /\ entries'[i].type = entries[i].type,
         current_location' \in Bytes, Proper(directory')
  PROVE  TreeInv'
<1>1. Used' = Used /\ Directories' = Directories /\ Files' = Files
  BY DEF Used, Directories, Files, IsRoot
<1>2. Used \subseteq Entries /\ Directories \subseteq Entries /\ Files \subseteq Entries
  BY DEF Used, Directories, Files
<1>3. IsTree'
  <2>1. IsTree
    BY DEF TreeInv
  <2>2. ASSUME NEW i \in Directories' \cup Files', NEW j \in Directories' \cup Files', i # j
        PROVE  entries'[i].name # entries'[j].name \/ entries'[i].type # entries'[j].type
    BY <1>1, <1>2, <2>1, <2>2 DEF IsTree
  <2>3. ASSUME NEW i \in Used', NEW k \in 1..(Len(entries'[i].name) - 1)
        PROVE  \E d \in Directories' : entries'[d].name = SubSeq(entries'[i].name, 1, k)
    <3>1. entries'[i].name = entries[i].name /\ i \in Used
      BY <1>1, <1>2
    <3>2. PICK d \in Directories : entries[d].name = SubSeq(entries[i].name, 1, k)
      BY <2>1, <3>1 DEF IsTree
    <3> QED BY <1>1, <1>2, <3>1, <3>2
  <2> QED BY <2>2, <2>3 DEF IsTree
<1> QED BY <1>3, SizeFacts DEF TreeInv

\* What a creation comes to, when it is not refused: the entry i, which is not
\* in use, gets the name p.
IsCreated(i, p, type) ==
  /\ i \in Entries /\ i # 1 /\ i \notin Used
  /\ entries' = [entries EXCEPT ![i] =
        [name |-> p, type |-> type, size |-> 0,
         payload |-> IF type = "FILE" THEN current_location ELSE 0]]
  /\ entries' \in [Entries -> Entry]
  /\ entries'[i].name = p /\ entries'[i].type = type
  /\ \A j \in Entries : j # i => entries'[j] = entries[j]
  /\ current_location' = IF type = "FILE" THEN Taken(1) ELSE current_location
  /\ current_location' \in Bytes
  /\ directory' = directory
  /\ Used' = Used \cup {i}
  /\ Directories' = IF type = "DIRECTORY" THEN Directories \cup {i} ELSE Directories
  /\ Files' = IF type = "FILE" /\ p # ROOT THEN Files \cup {i} ELSE Files

\* What the tests before it say.
IsCreatable(n, p, type) ==
  /\ n.path # <<"">> /\ Proper(p) /\ (p = ROOT => type = "FILE")
  /\ p # ROOT => \A j \in Entries : entries[j].name = p => entries[j].type # type
  /\ \A k \in 1..(Len(p) - 1) :
       /\ Exists(SubSeq(p, 1, k), "DIRECTORY") \in Directories
       /\ entries[Exists(SubSeq(p, 1, k), "DIRECTORY")].name = SubSeq(p, 1, k)

LEMMA CreateFacts ==
  ASSUME TreeInv, NEW call, NEW n \in Names, NEW type \in {"FILE", "DIRECTORY"},
         Create(call, n, type), CreateError(n, type) = 0
  PROVE  /\ IsCreatable(n, Adjust(n), type)
         /\ \E i \in Entries : IsCreated(i, Adjust(n), type)
<1> DEFINE p == Adjust(n)
           above == {SubSeq(p, 1, k) : k \in 1..(Len(p) - 1)}
<1>1. /\ ~(n = [absolute |-> TRUE, path |-> ROOT] /\ type = "DIRECTORY")
      /\ n.path # <<"">>
      /\ IsRoot(Exists(p, type))
      /\ \A q \in above : ~IsRoot(Exists(q, "DIRECTORY"))
      /\ \E i \in Entries : entries[i].name = UNUSED
  <2> HIDE DEF above
  <2>0. 249 # 0 /\ 254 # 0 /\ 1 # 0 /\ 2 # 0 /\ 255 # 0
    OBVIOUS
  <2>1. ~(n = [absolute |-> TRUE, path |-> ROOT] /\ type = "DIRECTORY")
    BY <2>0, Zenon DEF CreateError
  <2>2. n.path # <<"">>
    BY <2>0, <2>1, Zenon DEF CreateError
  <2>3. IsRoot(Exists(p, type))
    BY <2>0, <2>1, <2>2, Zenon DEF CreateError
  <2>4. \A q \in above : ~IsRoot(Exists(q, "DIRECTORY"))
    BY <2>0, <2>1, <2>2, <2>3, Zenon DEF above, CreateError
  <2>5. \E i \in Entries : entries[i].name = UNUSED
    BY <2>0, <2>1, <2>2, <2>3, <2>4, Zenon DEF above, CreateError
  <2> QED BY <2>1, <2>2, <2>3, <2>4, <2>5
<1>2. Proper(p) /\ p # UNUSED /\ (p = ROOT => type = "FILE") /\ p \in Seq(Components)
  BY <1>1, AdjustFacts
<1> DEFINE free == {j \in Entries : entries[j].name = UNUSED}
           i == Min(free)
           payload == IF type = "FILE" THEN current_location ELSE 0
<1>3. i \in Entries /\ entries[i].name = UNUSED
  <2>1. free # {} /\ free \subseteq Nat
    BY <1>1, SizeFacts
  <2>2. i \in free
    BY <2>1, MinFacts
  <2> QED BY <2>2
<1>4. /\ entries' = [entries EXCEPT ![i] =
                      [name |-> p, type |-> type, size |-> 0, payload |-> payload]]
      /\ current_location' = IF type = "FILE" THEN Taken(1) ELSE current_location
      /\ directory' = directory
  BY DEF Create, Code
<1> HIDE DEF i, p
<1>5. /\ current_location \in Bytes /\ entries \in [Entries -> Entry]
      /\ current_location' \in Bytes
  BY <1>4, SizeFacts DEF TreeInv, Taken
<1>6. entries' \in [Entries -> Entry]
  <2>1. payload \in Bytes
    BY <1>5, SizeFacts
  <2> HIDE DEF payload
  <2>2. [name |-> p, type |-> type, size |-> 0, payload |-> payload] \in Entry
    BY <1>2, <2>1, SizeFacts DEF Entry
  <2> QED BY <1>3, <1>4, <1>5, <2>2
<1>7. /\ entries'[i].name = p /\ entries'[i].type = type
      /\ \A j \in Entries : j # i => entries'[j] = entries[j]
  BY <1>3, <1>4, <1>5
<1>8. ROOT # UNUSED /\ Proper(ROOT)
  BY RootFacts
<1>9. i # 1
  BY <1>3, <1>8 DEF TreeInv
<1>10. /\ Used' = Used \cup {i} /\ i \notin Used
       /\ Directories' = IF type = "DIRECTORY" THEN Directories \cup {i} ELSE Directories
       /\ Files' = IF type = "FILE" /\ p # ROOT THEN Files \cup {i} ELSE Files
  <2>1. \A j \in Entries :
          /\ entries'[j].name = IF j = i THEN p ELSE entries[j].name
          /\ entries'[j].type = IF j = i THEN type ELSE entries[j].type
    BY <1>7
  <2>2. Used' = Used \cup {i} /\ i \notin Used
    BY <1>2, <1>3, <2>1 DEF Used
  <2>3. /\ \A j \in Entries : j # i => (j \in Directories' <=> j \in Directories)
        /\ i \in Directories' <=> type = "DIRECTORY"
        /\ i \notin Directories
    BY <1>3, <2>1, <2>2 DEF Directories
  <2>4. /\ \A j \in Entries : j # i => (j \in Files' <=> j \in Files)
        /\ i \in Files' <=> type = "FILE" /\ p # ROOT
    BY <1>3, <2>1, <2>2, <2>3 DEF Files, IsRoot
  <2>5. Used \subseteq Entries /\ Used' \subseteq Entries
    BY DEF Used
  <2>6. Directories' = IF type = "DIRECTORY" THEN Directories \cup {i} ELSE Directories
    BY <1>3, <2>3, <2>5 DEF Directories
  <2>7. Files' = IF type = "FILE" /\ p # ROOT THEN Files \cup {i} ELSE Files
    <3>1. Files \subseteq Entries /\ Files' \subseteq Entries /\ i \notin Files
      BY <2>2, <2>5 DEF Files
    <3> QED BY <1>3, <2>4, <3>1
  <2> QED BY <2>2, <2>6, <2>7
<1>11. p # ROOT => \A j \in Entries : entries[j].name = p => entries[j].type # type
  <2>1. IsRoot(Exists(p, type))
    BY <1>1
  <2> QED BY <2>1, ExistsFacts DEF IsRoot
<1>12. ASSUME NEW k \in 1..(Len(p) - 1)
       PROVE  /\ Exists(SubSeq(p, 1, k), "DIRECTORY") \in Directories
              /\ entries[Exists(SubSeq(p, 1, k), "DIRECTORY")].name = SubSeq(p, 1, k)
  <2> DEFINE q == SubSeq(p, 1, k)
  <2>1. q \in above /\ q # UNUSED
    BY <1>2, ProperFacts
  <2> HIDE DEF q
  <2> DEFINE d == Exists(q, "DIRECTORY")
  <2>2. d \in Entries /\ entries[d].name = q /\ entries[d].type = "DIRECTORY"
    BY <1>1, <2>1, ExistsFacts
  <2> HIDE DEF d
  <2>3. d \in Directories
    BY <2>1, <2>2 DEF Directories, Used
  <2> QED BY <2>2, <2>3 DEF d, q
<1>13. IsCreatable(n, p, type)
  BY <1>1, <1>2, <1>11, <1>12 DEF IsCreatable
<1>14. IsCreated(i, p, type)
  BY <1>3, <1>4, <1>5, <1>6, <1>7, <1>9, <1>10 DEF IsCreated
<1> QED BY <1>3, <1>13, <1>14 DEF p

\* A new entry takes a place that is not in use, has a name that no other
\* entry of its type has, and is below directories that exist.
LEMMA CreateTree ==
  ASSUME TreeInv, NEW call, NEW n \in Names, NEW type \in {"FILE", "DIRECTORY"},
         Create(call, n, type)
  PROVE  TreeInv'
<1> DEFINE p == Adjust(n)
<1>1. CASE CreateError(n, type) # 0
  <2>1. UNCHANGED <<entries, current_location, directory>>
    BY <1>1 DEF Create, Code
  <2> QED BY <2>1, NamesKept DEF TreeInv
<1>2. CASE CreateError(n, type) = 0
  <2> HIDE DEF p
  <2>1. PICK i \in Entries : IsCreated(i, p, type)
    BY <1>2, CreateFacts DEF p
  <2>2. IsCreatable(n, p, type)
    BY <1>2, CreateFacts DEF p
  <2>3. /\ i # 1 /\ i \notin Used /\ entries' \in [Entries -> Entry]
        /\ entries'[i].name = p /\ entries'[i].type = type
        /\ \A j \in Entries : j # i => entries'[j] = entries[j]
        /\ current_location' \in Bytes /\ directory' = directory
        /\ Used' = Used \cup {i}
    BY <2>1 DEF IsCreated
  <2>4. /\ Directories \subseteq Directories'
        /\ Directories' \cup Files' \subseteq
              Directories \cup Files \cup (IF p = ROOT THEN {} ELSE {i})
    BY <2>1, <2>2 DEF IsCreated, IsCreatable
  <2>5. /\ Proper(p)
        /\ p # ROOT => \A j \in Entries : entries[j].name = p => entries[j].type # type
    BY <2>2 DEF IsCreatable
  <2>6. \A a, b \in Directories' \cup Files' : a # b =>
           entries'[a].name # entries'[b].name \/ entries'[a].type # entries'[b].type
    <3>1. ASSUME NEW a \in Directories' \cup Files', NEW b \in Directories' \cup Files', a # b
          PROVE  entries'[a].name # entries'[b].name \/ entries'[a].type # entries'[b].type
      <4>1. /\ a \in Directories \cup Files \/ (a = i /\ p # ROOT)
            /\ b \in Directories \cup Files \/ (b = i /\ p # ROOT)
            /\ a \in Entries /\ b \in Entries
        BY <2>3, <2>4 DEF Directories, Files, Used
      <4>2. CASE a # i /\ b # i
        <5>1. a \in Directories \cup Files /\ b \in Directories \cup Files
          BY <4>1, <4>2
        <5>2. entries'[a] = entries[a] /\ entries'[b] = entries[b]
          BY <2>3, <4>1, <4>2
        <5> QED BY <3>1, <5>1, <5>2 DEF TreeInv, IsTree
      <4>3. CASE a = i
        <5>1. p # ROOT
          BY <2>3, <2>4, <4>1, <4>3 DEF Directories, Files
        <5>2. entries'[b] = entries[b]
          BY <2>3, <3>1, <4>1, <4>3
        <5> QED BY <2>3, <2>5, <4>1, <4>3, <5>1, <5>2
      <4>4. CASE b = i
        <5>1. p # ROOT
          BY <2>3, <2>4, <4>1, <4>4 DEF Directories, Files
        <5>2. entries'[a] = entries[a]
          BY <2>3, <3>1, <4>1, <4>4
        <5> QED BY <2>3, <2>5, <4>1, <4>4, <5>1, <5>2
      <4> QED BY <4>2, <4>3, <4>4
    <3> QED BY <3>1
  <2>7. ASSUME NEW a \in Used', NEW k \in 1..(Len(entries'[a].name) - 1)
         PROVE  \E d \in Directories' : entries'[d].name = SubSeq(entries'[a].name, 1, k)
    <3>1. CASE a # i
      <4>1. a \in Used /\ entries'[a] = entries[a]
        BY <2>3, <2>4, <3>1 DEF Used
      <4>2. PICK d \in Directories : entries[d].name = SubSeq(entries[a].name, 1, k)
        BY <2>7, <4>1 DEF TreeInv, IsTree
      <4>3. d \in Directories' /\ entries'[d] = entries[d]
        BY <2>3, <2>4 DEF Directories, Used
      <4> QED BY <4>1, <4>2, <4>3
    <3>2. CASE a = i
      <4> DEFINE d == Exists(SubSeq(p, 1, k), "DIRECTORY")
      <4>1. k \in 1..(Len(p) - 1) /\ entries'[a].name = p
        BY <2>3, <2>7, <3>2
      <4>2. d \in Directories /\ entries[d].name = SubSeq(p, 1, k)
        BY <2>2, <4>1 DEF IsCreatable
      <4> HIDE DEF d
      <4>3. d \in Directories' /\ entries'[d] = entries[d]
        BY <2>3, <2>4, <4>2 DEF Directories, Used
      <4> QED BY <4>1, <4>2, <4>3
    <3> QED BY <3>1, <3>2
  <2>8. IsTree'
    BY <2>6, <2>7 DEF IsTree
  <2>9. /\ entries'[1].name = ROOT /\ entries'[1].type = "DIRECTORY"
         /\ \A j \in Entries : entries'[j].name = UNUSED \/ Proper(entries'[j].name)
    BY <2>3, <2>5, SizeFacts DEF TreeInv
  <2> QED BY <2>3, <2>8, <2>9 DEF TreeInv
<1> QED BY <1>1, <1>2

\* What a deletion comes to, when it is not refused: the entry i is not in use
\* any more.
IsDeleted(i) ==
  /\ i \in Entries /\ i # 1 /\ i \in Directories \cup Files
  /\ entries' = [entries EXCEPT ![i] = Unused]
  /\ entries' \in [Entries -> Entry]
  /\ entries'[i].name = UNUSED
  /\ \A j \in Entries : j # i => entries'[j] = entries[j]
  /\ Used' = Used \ {i}
  /\ Directories' = Directories \ {i}
  /\ Files' = Files \ {i}

\* The entry that _sfs_delete looks for: a file before a directory.
Sought(p) ==
  IF IsRoot(Exists(p, "FILE")) THEN Exists(p, "DIRECTORY") ELSE Exists(p, "FILE")

\* The result of _sfs_delete.
DeleteError(i) ==
  IF IsRoot(i) THEN 1 ELSE IF entries[i].type # "FILE" /\ NotEmpty(i) THEN 2 ELSE 0

LEMMA DeleteFacts ==
  ASSUME TreeInv, NEW n \in Names, Delete(n)
  PROVE  LET i == Sought(Adjust(n))
         IN /\ reply' = Code("delete", DeleteError(i))
            /\ UNCHANGED <<blocks, current_location, directory>>
            /\ DeleteError(i) # 0 => UNCHANGED entries
            /\ DeleteError(i) = 0 =>
                 /\ IsDeleted(i) /\ ~IsRoot(i) /\ entries[i].name = Adjust(n)
                 /\ entries[i].type = "FILE" \/ ~NotEmpty(i)
<1> DEFINE p == Adjust(n)
           i == Sought(p)
           file == entries[i].type = "FILE"
           error == DeleteError(i)
<1>1. /\ entries' = IF error = 0 THEN Cleared(i) ELSE entries
      /\ UNCHANGED <<blocks, current_location, directory>>
      /\ reply' = Code("delete", error)
  BY DEF Delete, Sought, DeleteError
<1>2. i \in Entries /\ (IsRoot(i) \/ entries[i].name = p) /\ p # UNUSED
  <2>1. p # UNUSED
    BY AdjustFacts
  <2> HIDE DEF p
  <2> QED BY <2>1, ExistsFacts DEF Sought
<1>3. error = 0 => ~IsRoot(i) /\ (file \/ ~NotEmpty(i))
  BY DEF DeleteError
<1> HIDE DEF i, error, p
<1>4. CASE error # 0
  BY <1>1, <1>4 DEF i, error, p
<1>5. CASE error = 0
  <2>1. entries' = [entries EXCEPT ![i] = Unused] /\ Unused \in Entry
    <3>1. UNUSED \in Seq(Components)
      BY DEF UNUSED, Components
    <3> QED BY <1>1, <1>5, <3>1, SizeFacts DEF Cleared, Unused, Entry
  <2>2. /\ entries' \in [Entries -> Entry]
        /\ entries'[i].name = UNUSED
        /\ \A j \in Entries : j # i => entries'[j] = entries[j]
    BY <1>2, <2>1 DEF Unused, TreeInv
  <2>3. i # 1 /\ ~IsRoot(i) /\ entries[i].name = p
    BY <1>2, <1>3, <1>5 DEF TreeInv, IsRoot
  <2>4. /\ Used' = Used \ {i}
        /\ Directories' = Directories \ {i}
        /\ Files' = Files \ {i}
    <3>1. Used' = Used \ {i}
      BY <1>2, <2>2 DEF Used
    <3>2. Directories' = Directories \ {i}
      BY <2>2, <3>1 DEF Directories, Used
    <3> QED BY <2>2, <3>1, <3>2 DEF Files, Used, IsRoot
  <2>5. i \in Directories \cup Files
    BY <1>2, <2>3 DEF Directories, Files, Used
  <2>6. IsDeleted(i)
    BY <1>2, <2>1, <2>2, <2>3, <2>4, <2>5 DEF IsDeleted
  <2> QED BY <1>1, <1>3, <1>5, <2>3, <2>6 DEF i, error, p
<1> QED BY <1>4, <1>5

\* An entry that is deleted is not the root, and when it is a directory the
\* name of no other entry begins with its own.
LEMMA DeleteTree ==
  ASSUME TreeInv, NEW n \in Names, Delete(n)
  PROVE  TreeInv'
<1> DEFINE i == Sought(Adjust(n))
<1> HIDE DEF i
<1>1. CASE DeleteError(i) # 0
  <2>1. UNCHANGED <<entries, current_location, directory>>
    BY <1>1, DeleteFacts DEF i
  <2> QED BY <2>1, NamesKept DEF TreeInv
<1>2. CASE DeleteError(i) = 0
  <2>1. /\ IsDeleted(i) /\ (entries[i].type = "FILE" \/ ~NotEmpty(i))
        /\ current_location' = current_location /\ directory' = directory
    BY <1>2, DeleteFacts DEF i
  <2>2. /\ entries' \in [Entries -> Entry] /\ i # 1
        /\ entries'[i].name = UNUSED
        /\ \A j \in Entries : j # i => entries'[j] = entries[j]
        /\ Used' = Used \ {i} /\ Directories' = Directories \ {i} /\ Files' = Files \ {i}
    BY <2>1 DEF IsDeleted
  <2>3. Used \subseteq Entries /\ Directories \subseteq Entries /\ Files \subseteq Entries
    BY DEF Used, Directories, Files
  <2>4. \A a, b \in Directories' \cup Files' : a # b =>
          entries'[a].name # entries'[b].name \/ entries'[a].type # entries'[b].type
    BY <2>2, <2>3 DEF TreeInv, IsTree
  <2>5. ASSUME NEW a \in Used', NEW k \in 1..(Len(entries'[a].name) - 1)
        PROVE  \E d \in Directories' : entries'[d].name = SubSeq(entries'[a].name, 1, k)
    <3>1. a \in Used /\ a # i /\ a \in Entries /\ entries'[a] = entries[a]
      BY <2>2, <2>3, <2>5
    <3> DEFINE q == entries[a].name
    <3>2. q # UNUSED /\ q \in Seq(Components) /\ k \in 1..(Len(q) - 1) /\ entries'[a].name = q
      BY <2>5, <3>1 DEF Entry, Used, TreeInv
    <3>3. PICK d \in Directories : entries[d].name = SubSeq(q, 1, k)
      BY <2>5, <3>1 DEF TreeInv, IsTree
    <3>4. CASE d # i
      BY <2>2, <2>3, <3>1, <3>3, <3>4
    <3>5. CASE d = i
      <4>1. entries[i].name = SubSeq(q, 1, k) /\ entries[i].type = "DIRECTORY"
        BY <3>3, <3>5 DEF Directories, Used
      <4>2. ~NameBegins(a, i)
        BY <2>1, <3>1, <4>1 DEF NotEmpty
      <4>3. NameBegins(a, i)
        BY <3>2, <4>1, BeginningFacts DEF NameBegins
      <4> QED BY <4>2, <4>3
    <3> QED BY <3>4, <3>5
  <2>6. IsTree'
    BY <2>4, <2>5 DEF IsTree
  <2>7. /\ entries'[1].name = ROOT /\ entries'[1].type = "DIRECTORY"
        /\ \A j \in Entries : entries'[j].name = UNUSED \/ Proper(entries'[j].name)
    BY <2>2, SizeFacts DEF TreeInv
  <2> QED BY <2>1, <2>2, <2>6, <2>7 DEF TreeInv
<1> QED BY <1>1, <1>2

\* A write changes the size of an entry and where the next block is.
LEMMA WriteTree ==
  ASSUME TreeInv, NEW n \in Names, NEW t \in Texts, NEW append \in BOOLEAN,
         Write(n, t, append)
  PROVE  TreeInv'
<1> DEFINE i == Exists(Adjust(n), "FILE")
           spot == WriteSpot(i, append)
           more == MoreBlocks(spot, Len(t))
           size == IF append THEN (entries[i].size + Len(t)) % N_SIZES ELSE Len(t)
<1>1. /\ entries \in [Entries -> Entry] /\ current_location \in Bytes
      /\ Proper(directory) /\ i \in Entries /\ entries[i].size \in Nat
  BY ExistsFacts DEF TreeInv, Entry
<1>2. Len(t) \in Nat /\ Len(t) < N_SIZES /\ N_SIZES \in Nat
  BY FileSystemAssumption, LenProperties
<1>3. more \in Int
  <2>1. spot \in Int
    BY <1>1 DEF WriteSpot
  <2> HIDE DEF spot
  <2> QED BY <1>2, <2>1, SizeFacts DEF MoreBlocks, FirstPart
<1>4. /\ directory' = directory
      /\ entries' = entries \/ entries' = [entries EXCEPT ![i].size = size]
      /\ current_location' = current_location \/ current_location' = Taken(more)
  BY DEF Write
<1> HIDE DEF i, more
<1>5. current_location' \in Bytes
  <2>1. current_location + more \in Int
    BY <1>1, <1>3, SizeFacts
  <2> QED BY <1>1, <1>4, <2>1, SizeFacts DEF Taken
<1>6. CASE entries' = entries
  BY <1>1, <1>4, <1>5, <1>6, NamesKept
<1>7. CASE entries' # entries
  <2>1. size \in 0..(N_SIZES - 1)
    <3>1. entries[i].size + Len(t) \in Int
      BY <1>1, <1>2
    <3>2. (entries[i].size + Len(t)) % N_SIZES \in 0..(N_SIZES - 1)
      BY <3>1, SizeFacts
    <3> QED BY <1>2, <3>2
  <2>2. entries' = [entries EXCEPT ![i].size = size]
    BY <1>4, <1>7
  <2> HIDE DEF size
  <2>3. \A e \in Entry : /\ [e EXCEPT !.size = size] \in Entry
                          /\ [e EXCEPT !.size = size].name = e.name
                          /\ [e EXCEPT !.size = size].type = e.type
    BY <2>1 DEF Entry
  <2>4. \A j \in Entries : entries'[j] = IF j = i THEN [entries[j] EXCEPT !.size = size] ELSE entries[j]
    BY <1>1, <2>2
  <2>5. /\ entries' \in [Entries -> Entry]
        /\ \A j \in Entries : /\ entries'[j].name = entries[j].name
                               /\ entries'[j].type = entries[j].type
    BY <1>1, <2>2, <2>3, <2>4
  <2> QED BY <1>1, <1>4, <1>5, <2>5, NamesKept
<1> QED BY <1>6, <1>7

\* The current directory becomes the root or the name of an entry in use.
LEMMA SetDirectoryTree ==
  ASSUME TreeInv, NEW n \in Names, SetDirectory(n)
  PROVE  TreeInv'
<1> DEFINE p == Adjust(n)
<1>1. /\ entries' = entries /\ current_location' = current_location
      /\ \/ directory' = directory
         \/ /\ directory' = p
            /\ \/ n = [absolute |-> TRUE, path |-> ROOT]
               \/ ~IsRoot(Exists(p, "DIRECTORY"))
  BY DEF SetDirectory
<1>2. CASE n = [absolute |-> TRUE, path |-> ROOT] /\ directory' = p
  <2>1. p = ROOT
    BY <1>2 DEF Adjust
  <2> QED BY <1>1, <1>2, <2>1, RootFacts, NamesKept DEF TreeInv
<1>3. CASE ~IsRoot(Exists(p, "DIRECTORY")) /\ directory' = p
  <2>1. PICK j \in Entries : entries[j].name = p
    BY <1>3, ExistsFacts
  <2>2. Proper(p)
    BY <2>1, AdjustFacts DEF TreeInv
  <2> QED BY <1>1, <1>3, <2>2, NamesKept DEF TreeInv
<1>4. CASE directory' = directory
  BY <1>1, <1>4, NamesKept DEF TreeInv
<1> QED BY <1>1, <1>2, <1>3, <1>4

-----------------------------------------------------------------------------
(* The blocks.                                                             *)

BlockTables == [Bytes -> [Cells -> Bytes]]

\* h goes from block to block, over their cells NEXT.
IsWalk(h, payload) ==
  /\ h[0] = payload
  /\ \A n \in 1..N_BYTES : h[n] = blocks[h[n - 1]][NEXT]

\* What the proofs use of the size of a block.
LEMMA CellFacts ==
  /\ NEXT \in Cells /\ \A k \in 1..N_DATA : k \in Cells
  /\ Cells = 0..N_DATA
BY FileSystemAssumption DEF Cells, NEXT, N_DATA

\* The loop of _sfs_delete and _sfs_read goes over blocks, the first of which
\* is the file's, and no others if that names none.
LEMMA ChainFacts ==
  ASSUME blocks \in BlockTables, NEW payload \in Bytes
  PROVE  /\ Chain(payload) \in Seq(Bytes) /\ Chain(payload) # <<>>
         /\ Len(Chain(payload)) \in 1..(N_BYTES + 1)
         /\ Chain(payload)[1] = payload
         /\ blocks[payload][NEXT] = 0 => Chain(payload) = <<payload>>
<1> DEFINE Walks(f) == f = [n \in 0..N_BYTES |-> IF n = 0 THEN payload ELSE blocks[f[n - 1]][NEXT]]
           at == CHOOSE f : Walks(f)
           ends == {n \in 1..N_BYTES : at[n] = 0}
           m == IF ends = {} THEN N_BYTES + 1 ELSE Min(ends)
           chain == [n \in 1..m |-> at[n - 1]]
<1>1. N_BYTES \in Nat /\ N_BYTES > 0
  BY SizeFacts
<1>2. Chain(payload) = chain
  BY DEF Chain
<1>3. Walks(at) /\ at \in [0..N_BYTES -> Bytes]
  <2> DEFINE G == [b \in Bytes |-> blocks[b][NEXT]]
  <2>1. G \in [Bytes -> Bytes]
    BY CellFacts DEF BlockTables
  <2>2. PICK h \in [0..N_BYTES -> Bytes] : IsIteration(h, G, payload, N_BYTES)
    <3> HIDE DEF G
    <3> QED BY <1>1, <2>1, IterationExists
  <2>3. \A n \in 1..N_BYTES : h[n] = blocks[h[n - 1]][NEXT]
    <3> TAKE n \in 1..N_BYTES
    <3>1. n - 1 \in 0..N_BYTES
      BY <1>1
    <3> QED BY <2>2, <3>1 DEF IsIteration
  <2>4. Walks(h)
    <3>1. \A n \in 0..N_BYTES : n # 0 => n \in 1..N_BYTES
      BY <1>1
    <3>2. h[0] = payload
      BY <2>2 DEF IsIteration
    <3> QED BY <2>2, <2>3, <3>1, <3>2
  <2>5. Walks(at)
    BY <2>4
  <2> DEFINE S == {n \in 0..N_BYTES : at[n] \in Bytes}
  <2> HIDE DEF at
  <2>6. 0 \in S
    BY <1>1, <2>5
  <2>7. ASSUME NEW n \in 0..(N_BYTES - 1), n \in S PROVE n + 1 \in S
    <3>1. n + 1 \in 0..N_BYTES /\ n + 1 # 0 /\ (n + 1) - 1 = n
      BY <1>1
    <3>2. at[n + 1] = blocks[at[n]][NEXT]
      BY <2>5, <3>1
    <3> QED BY <2>7, <3>1, <3>2, CellFacts, ZenonT(60) DEF BlockTables
  <2> HIDE DEF S
  <2>8. 0..N_BYTES \subseteq S
    BY <1>1, <2>6, <2>7, IntervalInduction
  <2> QED BY <2>5, <2>8 DEF S
<1> HIDE DEF at
<1>4. m \in 1..(N_BYTES + 1) /\ (ends # {} => m \in ends /\ \A n \in ends : m <= n)
  <2>1. CASE ends = {}
    BY <1>1, <2>1
  <2>2. CASE ends # {}
    <3>1. ends \subseteq Nat
      BY <1>1
    <3>2. Min(ends) \in ends /\ \A y \in ends : Min(ends) <= y
      <4> HIDE DEF ends
      <4> QED BY <2>2, <3>1, MinFacts
    <3> QED BY <1>1, <2>2, <3>2
  <2> QED BY <2>1, <2>2
<1> HIDE DEF m
<1>5. chain \in [1..m -> Bytes] /\ 1 \in 1..m /\ chain[1] = payload /\ m \in Nat
  <2>1. \A n \in 1..m : n - 1 \in 0..N_BYTES
    BY <1>1, <1>4
  <2>2. 1 \in 1..m /\ at[0] = payload /\ m \in Nat
    BY <1>1, <1>3, <1>4
  <2>3. \A n \in 1..m : at[n - 1] \in Bytes
    BY <1>3, <2>1
  <2>4. chain[1] = at[0]
    BY <2>2
  <2> QED BY <2>2, <2>3, <2>4
<1> HIDE DEF chain
<1>6. chain \in Seq(Bytes) /\ Len(chain) = m
  BY <1>5, FunctionIsSeq
<1>7. ASSUME blocks[payload][NEXT] = 0 PROVE chain = <<payload>>
  <2>1. 1 \in 1..N_BYTES /\ at[1] = blocks[at[0]][NEXT] /\ at[0] = payload
    BY <1>1, <1>3
  <2>2. 1 \in ends
    BY <1>7, <2>1
  <2>3. m = 1
    BY <1>4, <2>2
  <2>4. <<payload>> \in Seq(Bytes) /\ Len(<<payload>>) = 1 /\ <<payload>>[1] = payload
    OBVIOUS
  <2>5. \A n \in 1..Len(chain) : n = 1
    BY <1>6, <2>3
  <2> QED BY <1>5, <1>6, <2>3, <2>4, <2>5, SeqEqual
<1>8. chain # <<>>
  BY <1>4, <1>6
<1> QED BY <1>2, <1>4, <1>5, <1>6, <1>7, <1>8

\* The bytes of a list of blocks.
LEMMA ContentsFacts ==
  ASSUME blocks \in BlockTables, NEW chain \in Seq(Bytes), chain # <<>>, NEW size \in Nat
  PROVE  Contents(chain, size) \in Seq(Bytes)
<1> DEFINE n == Len(chain)
           m == Min({size, N_DATA * n})
<1>1. n \in Nat /\ n > 0 /\ N_DATA \in Nat /\ N_DATA > 0 /\ N_DATA * n \in Nat
  BY SizeFacts
<1>2. m = (IF size <= N_DATA * n THEN size ELSE N_DATA * n) /\ m \in Nat
  <2>1. N_DATA * n \in Int /\ size \in Int
    BY <1>1
  <2>2. m = IF size <= N_DATA * n THEN size ELSE N_DATA * n
    BY <2>1, MinMaxOfTwo
  <2> QED BY <1>1, <2>2
<1> HIDE DEF m
<1>3. ASSUME NEW k \in 1..m
      PROVE  blocks[chain[1 + (k - 1) \div N_DATA]][1 + ((k - 1) % N_DATA)] \in Bytes
  <2> DEFINE a == (k - 1) \div N_DATA
             r == (k - 1) % N_DATA
  <2>1. k - 1 \in Nat /\ k - 1 < N_DATA * n
    BY <1>1, <1>2
  <2>2. a \in Nat /\ r \in 0..(N_DATA - 1)
    BY <1>1, <2>1
  <2>3. a * N_DATA <= k - 1
    BY <1>1, <2>1
  <2> HIDE DEF a, r
  <2>4. a < n
    <3> SUFFICES ASSUME a >= n PROVE FALSE
      BY <1>1, <2>2
    <3>1. a * N_DATA >= N_DATA * n
      BY <1>1, <2>2
    <3> QED BY <1>1, <2>1, <2>2, <2>3, <3>1
  <2>5. 1 + a \in 1..n /\ 1 + r \in 1..N_DATA
    BY <1>1, <2>2, <2>4
  <2>6. chain[1 + a] \in Bytes /\ 1 + r \in Cells
    BY <2>5, CellFacts, ElementOfSeq
  <2>7. blocks[chain[1 + a]][1 + r] \in Bytes
    BY <2>6 DEF BlockTables
  <2> QED BY <2>7 DEF a, r
<1>4. Contents(chain, size) \in [1..m -> Bytes]
  BY <1>3 DEF Contents, m
<1> QED BY <1>2, <1>4, FunctionIsSeq

\* What the caller of _sys_read_file sees of them.
LEMMA CStringFacts ==
  ASSUME NEW s \in Seq(Bytes)
  PROVE  CString(s) \in Seq(Bytes)
<1> DEFINE I == {i \in 1..Len(s) : s[i] = 0}
           end == SelectInSeq(s, LAMBDA c : c = 0)
<1>1. Len(s) \in Nat /\ \A i \in 1..Len(s) : s[i] \in Bytes
  BY LenProperties, ElementOfSeq
<1>2. end = IF I # {} THEN Min(I) ELSE 0
  BY DEF SelectInSeq
<1>3. end = 0 \/ end \in 1..Len(s)
  <2>1. I \subseteq Nat /\ I \subseteq 1..Len(s)
    BY <1>1
  <2> HIDE DEF I, end
  <2> QED BY <1>2, <2>1, MinFacts
<1> HIDE DEF I, end
<1>4. CString(s) = IF end = 0 THEN s ELSE SubSeq(s, 1, end - 1)
  BY DEF CString, end
<1>5. CASE end # 0
  <2>1. 1 \in Int /\ end - 1 \in Int /\ \A i \in 1..(end - 1) : s[i] \in Bytes
    BY <1>1, <1>3, <1>5
  <2> QED BY <1>4, <1>5, <2>1, SubSeqProperties
<1> QED BY <1>4, <1>5

\* Storing bytes in a block changes that block only, from cell c on.
LEMMA StoreFacts ==
  ASSUME NEW d \in BlockTables, NEW b \in Bytes, NEW c \in Int, NEW s \in Seq(Bytes)
  PROVE  /\ Store(d, b, c, s) \in BlockTables
         /\ \A o \in Bytes : o # b => Store(d, b, c, s)[o] = d[o]
         /\ \A x \in Cells :
              Store(d, b, c, s)[b][x] =
                IF x \in c..(c + Len(s) - 1) THEN s[x - c + 1] ELSE d[b][x]
<1> DEFINE block == [x \in Cells |-> IF x \in c..(c + Len(s) - 1) THEN s[x - c + 1] ELSE d[b][x]]
<1>1. Len(s) \in Nat /\ \A k \in 1..Len(s) : s[k] \in Bytes
  BY LenProperties, ElementOfSeq
<1>2. block \in [Cells -> Bytes]
  <2>1. ASSUME NEW x \in Cells
        PROVE  (IF x \in c..(c + Len(s) - 1) THEN s[x - c + 1] ELSE d[b][x]) \in Bytes
    <3>1. CASE x \in c..(c + Len(s) - 1)
      <4>1. x - c + 1 \in 1..Len(s)
        BY <1>1, <3>1
      <4> QED BY <1>1, <3>1, <4>1
    <3>2. CASE x \notin c..(c + Len(s) - 1)
      BY <3>2 DEF BlockTables
    <3> QED BY <3>1, <3>2
  <2> QED BY <2>1
<1>3. Store(d, b, c, s) = [d EXCEPT ![b] = block]
  BY DEF Store
<1>4. \A x \in Cells : block[x] = IF x \in c..(c + Len(s) - 1) THEN s[x - c + 1] ELSE d[b][x]
  OBVIOUS
<1> HIDE DEF block
<1> QED BY <1>2, <1>3, <1>4 DEF BlockTables

\* The part of a text that goes to the k-th block behind the first one.
Part(t, first, k) == SubSeq(t, first + (k - 1) * N_DATA + 1, Min({Len(t), first + k * N_DATA}))

\* What _sfs_write stores is in every set that holds what the first block is
\* after it and, with each state of the blocks, the one after the next part.
LEMMA StoredIn ==
  ASSUME NEW A, NEW i, NEW spot, NEW t, NEW first, NEW more \in Nat,
         first = FirstPart(spot, Len(t)), more = MoreBlocks(spot, Len(t)),
         Store(blocks, entries[i].payload, 1 + spot, SubSeq(t, 1, first)) \in A,
         \A d \in A, k \in 1..more : Store(d, Taken(k - 1), 1, Part(t, first, k)) \in A
  PROVE  Stored(i, spot, t) \in A
<1> DEFINE a == Store(blocks, entries[i].payload, 1 + spot, SubSeq(t, 1, first))
           G == [q \in A \X (1..more) |-> Store(q[1], Taken(q[2] - 1), 1, Part(t, first, q[2]))]
           s == [k \in 1..more |-> k]
           Folds(f) == f = [T \in SUBSET DOMAIN s |-> IF T = {} THEN a
             ELSE Store(f[T \ {Max(T)}], Taken(s[Max(T)] - 1), 1, Part(t, first, s[Max(T)]))]
           F == CHOOSE f : Folds(f)
<1>1. G \in [A \X (1..more) -> A] /\ s \in [1..more -> 1..more] /\ DOMAIN s = 1..more /\ a \in A
  OBVIOUS
<1>2. Stored(i, spot, t) = F[1..more]
  BY DEF Stored, FoldLeft, MapThenFoldSet, Part
<1>3. \E f : Folds(f)
  <2>1. PICK f \in [SUBSET (1..more) -> A] : IsFold(f, G, a, s, more)
    <3> HIDE DEF G, s, a
    <3> QED BY <1>1, FoldExists
  <2>2. ASSUME NEW T \in SUBSET (1..more), T # {}
        PROVE  G[<<f[T \ {Max(T)}], s[Max(T)]>>]
                 = Store(f[T \ {Max(T)}], Taken(s[Max(T)] - 1), 1, Part(t, first, s[Max(T)]))
    <3>1. Max(T) \in 1..more /\ T \ {Max(T)} \in SUBSET (1..more)
      BY <2>2, MaxFacts
    <3> QED BY <3>1
  <2> HIDE DEF G, a
  <2>3. Folds(f)
    <3>1. SUBSET DOMAIN s = SUBSET (1..more)
      BY <1>1
    <3> HIDE DEF s
    <3> QED BY <2>1, <2>2, <3>1 DEF IsFold
  <2> QED BY <2>3
<1>4. Folds(F)
  BY <1>3
<1> HIDE DEF F
<1>5. IsFoldIn(A, F, G, a, s, more)
  <2>1. F[{}] = a
    BY <1>4
  <2>2. ASSUME NEW T \in SUBSET (1..more), T # {}, F[T \ {Max(T)}] \in A
        PROVE  F[T] = G[<<F[T \ {Max(T)}], s[Max(T)]>>]
    <3>1. Max(T) \in 1..more
      BY <2>2, MaxFacts
    <3>2. F[T] = Store(F[T \ {Max(T)}], Taken(s[Max(T)] - 1), 1, Part(t, first, s[Max(T)]))
      BY <1>4, <2>2
    <3> QED BY <2>2, <3>1, <3>2
  <2> HIDE DEF G, s, a
  <2> QED BY <2>1, <2>2 DEF IsFoldIn
<1> HIDE DEF G, s, a
<1>6. IsFoldEnd(A, F[1..more], G, a, s, more)
  BY <1>1, <1>5, FoldChain
<1>7. more \in 0..more
  OBVIOUS
<1> QED BY <1>2, <1>6, <1>7 DEF IsFoldEnd

\* The texts of FileSystemAbs are bytes.
LEMMA TextFacts == \A t \in Texts : t \in Seq(Bytes)
BY FileSystemAssumption DEF Bytes

\* The parts of a text are bytes, if it is not stored past the block.
LEMMA PartFacts ==
  ASSUME NEW t \in Seq(Bytes), NEW spot \in Int, spot >= -1, ~(spot > 0 /\ spot + Len(t) > N_DATA)
  PROVE  LET first == FirstPart(spot, Len(t))
             more == MoreBlocks(spot, Len(t))
         IN /\ first \in 0..Len(t) /\ more \in Nat
            /\ SubSeq(t, 1, first) \in Seq(Bytes) /\ Len(SubSeq(t, 1, first)) = first
            /\ \A x \in 1..first : SubSeq(t, 1, first)[x] = t[x]
            /\ \A k \in 1..more : Part(t, first, k) \in Seq(Bytes)
<1> DEFINE n == Len(t)
           first == FirstPart(spot, n)
           more == MoreBlocks(spot, n)
<1>1. t \in Seq(Bytes) /\ n \in Nat /\ N_DATA \in Nat /\ N_DATA > 0
      /\ \A x \in 1..n : t[x] \in Bytes
  BY SizeFacts, LenProperties, ElementOfSeq
<1>2. first \in 0..n
  BY <1>1 DEF FirstPart
<1>3. more \in Nat
  <2>1. more = (n - first + N_DATA - 1) \div N_DATA
    BY DEF MoreBlocks
  <2> HIDE DEF first, more, n
  <2>2. n - first + N_DATA - 1 \in Nat
    BY <1>1, <1>2
  <2>3. \A x \in Nat : x \div N_DATA \in Nat
    BY <1>1
  <2> QED BY <2>1, <2>2, <2>3
<1> HIDE DEF first, more, n
<1>4. SubSeq(t, 1, first) \in Seq(Bytes) /\ Len(SubSeq(t, 1, first)) = first
      /\ \A x \in 1..first : SubSeq(t, 1, first)[x] = t[x]
  <2>1. 1 \in Int /\ first \in Int /\ \A x \in 1..first : t[x] \in Bytes
    BY <1>1, <1>2
  <2>2. /\ SubSeq(t, 1, first) \in Seq(Bytes)
        /\ Len(SubSeq(t, 1, first)) = IF 1 <= first THEN first - 1 + 1 ELSE 0
        /\ \A x \in 1..(first - 1 + 1) : SubSeq(t, 1, first)[x] = t[1 + x - 1]
    BY <2>1, SubSeqProperties
  <2>3. first - 1 + 1 = first /\ (~(1 <= first) => first = 0) /\ \A x \in 1..first : 1 + x - 1 = x
    BY <1>1, <1>2
  <2> QED BY <2>2, <2>3
<1>5. ASSUME NEW k \in 1..more PROVE Part(t, first, k) \in Seq(Bytes)
  <2> DEFINE from == first + (k - 1) * N_DATA + 1
             to == Min({n, first + k * N_DATA})
  <2>1. (k - 1) * N_DATA \in Nat /\ k * N_DATA \in Nat
    BY <1>1
  <2>2. from \in Nat /\ from >= 1 /\ first + k * N_DATA \in Int
    BY <1>1, <1>2, <2>1
  <2>3. to = IF n <= first + k * N_DATA THEN n ELSE first + k * N_DATA
    BY <1>1, <2>2, MinMaxOfTwo
  <2>4. to \in Int /\ to <= n
    BY <1>1, <2>2, <2>3
  <2> HIDE DEF from, to
  <2>5. \A x \in from..to : t[x] \in Bytes
    BY <1>1, <2>2, <2>4
  <2>6. SubSeq(t, from, to) \in Seq(Bytes)
    BY <2>2, <2>4, <2>5, SubSeqProperties
  <2> QED BY <2>6 DEF Part, from, to, n
<1> QED BY <1>2, <1>3, <1>4, <1>5 DEF first, more, n

\* What has a type besides the table, which TreeInv is about.
RestOK ==
  /\ blocks \in BlockTables
  /\ reply.code \in 0..255 /\ reply.text \in Seq(Bytes)
  /\ broken \in {"", "loops", "stores past the block"}

LEMMA RestFacts ==
  ASSUME blocks' \in BlockTables, broken' \in {"", "loops", "stores past the block"},
         NEW call, NEW c \in 0..255, reply' = Code(call, c)
  PROVE  RestOK'
BY EmptySeq DEF Code, RestOK

LEMMA EntryFacts ==
  ASSUME TreeInv, NEW p, NEW type
  PROVE  LET i == Exists(p, type)
         IN i \in Entries /\ entries[i].size \in Nat /\ entries[i].payload \in Bytes
<1>1. \A e \in Entry : e.size \in Nat /\ e.payload \in Bytes
  BY SizeFacts DEF Entry
<1> QED BY <1>1, ExistsFacts DEF TreeInv

LEMMA WriteRest ==
  ASSUME TreeInv, RestOK, NEW n \in Names, NEW t \in Texts, NEW append \in BOOLEAN,
         Write(n, t, append)
  PROVE  RestOK'
<1> DEFINE i == Exists(Adjust(n), "FILE")
           spot == WriteSpot(i, append)
           past == spot > 0 /\ spot + Len(t) > N_DATA
           first == FirstPart(spot, Len(t))
           more == MoreBlocks(spot, Len(t))
<1>1. /\ i \in Entries /\ entries[i].size \in Nat /\ entries[i].payload \in Bytes
      /\ current_location \in Nat /\ blocks \in BlockTables
  BY EntryFacts, SizeFacts DEF TreeInv, RestOK
<1>2. spot \in Int /\ spot >= -1
  BY <1>1 DEF WriteSpot
<1>3. /\ blocks' = blocks \/ (~past /\ blocks' = Stored(i, spot, t))
      /\ broken' = broken \/ broken' = "" \/ broken' = "stores past the block"
      /\ reply' = Code(IF append THEN "append" ELSE "write", IF IsRoot(i) THEN 1 ELSE 0)
  BY DEF Write
<1> HIDE DEF i, spot
<1>4. ASSUME ~past PROVE Stored(i, spot, t) \in BlockTables
  <2>1. /\ first \in 0..Len(t) /\ more \in Nat /\ SubSeq(t, 1, first) \in Seq(Bytes)
        /\ \A k \in 1..more : Part(t, first, k) \in Seq(Bytes)
    BY <1>2, <1>4, PartFacts, TextFacts
  <2>2. Store(blocks, entries[i].payload, 1 + spot, SubSeq(t, 1, first)) \in BlockTables
    <3> DEFINE u == SubSeq(t, 1, first)
    <3>1. 1 + spot \in Int /\ u \in Seq(Bytes)
      BY <1>2, <2>1
    <3> HIDE DEF u
    <3> QED BY <1>1, <3>1, StoreFacts DEF u
  <2>3. \A d \in BlockTables, k \in 1..more : Store(d, Taken(k - 1), 1, Part(t, first, k)) \in BlockTables
    <3> TAKE d \in BlockTables, k \in 1..more
    <3>1. current_location + (k - 1) \in Int
      BY <1>1
    <3>2. Taken(k - 1) \in Bytes
      BY <3>1, SizeFacts DEF Taken
    <3>3. PICK v : v = Part(t, first, k)
      OBVIOUS
    <3>4. v \in Seq(Bytes) /\ 1 \in Int
      BY <2>1, <3>3
    <3>5. Store(d, Taken(k - 1), 1, v) \in BlockTables
      BY <3>2, <3>4, StoreFacts
    <3> QED BY <3>3, <3>5
  <2> HIDE DEF first, more
  <2> QED BY <2>1, <2>2, <2>3, StoredIn DEF first, more
<1>5. blocks' \in BlockTables
  BY <1>3, <1>4 DEF RestOK
<1>6. broken' \in {"", "loops", "stores past the block"}
  BY <1>3 DEF RestOK
<1>7. 0 \in 0..255 /\ 1 \in 0..255
  OBVIOUS
<1> QED BY <1>3, <1>5, <1>6, <1>7, RestFacts

LEMMA DeleteRest ==
  ASSUME TreeInv, RestOK, NEW n \in Names, Delete(n)
  PROVE  RestOK'
<1> DEFINE p == Adjust(n)
           f == Exists(p, "FILE")
           i == IF IsRoot(f) THEN Exists(p, "DIRECTORY") ELSE f
           file == entries[i].type = "FILE"
           error == IF IsRoot(i) THEN 1 ELSE IF ~file /\ NotEmpty(i) THEN 2 ELSE 0
<1>1. /\ reply' = Code("delete", error) /\ blocks' = blocks
      /\ broken' = "" \/ broken' = "loops"
  BY DEF Delete
<1>2. error \in 0..255
  OBVIOUS
<1> HIDE DEF error
<1> QED BY <1>1, <1>2, RestFacts DEF RestOK

LEMMA ReadRest ==
  ASSUME TreeInv, RestOK, NEW n \in Names, Read(n)
  PROVE  RestOK'
<1> DEFINE i == Exists(Adjust(n), "FILE")
           chain == Chain(entries[i].payload)
           data == Contents(chain, entries[i].size)
           text == IF IsRoot(i) THEN <<>> ELSE IF data = <<>> THEN <<Blank>> ELSE CString(data)
<1>1. i \in Entries /\ entries[i].size \in Nat /\ entries[i].payload \in Bytes
  BY EntryFacts
<1>2. /\ reply' = [Code("read", 0) EXCEPT !.text = text]
      /\ broken' = "" \/ broken' = "loops"
      /\ blocks' = blocks
  BY DEF Read
<1>3. data \in Seq(Bytes)
  <2>1. chain \in Seq(Bytes) /\ chain # <<>>
    BY <1>1, ChainFacts DEF RestOK
  <2> HIDE DEF chain
  <2> QED BY <1>1, <2>1, ContentsFacts DEF RestOK
<1> HIDE DEF data, i
<1>4. text \in Seq(Bytes)
  <2>1. Blank \in Bytes
    BY FileSystemAssumption DEF Bytes
  <2>2. <<Blank>> \in Seq(Bytes) /\ <<>> \in Seq(Bytes)
    BY <2>1
  <2> QED BY <1>3, <2>2, CStringFacts
<1> HIDE DEF text
<1>5. reply'.code = 0 /\ reply'.text = text
  BY <1>2 DEF Code
<1>6. blocks' \in BlockTables /\ broken' \in {"", "loops", "stores past the block"}
  BY <1>2 DEF RestOK
<1>7. reply'.code \in 0..255
  BY <1>5
<1> QED BY <1>4, <1>5, <1>6, <1>7 DEF RestOK

LEMMA NextRest == TreeInv /\ RestOK /\ [Next]_vars => RestOK'
<1> SUFFICES ASSUME TreeInv, RestOK, [Next]_vars PROVE RestOK'
  OBVIOUS
<1>0. blocks \in BlockTables /\ broken \in {"", "loops", "stores past the block"}
  BY DEF RestOK
<1>1. ASSUME NEW call, NEW n \in Names, NEW type, Create(call, n, type) PROVE RestOK'
  <2>1. CreateError(n, type) \in 0..255
    BY DEF CreateError
  <2>2. reply' = Code(call, CreateError(n, type)) /\ UNCHANGED <<blocks, broken>>
    BY <1>1 DEF Create
  <2> QED BY <1>0, <2>1, <2>2, RestFacts
<1>2. ASSUME NEW n \in Names, SetDirectory(n) PROVE RestOK'
  <2>1. PICK c \in {0, 255} : reply' = Code("cd", c) /\ blocks' = blocks /\ broken' = broken
    BY <1>2 DEF SetDirectory
  <2>2. c \in 0..255
    OBVIOUS
  <2> QED BY <1>0, <2>1, <2>2, RestFacts
<1>3. ASSUME ListFiles PROVE RestOK'
  <2> DEFINE names == FoldLeft(Listed, <<>>, [i \in Entries |-> entries[i].name])
  <2>1. reply' = [Code("list", 0) EXCEPT !.names = names] /\ UNCHANGED <<blocks, broken>>
    BY <1>3 DEF ListFiles
  <2> HIDE DEF names
  <2>2. reply'.code = 0 /\ reply'.text = <<>>
    BY <2>1 DEF Code
  <2>3. reply'.code \in 0..255 /\ reply'.text \in Seq(Bytes)
    BY <2>2, EmptySeq
  <2> QED BY <1>0, <2>1, <2>3 DEF RestOK
<1>4. CASE UNCHANGED vars
  BY <1>4 DEF vars, RestOK
<1>5. ASSUME NEW n \in Names, CreateFile(n) \/ CreateDirectory(n) PROVE RestOK'
  BY <1>1, <1>5 DEF CreateFile, CreateDirectory
<1>6. ASSUME NEW n \in Names, NEW t \in Texts, NEW append \in BOOLEAN, Write(n, t, append)
      PROVE  RestOK'
  BY <1>6, WriteRest
<1>7. ASSUME NEW n \in Names, Delete(n) \/ Read(n) PROVE RestOK'
  BY <1>7, DeleteRest, ReadRest
<1> QED BY <1>2, <1>3, <1>4, <1>5, <1>6, <1>7 DEF Next

\* The file that a call is about, if it is there.
LEMMA FileFound ==
  ASSUME TreeInv, NEW n \in Names, ~IsRoot(Exists(Adjust(n), "FILE"))
  PROVE  /\ Exists(Adjust(n), "FILE") \in Files
         /\ entries[Exists(Adjust(n), "FILE")].name = Adjust(n)
         /\ entries[Exists(Adjust(n), "FILE")].type = "FILE"
<1> DEFINE p == Adjust(n)
           i == Exists(p, "FILE")
<1>1. p # UNUSED
  BY AdjustFacts
<1>2. i \in Entries /\ ~IsRoot(i) /\ entries[i].name = p /\ entries[i].type = "FILE"
  <2> HIDE DEF p
  <2>1. ~IsRoot(i)
    BY DEF p
  <2> QED BY <2>1, ExistsFacts
<1> HIDE DEF i, p
<1>3. i \in Used /\ i \notin Directories
  BY <1>1, <1>2 DEF Used, Directories
<1>4. i \in Files
  BY <1>2, <1>3 DEF Files
<1> QED BY <1>2, <1>4 DEF i, p

\* d is what the blocks are when the first bytes of t were stored behind cell
\* spot of a block, and the others in more blocks from the current location on.
IsStored(d, payload, spot, t, first, more) ==
  /\ \A b \in Bytes : d[b][NEXT] = 0
  /\ \A b \in Bytes : b # payload /\ ~(b \in current_location..(current_location + more - 1))
         => d[b] = blocks[b]
  /\ \A x \in Cells : d[payload][x] =
         IF x \in (1 + spot)..(spot + first) THEN t[x - spot] ELSE blocks[payload][x]

\* What a write leaves in the blocks, if it starts at a cell of data, fits
\* there or starts at the first one, and the blocks that it goes on in are
\* not the file's own.
LEMMA StoredBlocks ==
  ASSUME NEW i, NEW t \in Seq(Bytes), NEW spot \in Nat, NEW payload \in Bytes, NEW first, NEW more,
         payload = entries[i].payload, first = FirstPart(spot, Len(t)),
         more = MoreBlocks(spot, Len(t)),
         blocks \in BlockTables, current_location \in Bytes, payload < current_location,
         ~(spot > 0 /\ spot + Len(t) > N_DATA), current_location + more < N_BYTES,
         \A b \in Bytes : blocks[b][NEXT] = 0
  PROVE  Stored(i, spot, t) \in BlockTables /\ IsStored(Stored(i, spot, t), payload, spot, t, first, more)
<1> DEFINE last == current_location + more - 1
           u == SubSeq(t, 1, first)
           A == {d \in BlockTables :
                  /\ \A b \in Bytes : d[b][NEXT] = 0
                  /\ \A b \in Bytes : b # payload /\ ~(b \in current_location..last) => d[b] = blocks[b]
                  /\ \A x \in Cells : d[payload][x] =
                       IF x \in (1 + spot)..(spot + first) THEN t[x - spot] ELSE blocks[payload][x]}
<1>1. /\ first \in 0..Len(t) /\ more \in Nat /\ Len(t) \in Nat
      /\ u \in Seq(Bytes) /\ Len(u) = first
      /\ \A x \in 1..first : u[x] = t[x]
      /\ \A k \in 1..more : Part(t, first, k) \in Seq(Bytes)
  <2>1. spot \in Int /\ spot >= -1
    OBVIOUS
  <2> QED BY <2>1, PartFacts, LenProperties
<1>2. Store(blocks, payload, 1 + spot, u) \in A
  <2> DEFINE c == 1 + spot
             d == Store(blocks, payload, c, u)
  <2>0. c \in Int /\ u \in Seq(Bytes)
    BY <1>1
  <2> HIDE DEF u, c
  <2>1. /\ d \in BlockTables
        /\ \A o \in Bytes : o # payload => d[o] = blocks[o]
        /\ \A x \in Cells :
             d[payload][x] = IF x \in c..(c + Len(u) - 1) THEN u[x - c + 1] ELSE blocks[payload][x]
    BY <2>0, StoreFacts
  <2> HIDE DEF d
  <2>2. ASSUME NEW x \in Cells
        PROVE  d[payload][x] = IF x \in (1 + spot)..(spot + first) THEN t[x - spot] ELSE blocks[payload][x]
    <3>1. c..(c + Len(u) - 1) = (1 + spot)..(spot + first)
      BY <1>1 DEF c
    <3>2. x \in (1 + spot)..(spot + first) => x - c + 1 = x - spot /\ x - spot \in 1..first
      BY <1>1 DEF c
    <3> QED BY <1>1, <2>1, <3>1, <3>2
  <2>3. ~(NEXT \in (1 + spot)..(spot + first)) /\ NEXT \in Cells
    BY CellFacts DEF NEXT
  <2>4. \A b \in Bytes : d[b][NEXT] = 0
    BY <2>1, <2>2, <2>3
  <2> QED BY <2>1, <2>2, <2>4 DEF c, d
<1>3. ASSUME NEW d \in A, NEW k \in 1..more
      PROVE  Store(d, Taken(k - 1), 1, Part(t, first, k)) \in A
  <2> DEFINE b == Taken(k - 1)
             v == Part(t, first, k)
             e == Store(d, b, 1, v)
  <2>1. b = current_location + k - 1 /\ b \in Bytes /\ b \in current_location..last /\ b # payload
    <3>0. current_location \in Nat /\ N_BYTES \in Nat /\ k \in Nat /\ k >= 1 /\ k <= more
      BY <1>1, SizeFacts
    <3>1. current_location + (k - 1) \in 0..(N_BYTES - 1)
      BY <1>1, <3>0
    <3>3. b = current_location + (k - 1)
      BY <3>1, SizeFacts DEF Taken, Bytes
    <3> HIDE DEF b
    <3>4. payload \in Nat /\ current_location \in Nat
      BY SizeFacts
    <3> QED BY <1>1, <3>1, <3>3, <3>4, SMTT(40) DEF Bytes
  <2>2. v \in Seq(Bytes) /\ Len(v) \in Nat /\ d \in BlockTables
    BY <1>1, LenProperties
  <2> HIDE DEF b, v
  <2>3. /\ e \in BlockTables
        /\ \A o \in Bytes : o # b => e[o] = d[o]
        /\ \A x \in Cells :
             e[b][x] = IF x \in 1..(1 + Len(v) - 1) THEN v[x - 1 + 1] ELSE d[b][x]
    BY <2>1, <2>2, StoreFacts
  <2> HIDE DEF e
  <2>4. ~(NEXT \in 1..(1 + Len(v) - 1)) /\ NEXT \in Cells
    BY <2>2, CellFacts DEF NEXT
  <2>5. \A o \in Bytes : e[o][NEXT] = 0
    BY <2>3, <2>4
  <2>6. e \in A
    BY <2>1, <2>3, <2>5
  <2> QED BY <2>6 DEF b, v, e
<1>4. Stored(i, spot, t) \in A
  <2> HIDE DEF A
  <2> QED BY <1>1, <1>2, <1>3, StoredIn
<1> QED BY <1>4 DEF IsStored

\* Two files have two blocks, and a file's block was taken.
LEMMA PayloadFacts ==
  ASSUME TreeInv, BlocksAreOwned, NEW i \in Files
  PROVE  /\ entries[i].payload \in Bytes /\ entries[i].payload < current_location
         /\ current_location \in Nat /\ entries[i].payload \in Nat
<1>1. i \in Entries /\ entries[i] \in Entry /\ current_location \in Bytes
  BY DEF TreeInv, Files, Used
<1>2. entries[i].payload \in Bytes
  BY <1>1 DEF Entry
<1>3. entries[i].payload \in Nat /\ current_location \in Nat
  BY <1>1, <1>2, SizeFacts
<1>4. ~(entries[i].payload >= current_location)
  BY <1>2 DEF BlocksAreOwned
<1> QED BY <1>2, <1>3, <1>4

\* A write to the file i, as it goes when callers keep to what the code can do.
IsWritten(i, t, append) ==
  LET spot == WriteSpot(i, append)
      first == FirstPart(spot, Len(t))
      more == MoreBlocks(spot, Len(t))
      payload == entries[i].payload
  IN /\ spot \in Nat /\ more \in Nat /\ first \in 0..Len(t)
     /\ ~(spot > 0 /\ spot + Len(t) > N_DATA)
     /\ current_location + more < N_BYTES
     /\ append => entries[i].size + Len(t) < N_SIZES
     /\ current_location' = current_location + more
     /\ broken' = "" /\ directory' = directory
     /\ reply' = Code(IF append THEN "append" ELSE "write", 0)
     /\ entries' = [entries EXCEPT ![i].size =
                      IF append THEN (@ + Len(t)) % N_SIZES ELSE Len(t)]
     /\ IsStored(blocks', payload, spot, t, first, more)

LEMMA WriteFacts ==
  ASSUME Paced, TreeInv, RestOK, BlocksAreOwned,
         NEW n \in Names, NEW t \in Texts, NEW append \in BOOLEAN, Write(n, t, append)
  PROVE  LET i == Exists(Adjust(n), "FILE")
         IN /\ IsRoot(i) => /\ UNCHANGED <<entries, blocks, current_location, directory>>
                            /\ reply' = Code(IF append THEN "append" ELSE "write", 1)
            /\ ~IsRoot(i) => IsWritten(i, t, append)
<1> DEFINE i == Exists(Adjust(n), "FILE")
           spot == WriteSpot(i, append)
           past == spot > 0 /\ spot + Len(t) > N_DATA
           first == FirstPart(spot, Len(t))
           more == MoreBlocks(spot, Len(t))
           payload == entries[i].payload
<1>1. /\ IsRoot(i) => /\ UNCHANGED <<entries, blocks, current_location, directory>>
                      /\ reply' = Code(IF append THEN "append" ELSE "write", 1)
      /\ ~IsRoot(i) =>
           /\ ~past /\ spot >= 0 /\ current_location + more < N_BYTES
           /\ append => entries[i].size + Len(t) < N_SIZES
           /\ entries' = [entries EXCEPT ![i].size =
                            IF append THEN (@ + Len(t)) % N_SIZES ELSE Len(t)]
           /\ broken' = "" /\ blocks' = Stored(i, spot, t) /\ current_location' = Taken(more)
           /\ directory' = directory
           /\ reply' = Code(IF append THEN "append" ELSE "write", 0)
  BY DEF Write
<1>2. i \in Entries /\ entries[i].size \in Nat
  BY EntryFacts
<1>3. ~IsRoot(i) => i \in Files
  BY FileFound
<1>4. spot \in Int
  BY <1>2 DEF WriteSpot
<1> HIDE DEF i, spot
<1>5. ASSUME ~IsRoot(i) PROVE IsWritten(i, t, append)
  <2>1. ~past /\ spot \in Nat /\ spot >= -1 /\ current_location + more < N_BYTES
    <3>1. ~past /\ spot >= 0 /\ current_location + more < N_BYTES
      <4> HIDE DEF past, more
      <4> QED BY <1>1, <1>5
    <3> QED BY <1>4, <3>1
  <2>2. first \in 0..Len(t) /\ more \in Nat
    BY <1>4, <2>1, PartFacts, TextFacts
  <2>3. /\ payload \in Bytes /\ payload < current_location
        /\ current_location \in Bytes /\ current_location \in Nat /\ blocks \in BlockTables
        /\ \A b \in Bytes : blocks[b][NEXT] = 0
    BY <1>3, <1>5, PayloadFacts DEF TreeInv, RestOK, BlocksAreOwned
  <2>4. Taken(more) = current_location + more
    <3> HIDE DEF more
    <3>1. current_location + more \in Bytes
      BY <2>1, <2>2, <2>3, SizeFacts DEF Bytes
    <3> QED BY <3>1, SizeFacts DEF Taken
  <2> HIDE DEF first, more, payload
  <2>5. IsStored(Stored(i, spot, t), payload, spot, t, first, more)
    <3>1. /\ payload = entries[i].payload /\ first = FirstPart(spot, Len(t))
          /\ more = MoreBlocks(spot, Len(t)) /\ ~(spot > 0 /\ spot + Len(t) > N_DATA)
      BY <2>1 DEF first, more, payload
    <3> QED BY <2>1, <2>2, <2>3, <3>1, StoredBlocks, TextFacts
  <2>6. /\ entries' = [entries EXCEPT ![i].size =
                          IF append THEN (@ + Len(t)) % N_SIZES ELSE Len(t)]
        /\ broken' = "" /\ blocks' = Stored(i, spot, t) /\ current_location' = Taken(more)
        /\ directory' = directory /\ reply' = Code(IF append THEN "append" ELSE "write", 0)
        /\ append => entries[i].size + Len(t) < N_SIZES
    BY <1>1, <1>5 DEF more
  <2> QED BY <2>1, <2>2, <2>4, <2>5, <2>6 DEF IsWritten, first, more, payload, spot
<1> QED BY <1>1, <1>5 DEF i

\* What BlocksAreOwned says of the next state, by parts.
LEMMA OwnedFacts ==
  ASSUME \A i, j \in Files' : i # j => entries'[i].payload # entries'[j].payload,
         \A b \in Bytes : blocks'[b][NEXT] = 0,
         \A b \in Bytes : b >= current_location' => blocks'[b] = [c \in Cells |-> 0],
         \A b \in Bytes : b >= current_location' => \A i \in Files' : entries'[i].payload # b
  PROVE  BlocksAreOwned'
BY DEF BlocksAreOwned

LEMMA CreateOwned ==
  ASSUME Paced, TreeInv, BlocksAreOwned, NEW call, NEW n \in Names,
         NEW type \in {"FILE", "DIRECTORY"}, Create(call, n, type)
  PROVE  BlocksAreOwned'
<1> DEFINE p == Adjust(n)
<1>0. /\ blocks' = blocks
      /\ CreateError(n, type) # 0 => UNCHANGED <<entries, current_location>>
      /\ type = "FILE" => current_location < N_BYTES - 1
  BY DEF Create, Code
<1>1. CASE CreateError(n, type) # 0
  <2>1. Files' = Files /\ UNCHANGED <<entries, blocks, current_location>>
    BY <1>0, <1>1 DEF Files, Directories, Used, IsRoot
  <2> QED BY <2>1 DEF BlocksAreOwned
<1>2. CASE CreateError(n, type) = 0
  <2>1. PICK i \in Entries : IsCreated(i, p, type)
    BY <1>2, CreateFacts
  <2>2. current_location \in Nat /\ 1 + current_location \in Int /\ N_BYTES \in Nat
    BY SizeFacts DEF TreeInv
  <2>3. /\ entries \in [Entries -> Entry] /\ i \in Entries
        /\ entries' = [entries EXCEPT ![i] =
             [name |-> p, type |-> type, size |-> 0,
              payload |-> IF type = "FILE" THEN current_location ELSE 0]]
        /\ current_location' = IF type = "FILE" THEN Taken(1) ELSE current_location
        /\ Files' = IF type = "FILE" /\ p # ROOT THEN Files \cup {i} ELSE Files
        /\ i \notin Used
    BY <2>1 DEF TreeInv, IsCreated
  <2> HIDE DEF p
  <2>4. type = "FILE" => current_location' = current_location + 1
    <3>1. type = "FILE" => current_location + 1 \in Bytes
      BY <1>0, <2>2 DEF Bytes
    <3> QED BY <2>3, <3>1, SizeFacts DEF Taken
  <2>5. current_location' >= current_location
    BY <2>2, <2>3, <2>4
  <2>6. i \notin Files /\ Files \subseteq Entries /\ Files \subseteq Used
    BY <2>3 DEF Files, Used
  <2>7. /\ \A j \in Files : entries'[j] = entries[j]
        /\ i \in Files' => /\ type = "FILE" /\ entries'[i].payload = current_location
    BY <2>3, <2>6
  <2>8. \A j \in Files : entries[j].payload < current_location /\ entries[j].payload \in Nat
    BY PayloadFacts
  <2>9. \A j \in Files' : j \in Files \/ j = i
    BY <2>3
  <2>10. ASSUME NEW j \in Files', NEW k \in Files', j # k
         PROVE  entries'[j].payload # entries'[k].payload
    <3>1. CASE j \in Files /\ k \in Files
      BY <2>7, <2>10, <3>1 DEF BlocksAreOwned
    <3>2. CASE j = i /\ k \in Files
      BY <2>2, <2>7, <2>8, <3>2
    <3>3. CASE k = i /\ j \in Files
      BY <2>2, <2>7, <2>8, <3>3
    <3> QED BY <2>9, <2>10, <3>1, <3>2, <3>3
  <2>11. ASSUME NEW b \in Bytes, b >= current_location'
         PROVE  b >= current_location /\ \A j \in Files' : entries'[j].payload # b
    <3>1. b \in Nat /\ current_location' \in Nat
      BY <2>2, <2>3, <2>4, SizeFacts
    <3>2. b >= current_location
      BY <2>2, <2>5, <2>11, <3>1
    <3>3. ASSUME NEW j \in Files' PROVE entries'[j].payload # b
      <4>1. CASE j \in Files
        BY <2>2, <2>7, <2>8, <3>1, <3>2, <4>1
      <4>2. CASE j = i
        BY <2>2, <2>4, <2>7, <2>11, <3>1, <3>3, <4>2
      <4> QED BY <2>9, <4>1, <4>2
    <3> QED BY <3>2, <3>3
  <2>12. /\ \A b \in Bytes : blocks'[b][NEXT] = 0
         /\ \A b \in Bytes : b >= current_location' => blocks'[b] = [c \in Cells |-> 0]
    BY <1>0, <2>11 DEF BlocksAreOwned
  <2> QED BY <2>10, <2>11, <2>12, OwnedFacts
<1> QED BY <1>1, <1>2

LEMMA DeleteOwned ==
  ASSUME TreeInv, BlocksAreOwned, NEW n \in Names, Delete(n)
  PROVE  BlocksAreOwned'
<1> DEFINE i == Sought(Adjust(n))
<1>1. /\ UNCHANGED <<blocks, current_location>>
      /\ DeleteError(i) # 0 => UNCHANGED entries
      /\ DeleteError(i) = 0 => IsDeleted(i)
  BY DeleteFacts
<1> HIDE DEF i
<1>2. CASE DeleteError(i) # 0
  <2>1. Files' = Files /\ UNCHANGED <<entries, blocks, current_location>>
    BY <1>1, <1>2 DEF Files, Directories, Used, IsRoot
  <2> QED BY <2>1 DEF BlocksAreOwned
<1>3. CASE DeleteError(i) = 0
  <2>1. /\ \A j \in Entries : j # i => entries'[j] = entries[j]
        /\ Files' = Files \ {i} /\ Files \subseteq Entries
    BY <1>1, <1>3 DEF IsDeleted, Files, Used
  <2>2. \A j \in Files' : j \in Files /\ entries'[j] = entries[j]
    BY <2>1
  <2>3. \A j, k \in Files' : j # k => entries'[j].payload # entries'[k].payload
    BY <2>2 DEF BlocksAreOwned
  <2>4. \A b \in Bytes : blocks'[b][NEXT] = 0
    BY <1>1 DEF BlocksAreOwned
  <2>5. \A b \in Bytes : b >= current_location' => blocks'[b] = [c \in Cells |-> 0]
    BY <1>1 DEF BlocksAreOwned
  <2>6. \A b \in Bytes : b >= current_location' => \A j \in Files' : entries'[j].payload # b
    BY <1>1, <2>2 DEF BlocksAreOwned
  <2> QED BY <2>3, <2>4, <2>5, <2>6, OwnedFacts
<1> QED BY <1>2, <1>3

\* The size of an entry is all that a write changes in the table.
IsResized(i, size) ==
  /\ \A j \in Entries : entries'[j].name = entries[j].name
  /\ \A j \in Entries : entries'[j].type = entries[j].type
  /\ \A j \in Entries : entries'[j].payload = entries[j].payload
  /\ \A j \in Entries : j # i => entries'[j] = entries[j]
  /\ entries'[i].size = size
  /\ Used' = Used /\ Directories' = Directories /\ Files' = Files

LEMMA WriteNames ==
  ASSUME TreeInv, NEW i \in Entries, NEW t, NEW append, IsWritten(i, t, append)
  PROVE  IsResized(i, IF append THEN (entries[i].size + Len(t)) % N_SIZES ELSE Len(t))
<1> DEFINE size == IF append THEN (entries[i].size + Len(t)) % N_SIZES ELSE Len(t)
<1>1. entries' = [entries EXCEPT ![i].size = size] /\ entries \in [Entries -> Entry]
  BY DEF IsWritten, TreeInv
<1> HIDE DEF size
<1>2. \A e \in Entry : LET f == [e EXCEPT !.size = size]
                       IN f.name = e.name /\ f.type = e.type /\ f.payload = e.payload /\ f.size = size
  BY DEF Entry
<1>3. \A j \in Entries : entries'[j] = IF j = i THEN [entries[j] EXCEPT !.size = size] ELSE entries[j]
  BY <1>1
<1>4. \A j \in Entries : /\ entries'[j].name = entries[j].name
                         /\ entries'[j].type = entries[j].type
                         /\ entries'[j].payload = entries[j].payload
                         /\ j # i => entries'[j] = entries[j]
  BY <1>1, <1>2, <1>3
<1>5. entries'[i].size = size
  BY <1>1, <1>2, <1>3
<1>6. Used' = Used
  BY <1>4 DEF Used
<1>7. Used \subseteq Entries
  BY DEF Used
<1>8. Directories' = Directories
  BY <1>4, <1>6, <1>7 DEF Directories
<1>9. Files' = Files
  BY <1>4, <1>6, <1>7, <1>8 DEF Files, IsRoot
<1> QED BY <1>4, <1>5, <1>6, <1>8, <1>9 DEF size, IsResized

\* The parts of it.
LEMMA ResizedFacts ==
  ASSUME NEW i, NEW size, IsResized(i, size)
  PROVE  /\ Files' = Files /\ Used' = Used /\ Directories' = Directories
         /\ \A j \in Entries : entries'[j].payload = entries[j].payload
BY DEF IsResized

LEMMA WriteOwned ==
  ASSUME Paced, TreeInv, RestOK, BlocksAreOwned,
         NEW n \in Names, NEW t \in Texts, NEW append \in BOOLEAN, Write(n, t, append)
  PROVE  BlocksAreOwned'
<1> DEFINE i == Exists(Adjust(n), "FILE")
<1>1. CASE IsRoot(i)
  <2>1. UNCHANGED <<entries, blocks, current_location>>
    BY <1>1, WriteFacts
  <2>2. Files' = Files
    BY <2>1 DEF Files, Directories, Used, IsRoot
  <2> QED BY <2>1, <2>2 DEF BlocksAreOwned
<1>2. CASE ~IsRoot(i)
  <2>1. IsWritten(i, t, append) /\ i \in Files /\ i \in Entries
    BY <1>2, WriteFacts, FileFound, EntryFacts
  <2> HIDE DEF i
  <2>2. /\ Files' = Files /\ Files \subseteq Entries
        /\ \A j \in Entries : entries'[j].payload = entries[j].payload
    <3>1. Files \subseteq Entries
      BY DEF Files, Used
    <3>2. PICK size : IsResized(i, size)
      BY <2>1, WriteNames
    <3> QED BY <3>1, <3>2, ResizedFacts
  <2> DEFINE spot == WriteSpot(i, append)
             first == FirstPart(spot, Len(t))
             more == MoreBlocks(spot, Len(t))
             payload == entries[i].payload
  <2>3. /\ more \in Nat /\ current_location' = current_location + more
        /\ IsStored(blocks', payload, spot, t, first, more)
    BY <2>1 DEF IsWritten
  <2> HIDE DEF more, spot, first, payload
  <2>4. current_location \in Nat /\ payload \in Nat /\ payload < current_location
    BY <2>1, PayloadFacts DEF payload
  <2>5. \A j, k \in Files' : j # k => entries'[j].payload # entries'[k].payload
    BY <2>2 DEF BlocksAreOwned
  <2>6. \A b \in Bytes : blocks'[b][NEXT] = 0
    BY <2>3 DEF IsStored
  <2>7. ASSUME NEW b \in Bytes, b >= current_location'
        PROVE  b >= current_location /\ blocks'[b] = blocks[b]
    <3>1. b \in Nat
      BY SizeFacts
    <3>2. /\ b >= current_location /\ b # payload
          /\ ~(b \in current_location..(current_location + more - 1))
      BY <2>3, <2>4, <2>7, <3>1
    <3> QED BY <2>3, <3>2 DEF IsStored
  <2>8. \A b \in Bytes : b >= current_location' => blocks'[b] = [c \in Cells |-> 0]
    BY <2>7 DEF BlocksAreOwned
  <2>9. \A b \in Bytes : b >= current_location' => \A j \in Files' : entries'[j].payload # b
    BY <2>2, <2>7 DEF BlocksAreOwned
  <2> QED BY <2>5, <2>6, <2>8, <2>9, OwnedFacts
<1> QED BY <1>1, <1>2

\* What stays as it is when the table and the blocks do.
LEMMA OthersOwned ==
  ASSUME BlocksAreOwned, UNCHANGED <<entries, blocks, current_location>>
  PROVE  BlocksAreOwned'
<1>1. Files' = Files
  BY DEF Files, Directories, Used, IsRoot
<1> QED BY <1>1 DEF BlocksAreOwned

LEMMA NextOwned ==
  Paced /\ TreeInv /\ RestOK /\ BlocksAreOwned /\ [Next]_vars => BlocksAreOwned'
<1> SUFFICES ASSUME Paced, TreeInv, RestOK, BlocksAreOwned, [Next]_vars PROVE BlocksAreOwned'
  OBVIOUS
<1>1. ASSUME NEW n \in Names, CreateFile(n) \/ CreateDirectory(n) PROVE BlocksAreOwned'
  BY <1>1, CreateOwned DEF CreateFile, CreateDirectory
<1>2. ASSUME NEW n \in Names, Delete(n) PROVE BlocksAreOwned'
  BY <1>2, DeleteOwned
<1>3. ASSUME NEW n \in Names, NEW t \in Texts, NEW append \in BOOLEAN, Write(n, t, append)
      PROVE  BlocksAreOwned'
  BY <1>3, WriteOwned
<1>4. ASSUME ListFiles \/ (\E n \in Names : Read(n) \/ SetDirectory(n)) \/ UNCHANGED vars
      PROVE  BlocksAreOwned'
  <2>1. UNCHANGED <<entries, blocks, current_location>>
    BY <1>4 DEF ListFiles, Read, SetDirectory, vars
  <2> QED BY <2>1, OthersOwned
<1> QED BY <1>1, <1>2, <1>3, <1>4 DEF Next

LEMMA InitRest == Init => RestOK
<1> SUFFICES ASSUME Init PROVE RestOK
  OBVIOUS
<1>1. blocks \in BlockTables
  BY SizeFacts DEF Init, BlockTables
<1>2. reply.code = 0 /\ reply.text = <<>> /\ broken = ""
  BY DEF Init, Code
<1>3. reply.code \in 0..255
  <2>1. 0 \in 0..255
    OBVIOUS
  <2> QED BY <1>2, <2>1
<1>4. reply.text \in Seq(Bytes)
  BY <1>2, EmptySeq
<1> QED BY <1>1, <1>2, <1>3, <1>4 DEF RestOK

LEMMA InitOwned == Init => BlocksAreOwned
<1> SUFFICES ASSUME Init PROVE BlocksAreOwned
  OBVIOUS
<1>1. \A i \in Entries : entries[i].type = "DIRECTORY"
  BY DEF Init, Unused
<1>2. Files = {}
  BY <1>1 DEF Files, Directories, Used
<1>3. \A b \in Bytes : blocks[b] = [c \in Cells |-> 0] /\ blocks[b][NEXT] = 0
  BY CellFacts DEF Init
<1> QED BY <1>2, <1>3 DEF BlocksAreOwned

-----------------------------------------------------------------------------
(* What the table and the blocks stand for, in the terms of FileSystemAbs. *)

\* What a file of that size shows of its block.
Shown(block, size) == [k \in 1..(IF size <= N_DATA THEN size ELSE N_DATA) |-> block[k]]

\* The texts, by the entries.
HeldFacts ==
  /\ \A i \in Files : entries[i].name \in FileNames
  /\ \A i \in Files :
       FileTexts[entries[i].name] = Shown(blocks[entries[i].payload], entries[i].size)
  /\ \A p \in FileNames : \E i \in Files : entries[i].name = p
  /\ \A i, j \in Files : entries[i].name = entries[j].name => i = j
  /\ \A i, j \in Directories : entries[i].name = entries[j].name => i = j
  /\ DOMAIN FileTexts = FileNames /\ FileTexts = [p \in FileNames |-> FileTexts[p]]

LEMMA SingleContents ==
  ASSUME NEW b, NEW size \in Nat
  PROVE  Contents(<<b>>, size) = Shown(blocks[b], size)
<1> DEFINE m == IF size <= N_DATA THEN size ELSE N_DATA
<1>1. N_DATA \in Nat /\ N_DATA > 0
  BY SizeFacts
<1>2. Len(<<b>>) = 1 /\ <<b>>[1] = b
  OBVIOUS
<1>3. Min({size, N_DATA * Len(<<b>>)}) = m
  <2>1. N_DATA * Len(<<b>>) = N_DATA /\ size \in Int /\ N_DATA \in Int
    BY <1>1, <1>2
  <2> QED BY <2>1, MinMaxOfTwo
<1>4. ASSUME NEW k \in 1..m
      PROVE  1 + (k - 1) \div N_DATA = 1 /\ 1 + ((k - 1) % N_DATA) = k
  <2>1. k - 1 \in 0..(N_DATA - 1)
    BY <1>1
  <2>2. \A x \in 0..(N_DATA - 1) : x \div N_DATA = 0 /\ x % N_DATA = x
    BY <1>1
  <2>3. (k - 1) \div N_DATA = 0 /\ (k - 1) % N_DATA = k - 1
    BY <2>1, <2>2
  <2> QED BY <2>3
<1>5. \A k \in 1..m :
        blocks[<<b>>[1 + (k - 1) \div N_DATA]][1 + ((k - 1) % N_DATA)] = blocks[b][k]
  BY <1>2, <1>4
<1> QED BY <1>3, <1>5 DEF Contents, Shown

\* An entry of a file is found by its name.
LEMMA FileIsFound ==
  ASSUME TreeInv, NEW i \in Files
  PROVE  /\ Exists(entries[i].name, "FILE") = i
         /\ i \in Entries /\ entries[i] \in Entry /\ entries[i].type = "FILE"
         /\ entries[i].name # ROOT /\ entries[i].name # UNUSED
<1>1. /\ i \in Entries /\ entries[i] \in Entry /\ i \in Used /\ i \notin Directories /\ ~IsRoot(i)
  BY DEF Files, Used, TreeInv
<1>2. entries[i].type = "FILE"
  BY <1>1 DEF Entry, Directories
<1> DEFINE e == Exists(entries[i].name, "FILE")
<1>3. e \in Entries /\ entries[e].name = entries[i].name /\ entries[e].type = "FILE"
  BY <1>1, <1>2, ExistsFacts
<1> HIDE DEF e
<1>4. e \in Files
  BY <1>1, <1>3 DEF Files, Used, Directories, IsRoot
<1>5. e = i
  BY <1>2, <1>3, <1>4 DEF TreeInv, IsTree
<1> QED BY <1>1, <1>2, <1>5 DEF e, IsRoot, Used

LEMMA Held == TreeInv => HeldFacts
<1> SUFFICES ASSUME TreeInv PROVE HeldFacts
  OBVIOUS
<1>1. \A i \in Files : entries[i].name \in FileNames
  BY DEF FileNames
<1>2. ASSUME NEW i \in Files
      PROVE  FileTexts[entries[i].name] = Shown(blocks[entries[i].payload], entries[i].size)
  <2>1. FileTexts[entries[i].name] = FileText(i)
    BY <1>1, FileIsFound DEF FileTexts
  <2>2. entries[i].size \in Nat
    BY FileIsFound, SizeFacts DEF Entry
  <2> QED BY <2>1, <2>2, SingleContents DEF FileText
<1>3. \A p \in FileNames : \E i \in Files : entries[i].name = p
  BY DEF FileNames
<1>4. \A i, j \in Files : entries[i].name = entries[j].name => i = j
  BY FileIsFound
<1>5. \A i, j \in Directories : entries[i].name = entries[j].name => i = j
  <2>1. \A i \in Directories : entries[i].type = "DIRECTORY"
    BY DEF Directories
  <2> QED BY <2>1 DEF TreeInv, IsTree
<1>6. DOMAIN FileTexts = FileNames /\ FileTexts = [p \in FileNames |-> FileTexts[p]]
  BY DEF FileTexts
<1> QED BY <1>1, <1>2, <1>3, <1>4, <1>5, <1>6 DEF HeldFacts

LEMMA HeldNext == (TreeInv => HeldFacts)'
BY Held, PTL

\* What there is under a path, by the search for it.
LEMMA PathFacts ==
  ASSUME TreeInv, NEW p, p # UNUSED
  PROVE  /\ p \in FileNames <=> ~IsRoot(Exists(p, "FILE"))
         /\ p \in DirectoryNames <=> p = ROOT \/ ~IsRoot(Exists(p, "DIRECTORY"))
         /\ ROOT \in DirectoryNames /\ ROOT \notin FileNames
<1>1. p \in FileNames => ~IsRoot(Exists(p, "FILE"))
  BY FileIsFound DEF FileNames, IsRoot
<1>2. ~IsRoot(Exists(p, "FILE")) => p \in FileNames
  <2> DEFINE i == Exists(p, "FILE")
  <2>1. ~IsRoot(i) => i \in Entries /\ entries[i].name = p /\ entries[i].type = "FILE"
    BY ExistsFacts
  <2> HIDE DEF i
  <2>2. ~IsRoot(i) => i \in Files
    BY <2>1 DEF Files, Used, Directories
  <2> QED BY <2>1, <2>2 DEF FileNames, i
<1>3. ROOT \in DirectoryNames
  <2>1. 1 \in Directories /\ entries[1].name = ROOT
    BY SizeFacts, RootFacts DEF TreeInv, Directories, Used
  <2> QED BY <2>1 DEF DirectoryNames
<1>4. ROOT \notin FileNames
  BY FileIsFound DEF FileNames
<1>5. ASSUME p \in DirectoryNames, p # ROOT PROVE ~IsRoot(Exists(p, "DIRECTORY"))
  <2>1. PICK i \in Directories : entries[i].name = p
    BY <1>5 DEF DirectoryNames
  <2>2. i \in Entries /\ entries[i].type = "DIRECTORY"
    BY <2>1 DEF Directories, Used
  <2> QED BY <1>5, <2>1, <2>2, ExistsFacts DEF IsRoot
<1>6. ~IsRoot(Exists(p, "DIRECTORY")) => p \in DirectoryNames
  <2> DEFINE i == Exists(p, "DIRECTORY")
  <2>1. ~IsRoot(i) => i \in Entries /\ entries[i].name = p /\ entries[i].type = "DIRECTORY"
    BY ExistsFacts
  <2> HIDE DEF i
  <2>2. ~IsRoot(i) => i \in Directories
    BY <2>1 DEF Used, Directories
  <2> QED BY <2>1, <2>2 DEF DirectoryNames, i
<1> QED BY <1>1, <1>2, <1>3, <1>4, <1>5, <1>6

\* The entries in use can be counted.
LEMMA UsedFacts ==
  /\ IsFiniteSet(Used) /\ Cardinality(Used) \in Nat
  /\ Cardinality(Used) < N_ENTRIES <=> \E i \in Entries : entries[i].name = UNUSED
<1>1. IsFiniteSet(Entries) /\ Cardinality(Entries) = N_ENTRIES
  <2>1. N_ENTRIES \in Nat /\ N_ENTRIES >= 1
    BY FileSystemAssumption
  <2>2. 1..N_ENTRIES = Entries /\ N_ENTRIES - 1 + 1 = N_ENTRIES
    BY <2>1 DEF Entries
  <2> QED BY <2>1, <2>2, FS_Interval
<1>2. Used \subseteq Entries
  BY DEF Used
<1>3. /\ IsFiniteSet(Used) /\ Cardinality(Used) \in Nat
      /\ Cardinality(Used) <= N_ENTRIES
      /\ Cardinality(Used) = N_ENTRIES => Used = Entries
  BY <1>1, <1>2, FS_Subset, FS_CardinalityType
<1>4. Used = Entries <=> ~(\E i \in Entries : entries[i].name = UNUSED)
  BY DEF Used
<1>5. N_ENTRIES \in Nat
  BY SizeFacts
<1> QED BY <1>1, <1>3, <1>4, <1>5

\* The texts are any function that agrees with them at the name of each file.
LEMMA TextsAre ==
  ASSUME TreeInv', NEW F, F = [q \in FileNames' |-> F[q]],
         \A i \in Files' :
           F[entries'[i].name] = Shown(blocks'[entries'[i].payload], entries'[i].size)
  PROVE  FileTexts' = F
<1>1. HeldFacts'
  BY HeldNext
<1>2. /\ \A i \in Files' : FileTexts'[entries'[i].name]
                             = Shown(blocks'[entries'[i].payload], entries'[i].size)
      /\ \A p \in FileNames' : \E i \in Files' : entries'[i].name = p
      /\ FileTexts' = [p \in FileNames' |-> FileTexts'[p]]
  BY <1>1 DEF HeldFacts
<1>3. \A p \in FileNames' : FileTexts'[p] = F[p]
  BY <1>2
<1> QED BY <1>2, <1>3

\* The texts of files that neither change in the table nor in the blocks.
LEMMA TextsKept ==
  ASSUME TreeInv, TreeInv', Files' = Files,
         \A i \in Files : entries'[i].name = entries[i].name,
         \A i \in Files : Shown(blocks'[entries'[i].payload], entries'[i].size)
                            = Shown(blocks[entries[i].payload], entries[i].size)
  PROVE  FileTexts' = FileTexts /\ FileNames' = FileNames
<1>1. FileNames' = FileNames
  BY DEF FileNames
<1>2. /\ \A i \in Files : FileTexts[entries[i].name]
                            = Shown(blocks[entries[i].payload], entries[i].size)
      /\ FileTexts = [p \in FileNames |-> FileTexts[p]]
  BY Held DEF HeldFacts
<1> QED BY <1>1, <1>2, TextsAre

-----------------------------------------------------------------------------
(* Every call does what FileSystemAbs says of it.                          *)

\* The same result, path and helpers on both sides.
LEMMA SameHelpers ==
  /\ Abs!ROOT = ROOT /\ Abs!EMPTY = UNUSED /\ Abs!Bytes = Bytes
  /\ \A n \in Names : Abs!Resolve(n) = Adjust(n)
  /\ \A call, c : Abs!Code(call, c) = Code(call, c)
BY DEF Abs!ROOT, ROOT, Abs!EMPTY, UNUSED, Abs!Bytes, Bytes, Abs!Resolve, Adjust, Abs!Code, Code

LEMMA AbsDone ==
  ASSUME NEW call, reply' = Code(call, 0)
  PROVE  Abs!Done(call)
BY SameHelpers DEF Abs!Done

LEMMA AbsRefused ==
  ASSUME NEW call, NEW c, c # 0, reply' = Code(call, c),
         DirectoryNames' = DirectoryNames, FileTexts' = FileTexts, directory' = directory,
         Used' = Used
  PROVE  Abs!Refused(call)
<1>1. reply'.code = c
  BY DEF Code
<1>2. reply' = Abs!Code(call, reply'.code)
  BY <1>1, SameHelpers
<1> QED BY <1>1, <1>2 DEF Abs!Refused

\* The table and the blocks stay as they are.
LEMMA AllKept ==
  ASSUME TreeInv, TreeInv', UNCHANGED <<entries, blocks>>
  PROVE  /\ DirectoryNames' = DirectoryNames /\ FileTexts' = FileTexts /\ Used' = Used
         /\ FileNames' = FileNames
<1>1. Used' = Used /\ Directories' = Directories /\ Files' = Files
  BY DEF Files, Directories, Used, IsRoot
<1>2. DirectoryNames' = DirectoryNames
  BY <1>1 DEF DirectoryNames
<1>3. FileTexts' = FileTexts /\ FileNames' = FileNames
  BY <1>1, TextsKept
<1> QED BY <1>1, <1>2, <1>3

LEMMA CdStep ==
  ASSUME TreeInv, TreeInv', NEW n \in Names, SetDirectory(n)
  PROVE  Abs!AbsCd(n)
<1> DEFINE p == Adjust(n)
           ok == n = [absolute |-> TRUE, path |-> ROOT] \/ ~IsRoot(Exists(p, "DIRECTORY"))
<1>1. /\ directory' = IF ok THEN p ELSE directory
      /\ reply' = Code("cd", IF ok THEN 0 ELSE 255)
      /\ UNCHANGED <<entries, blocks>>
  BY DEF SetDirectory
<1>2. DirectoryNames' = DirectoryNames /\ FileTexts' = FileTexts /\ Used' = Used
  BY <1>1, AllKept
<1>3. /\ ok => p \in DirectoryNames
      /\ p \in DirectoryNames => ok \/ n.path = UNUSED
  <2>1. /\ p \in DirectoryNames <=> p = ROOT \/ ~IsRoot(Exists(p, "DIRECTORY"))
        /\ n = [absolute |-> TRUE, path |-> ROOT] => p = ROOT
        /\ p = ROOT /\ n.path # UNUSED => n = [absolute |-> TRUE, path |-> ROOT]
    <3>1. p # UNUSED
      BY AdjustFacts
    <3>2. p = ROOT /\ n.path # UNUSED => n = [absolute |-> TRUE, path |-> ROOT]
      BY AdjustFacts DEF UNUSED
    <3>3. n = [absolute |-> TRUE, path |-> ROOT] => p = ROOT
      BY DEF Adjust
    <3> HIDE DEF p
    <3> QED BY <3>1, <3>2, <3>3, PathFacts
  <2> QED BY <2>1
<1>4. p = Abs!Resolve(n) /\ Abs!EMPTY = UNUSED
  BY SameHelpers
<1> HIDE DEF p, ok
<1>5. CASE ok
  <2>1. Abs!Done("cd") /\ p \in DirectoryNames /\ directory' = p
    BY <1>1, <1>3, <1>5, AbsDone
  <2> QED BY <1>2, <1>4, <2>1 DEF Abs!AbsCd
<1>6. CASE ~ok
  <2>1. reply' = Code("cd", 255) /\ directory' = directory
    BY <1>1, <1>6
  <2>2. Abs!Refused("cd")
    BY <1>2, <2>1, AbsRefused
  <2>3. p \notin DirectoryNames \/ n.path = UNUSED
    BY <1>3, <1>6
  <2> QED BY <1>4, <2>2, <2>3 DEF Abs!AbsCd
<1> QED BY <1>5, <1>6

\* An entry can be made, as FileSystemAbs says it.
LEMMA CreatableFacts ==
  ASSUME TreeInv, NEW n \in Names
  PROVE  Abs!Creatable(n) <=>
           /\ n.path # UNUSED
           /\ \A k \in 1..(Len(Adjust(n)) - 1) : SubSeq(Adjust(n), 1, k) \in DirectoryNames
           /\ \E i \in Entries : entries[i].name = UNUSED
<1>1. Abs!Creatable(n) <=>
        /\ n.path # UNUSED
        /\ {SubSeq(Adjust(n), 1, k) : k \in 1..(Len(Adjust(n)) - 1)} \subseteq DirectoryNames
        /\ Cardinality(Used) < N_ENTRIES
  BY SameHelpers DEF Abs!Creatable, Abs!Ancestors
<1> QED BY <1>1, UsedFacts

\* What the tests of a creation find wrong.
LEMMA CreateRefused ==
  ASSUME TreeInv, NEW n \in Names, NEW type \in {"FILE", "DIRECTORY"}, CreateError(n, type) # 0
  PROVE  \/ ~Abs!Creatable(n)
         \/ type = "FILE" /\ Adjust(n) \in FileNames
         \/ type = "DIRECTORY" /\ Adjust(n) \in DirectoryNames
<1> DEFINE p == Adjust(n)
<1>1. \/ n = [absolute |-> TRUE, path |-> ROOT] /\ type = "DIRECTORY"
      \/ n.path = <<"">>
      \/ ~IsRoot(Exists(p, type))
      \/ \E q \in {SubSeq(p, 1, k) : k \in 1..(Len(p) - 1)} : IsRoot(Exists(q, "DIRECTORY"))
      \/ \A i \in Entries : entries[i].name # UNUSED
  BY Zenon DEF CreateError
<1>2. p # UNUSED /\ p \in Seq(Components) /\ (n = [absolute |-> TRUE, path |-> ROOT] => p = ROOT)
  <2>1. n = [absolute |-> TRUE, path |-> ROOT] => p = ROOT
    BY DEF Adjust
  <2> QED BY <2>1, AdjustFacts
<1>3. n.path # <<"">> => Proper(p)
  BY AdjustFacts
<1>4. Abs!Creatable(n) =>
        /\ n.path # UNUSED
        /\ \A k \in 1..(Len(p) - 1) : SubSeq(p, 1, k) \in DirectoryNames
        /\ \E i \in Entries : entries[i].name = UNUSED
  BY CreatableFacts
<1> HIDE DEF p
<1>5. CASE n = [absolute |-> TRUE, path |-> ROOT] /\ type = "DIRECTORY"
  BY <1>2, <1>5, PathFacts DEF p
<1>6. CASE n.path = <<"">>
  BY <1>4, <1>6 DEF UNUSED
<1>7. CASE ~IsRoot(Exists(p, type))
  BY <1>2, <1>7, PathFacts DEF p
<1>8. ASSUME n.path # <<"">>, NEW k \in 1..(Len(p) - 1), IsRoot(Exists(SubSeq(p, 1, k), "DIRECTORY"))
      PROVE  ~Abs!Creatable(n)
  <2> DEFINE q == SubSeq(p, 1, k)
  <2>1. q # UNUSED
    BY <1>3, <1>8, ProperFacts
  <2>2. q # ROOT
    <3>1. Len(q) = k /\ k # 0
      BY <1>2, BeginningFacts
    <3> QED BY <3>1, RootFacts
  <2>3. q \notin DirectoryNames
    <3> HIDE DEF q
    <3> QED BY <1>8, <2>1, <2>2, PathFacts DEF q
  <2> QED BY <1>4, <2>3
<1>9. CASE \A i \in Entries : entries[i].name # UNUSED
  BY <1>4, <1>9
<1> QED BY <1>1, <1>5, <1>6, <1>7, <1>8, <1>9

\* A creation that is not refused.
LEMMA CreateAllowed ==
  ASSUME TreeInv, NEW n \in Names, NEW type \in {"FILE", "DIRECTORY"}, NEW i \in Entries,
         IsCreatable(n, Adjust(n), type), IsCreated(i, Adjust(n), type)
  PROVE  /\ Abs!Creatable(n)
         /\ type = "FILE" => Adjust(n) \notin FileNames
         /\ type = "DIRECTORY" => Adjust(n) \notin DirectoryNames
         /\ Cardinality(Used') = Cardinality(Used) + 1
<1> DEFINE p == Adjust(n)
<1>1. p # UNUSED
  BY AdjustFacts
<1>2. Abs!Creatable(n)
  <2>1. i \in Entries /\ entries[i].name = UNUSED
    BY DEF IsCreated, Used
  <2>2. /\ n.path # UNUSED
        /\ \A k \in 1..(Len(p) - 1) : SubSeq(p, 1, k) \in DirectoryNames
    <3>1. ASSUME NEW k \in 1..(Len(p) - 1) PROVE SubSeq(p, 1, k) \in DirectoryNames
      <4>1. /\ Exists(SubSeq(p, 1, k), "DIRECTORY") \in Directories
            /\ entries[Exists(SubSeq(p, 1, k), "DIRECTORY")].name = SubSeq(p, 1, k)
        BY DEF IsCreatable
      <4> QED BY <4>1 DEF DirectoryNames
    <3>2. n.path # UNUSED
      BY DEF IsCreatable, UNUSED
    <3> QED BY <3>1, <3>2
  <2> QED BY <2>1, <2>2, CreatableFacts
<1>3. /\ p = ROOT => type = "FILE"
      /\ p # ROOT => \A j \in Entries : entries[j].name = p => entries[j].type # type
  BY DEF IsCreatable
<1> HIDE DEF p
<1>4. type = "FILE" => p \notin FileNames
  <2>1. \A j \in Files : j \in Entries /\ entries[j].type = "FILE" /\ entries[j].name # ROOT
    BY FileIsFound
  <2> QED BY <1>3, <2>1 DEF FileNames
<1>5. type = "DIRECTORY" => p \notin DirectoryNames
  <2>1. \A j \in Directories : j \in Entries /\ entries[j].type = "DIRECTORY"
    BY DEF Directories, Used
  <2> QED BY <1>3, <2>1 DEF DirectoryNames
<1>6. Cardinality(Used') = Cardinality(Used) + 1
  <2>1. Used' = Used \cup {i} /\ i \notin Used
    BY DEF IsCreated
  <2> QED BY <2>1, UsedFacts, FS_AddElement
<1> QED BY <1>2, <1>4, <1>5, <1>6 DEF p

\* A creation that is refused leaves all as it is.
LEMMA CreateNothing ==
  ASSUME TreeInv, TreeInv', NEW call, NEW n \in Names, NEW type \in {"FILE", "DIRECTORY"},
         Create(call, n, type), CreateError(n, type) # 0
  PROVE  Abs!Refused(call)
<1>1. reply' = Code(call, CreateError(n, type)) /\ UNCHANGED <<entries, blocks, directory>>
  BY DEF Create, Code
<1>2. /\ DirectoryNames' = DirectoryNames /\ FileTexts' = FileTexts /\ Used' = Used
      /\ directory' = directory
  BY <1>1, AllKept
<1> DEFINE error == CreateError(n, type)
<1> HIDE DEF error
<1> QED BY <1>1, <1>2, AbsRefused DEF error

LEMMA MkdirStep ==
  ASSUME TreeInv, TreeInv', NEW n \in Names, CreateDirectory(n)
  PROVE  Abs!AbsMkdir(n)
<1> DEFINE p == Adjust(n)
<1>1. Create("mkdir", n, "DIRECTORY") /\ p = Abs!Resolve(n)
  BY SameHelpers DEF CreateDirectory
<1>2. CASE CreateError(n, "DIRECTORY") # 0
  <2>1. ~Abs!Creatable(n) \/ p \in DirectoryNames
    BY <1>2, CreateRefused
  <2>2. Abs!Refused("mkdir")
    BY <1>1, <1>2, CreateNothing
  <2> HIDE DEF p
  <2> QED BY <1>1, <2>1, <2>2 DEF Abs!AbsMkdir
<1>3. CASE CreateError(n, "DIRECTORY") = 0
  <2>1. IsCreatable(n, p, "DIRECTORY") /\ \E i \in Entries : IsCreated(i, p, "DIRECTORY")
    BY <1>1, <1>3, CreateFacts
  <2>2. PICK i \in Entries : IsCreated(i, p, "DIRECTORY")
    BY <2>1
  <2>3. /\ Abs!Creatable(n) /\ p \notin DirectoryNames
        /\ Cardinality(Used') = Cardinality(Used) + 1
    BY <2>1, <2>2, CreateAllowed
  <2>4. reply' = Code("mkdir", 0) /\ blocks' = blocks /\ directory' = directory
    BY <1>1, <1>3 DEF Create, Code
  <2> HIDE DEF p
  <2>5. /\ Directories' = Directories \cup {i} /\ Files' = Files /\ i \notin Used
        /\ entries'[i].name = p /\ \A j \in Entries : j # i => entries'[j] = entries[j]
    BY <2>2 DEF IsCreated
  <2>6. Directories \subseteq Used /\ Files \subseteq Used /\ Used \subseteq Entries
    BY DEF Directories, Files, Used
  <2>7. DirectoryNames' = DirectoryNames \cup {p}
    <3>1. \A j \in Directories : entries'[j].name = entries[j].name
      BY <2>5, <2>6
    <3> QED BY <2>5, <3>1 DEF DirectoryNames
  <2>8. FileTexts' = FileTexts
    <3>1. \A j \in Files : entries'[j] = entries[j]
      BY <2>5, <2>6
    <3> QED BY <2>4, <2>5, <3>1, TextsKept
  <2>9. Abs!Done("mkdir")
    BY <2>4, AbsDone
  <2> QED BY <1>1, <2>3, <2>4, <2>7, <2>8, <2>9 DEF Abs!AbsMkdir
<1> QED BY <1>2, <1>3

\* A file of size 0 has no text.
LEMMA ShownFacts ==
  ASSUME NEW block
  PROVE  Shown(block, 0) = <<>>
<1>1. (IF 0 <= N_DATA THEN 0 ELSE N_DATA) = 0
  BY SizeFacts
<1>2. [k \in 1..0 |-> block[k]] = <<>>
  OBVIOUS
<1> QED BY <1>1, <1>2 DEF Shown

LEMMA CreateStep ==
  ASSUME TreeInv, TreeInv', NEW n \in Names, CreateFile(n)
  PROVE  Abs!AbsCreate(n)
<1> DEFINE p == Adjust(n)
<1>1. Create("create", n, "FILE") /\ p = Abs!Resolve(n) /\ Abs!ROOT = ROOT
  BY SameHelpers DEF CreateFile
<1>0. DOMAIN FileTexts = FileNames
  BY DEF FileTexts
<1>2. CASE CreateError(n, "FILE") # 0
  <2>1. ~Abs!Creatable(n) \/ p \in FileNames
    BY <1>2, CreateRefused
  <2>2. Abs!Refused("create")
    BY <1>1, <1>2, CreateNothing
  <2> HIDE DEF p
  <2> QED BY <1>0, <1>1, <2>1, <2>2 DEF Abs!AbsCreate
<1>3. CASE CreateError(n, "FILE") = 0
  <2>1. IsCreatable(n, p, "FILE") /\ \E i \in Entries : IsCreated(i, p, "FILE")
    BY <1>1, <1>3, CreateFacts
  <2>2. PICK i \in Entries : IsCreated(i, p, "FILE")
    BY <2>1
  <2>3. /\ Abs!Creatable(n) /\ p \notin FileNames
        /\ Cardinality(Used') = Cardinality(Used) + 1
    BY <2>1, <2>2, CreateAllowed
  <2>4. reply' = Code("create", 0) /\ blocks' = blocks /\ directory' = directory
    BY <1>1, <1>3 DEF Create, Code
  <2> HIDE DEF p
  <2>5. /\ Directories' = Directories /\ i \notin Used
        /\ Files' = IF p # ROOT THEN Files \cup {i} ELSE Files
        /\ entries'[i].name = p /\ \A j \in Entries : j # i => entries'[j] = entries[j]
        /\ entries'[i].size = 0
    <3>1. /\ entries' = [entries EXCEPT ![i] =
                          [name |-> p, type |-> "FILE", size |-> 0, payload |-> current_location]]
          /\ entries \in [Entries -> Entry] /\ i \in Entries
      BY <2>2 DEF IsCreated, TreeInv
    <3>2. entries'[i].size = 0
      BY <3>1
    <3> QED BY <2>2, <3>2 DEF IsCreated
  <2>6. Directories \subseteq Used /\ Files \subseteq Used /\ Used \subseteq Entries
    BY DEF Directories, Files, Used
  <2>7. DirectoryNames' = DirectoryNames
    <3>1. \A j \in Directories : entries'[j].name = entries[j].name
      BY <2>5, <2>6
    <3> QED BY <2>5, <3>1 DEF DirectoryNames
  <2>8. \A j \in Files : entries'[j] = entries[j]
    BY <2>5, <2>6
  <2>9. FileTexts' = IF p = ROOT THEN FileTexts
                     ELSE [q \in FileNames \cup {p} |-> IF q = p THEN <<>> ELSE FileTexts[q]]
    <3>1. CASE p = ROOT
      <4>1. Files' = Files
        BY <2>5, <3>1
      <4>2. FileTexts' = FileTexts
        BY <2>4, <2>8, <4>1, TextsKept
      <4> QED BY <3>1, <4>2
    <3>2. CASE p # ROOT
      <4> DEFINE F == [q \in FileNames \cup {p} |-> IF q = p THEN <<>> ELSE FileTexts[q]]
      <4>1. Files' = Files \cup {i}
        BY <2>5, <3>2
      <4>2. FileNames' = FileNames \cup {p}
        BY <2>5, <2>8, <4>1 DEF FileNames
      <4>3. F = [q \in FileNames' |-> F[q]]
        BY <4>2
      <4>4. ASSUME NEW j \in Files'
            PROVE  F[entries'[j].name] = Shown(blocks'[entries'[j].payload], entries'[j].size)
        <5>1. CASE j = i
          <6>1. F[entries'[j].name] = <<>>
            BY <2>5, <5>1
          <6> HIDE DEF F
          <6> QED BY <2>5, <5>1, <6>1, ShownFacts
        <5>2. CASE j \in Files
          <6>1. /\ entries'[j] = entries[j] /\ entries[j].name \in FileNames
                /\ FileTexts[entries[j].name] = Shown(blocks[entries[j].payload], entries[j].size)
            BY <2>8, <5>2, Held DEF HeldFacts
          <6>2. F[entries[j].name] = FileTexts[entries[j].name]
            BY <2>3, <6>1
          <6> HIDE DEF F
          <6> QED BY <2>4, <6>1, <6>2
        <5> QED BY <4>1, <5>1, <5>2
      <4> HIDE DEF F
      <4>5. FileTexts' = F
        BY <4>3, <4>4, TextsAre
      <4> QED BY <3>2, <4>5 DEF F
    <3> QED BY <3>1, <3>2
  <2>10. Abs!Done("create")
    BY <2>4, AbsDone
  <2> QED BY <1>0, <1>1, <2>3, <2>4, <2>7, <2>9, <2>10 DEF Abs!AbsCreate
<1> QED BY <1>2, <1>3

\* A deletion that is refused.
LEMMA DeleteRefused ==
  ASSUME TreeInv, NEW n \in Names, DeleteError(Sought(Adjust(n))) # 0
  PROVE  /\ Adjust(n) \notin FileNames
         /\ \/ Adjust(n) = ROOT \/ Adjust(n) \notin DirectoryNames
            \/ \E q \in DirectoryNames \cup FileNames : Abs!BeginsLike(q, Adjust(n))
<1> DEFINE p == Adjust(n)
           i == Sought(p)
<1>1. p # UNUSED /\ p \in Seq(Components) /\ Len(p) \in Nat
  BY AdjustFacts, LenProperties
<1>2. IsRoot(i) \/ (entries[i].type # "FILE" /\ NotEmpty(i))
  BY DEF DeleteError
<1> HIDE DEF p
<1>3. /\ p \in FileNames <=> ~IsRoot(Exists(p, "FILE"))
      /\ p \in DirectoryNames <=> p = ROOT \/ ~IsRoot(Exists(p, "DIRECTORY"))
  BY <1>1, PathFacts
<1>4. /\ ~IsRoot(Exists(p, "FILE")) => entries[Exists(p, "FILE")].type = "FILE"
  BY ExistsFacts
<1>5. p \notin FileNames /\ i = Exists(p, "DIRECTORY")
  BY <1>2, <1>3, <1>4 DEF Sought
<1>6. CASE IsRoot(i)
  BY <1>3, <1>5, <1>6 DEF p
<1>7. ASSUME ~IsRoot(i), NotEmpty(i)
      PROVE  \E q \in DirectoryNames \cup FileNames : Abs!BeginsLike(q, p)
  <2>1. i \in Entries /\ entries[i].name = p
    BY <1>5, <1>7, ExistsFacts
  <2>2. PICK j \in Entries : NameBegins(j, i)
    BY <1>7 DEF NotEmpty
  <2> DEFINE q == entries[j].name
  <2>3. /\ q # p /\ Len(p) <= Len(q) /\ q # UNUSED
        /\ SubSeq(q, 1, Len(p) - 1) = Front(p)
        /\ q[Len(p)] = Last(p) \/ <<q[Len(p)], Last(p)>> \in Extensions
    BY <2>1, <2>2 DEF NameBegins
  <2>4. Len(p) # 0
    <3>1. p # <<>>
      BY <1>7, <2>1 DEF IsRoot, ROOT
    <3> QED BY <1>1, <3>1, EmptySeq
  <2>5. q \in Seq(Components) /\ Len(q) \in Nat
    BY LenProperties DEF TreeInv, Entry
  <2>6. Len(p) \in 1..Len(q)
    BY <1>1, <2>3, <2>4, <2>5
  <2>7. Abs!BeginsLike(q, p)
    <3> HIDE DEF q
    <3> QED BY <2>3, <2>6 DEF Abs!BeginsLike, Abs!Front, Front, Abs!Last, Last
  <2>8. q \in DirectoryNames \cup FileNames
    <3>1. q # ROOT
      BY <1>1, <2>3, <2>4, <2>6, RootFacts
    <3>2. j \in Directories \cup Files
      BY <2>3, <3>1 DEF Directories, Files, Used, IsRoot
    <3> QED BY <3>2 DEF DirectoryNames, FileNames
  <2> QED BY <2>7, <2>8
<1> QED BY <1>2, <1>5, <1>6, <1>7 DEF p

\* The names and texts that are left when one entry is gone, and with it what
\* no file but this one shows.
LEMMA DeleteLeaves ==
  ASSUME TreeInv, TreeInv', NEW i \in Entries, IsDeleted(i),
         \A j \in Files \ {i} : blocks'[entries[j].payload] = blocks[entries[j].payload]
  PROVE  /\ i \in Directories => /\ DirectoryNames' = DirectoryNames \ {entries[i].name}
                                 /\ FileTexts' = FileTexts
         /\ i \in Files => /\ DirectoryNames' = DirectoryNames
                           /\ FileTexts' = [q \in FileNames \ {entries[i].name} |-> FileTexts[q]]
         /\ Cardinality(Used') = Cardinality(Used) - 1
<1>1. /\ \A j \in Entries : j # i => entries'[j] = entries[j]
      /\ Used' = Used \ {i} /\ Directories' = Directories \ {i} /\ Files' = Files \ {i}
      /\ i \in Directories \cup Files
  BY DEF IsDeleted
<1>2. Directories \subseteq Used /\ Files \subseteq Used /\ Used \subseteq Entries
      /\ Directories \cap Files = {}
  BY DEF Directories, Files, Used
<1>3. /\ \A j \in Files' : j \in Files /\ j # i /\ entries'[j] = entries[j]
      /\ \A j \in Directories' : j \in Directories /\ j # i /\ entries'[j] = entries[j]
  BY <1>1, <1>2
<1>4. HeldFacts
  BY Held
<1>5. Cardinality(Used') = Cardinality(Used) - 1
  <2>1. i \in Used
    BY <1>1, <1>2
  <2> QED BY <1>1, <2>1, UsedFacts, FS_RemoveElement
<1>6. \A j \in Files' :
        /\ entries[j].name \in FileNames
        /\ FileTexts[entries[j].name] = Shown(blocks'[entries'[j].payload], entries'[j].size)
  BY <1>3, <1>4 DEF HeldFacts
<1>7. ASSUME i \in Directories
      PROVE  /\ DirectoryNames' = DirectoryNames \ {entries[i].name}
             /\ FileTexts' = FileTexts
  <2>1. Files' = Files
    BY <1>1, <1>2, <1>7
  <2>2. FileNames' = FileNames
    BY <1>3, <2>1 DEF FileNames
  <2>3. FileTexts = [q \in FileNames' |-> FileTexts[q]]
    BY <1>4, <2>2 DEF HeldFacts
  <2>4. \A j \in Files' : FileTexts[entries'[j].name] = Shown(blocks'[entries'[j].payload], entries'[j].size)
    BY <1>3, <1>6
  <2>5. FileTexts' = FileTexts
    BY <2>3, <2>4, TextsAre
  <2>6. \A j, k \in Directories : entries[j].name = entries[k].name => j = k
    BY <1>4 DEF HeldFacts
  <2>7. DirectoryNames' = DirectoryNames \ {entries[i].name}
    <3>1. Directories' = Directories \ {i} /\ \A j \in Directories' : entries'[j].name = entries[j].name
      BY <1>1, <1>3
    <3> QED BY <1>7, <2>6, <3>1 DEF DirectoryNames
  <2> QED BY <2>5, <2>7
<1>8. ASSUME i \in Files
      PROVE  /\ DirectoryNames' = DirectoryNames
             /\ FileTexts' = [q \in FileNames \ {entries[i].name} |-> FileTexts[q]]
  <2>1. Directories' = Directories
    BY <1>1, <1>2, <1>8
  <2>2. DirectoryNames' = DirectoryNames
    BY <1>3, <2>1 DEF DirectoryNames
  <2>3. \A j, k \in Files : entries[j].name = entries[k].name => j = k
    BY <1>4 DEF HeldFacts
  <2>4. FileNames' = FileNames \ {entries[i].name}
    <3>1. Files' = Files \ {i} /\ \A j \in Files' : entries'[j].name = entries[j].name
      BY <1>1, <1>3
    <3> QED BY <1>8, <2>3, <3>1 DEF FileNames
  <2> DEFINE F == [q \in FileNames \ {entries[i].name} |-> FileTexts[q]]
  <2>5. F = [q \in FileNames' |-> F[q]]
    BY <2>4
  <2>6. ASSUME NEW j \in Files'
        PROVE  F[entries'[j].name] = Shown(blocks'[entries'[j].payload], entries'[j].size)
    <3>1. entries'[j].name \in FileNames' /\ entries'[j] = entries[j]
      BY <1>3 DEF FileNames
    <3>2. F[entries'[j].name] = FileTexts[entries[j].name]
      BY <2>4, <3>1
    <3> HIDE DEF F
    <3> QED BY <1>6, <3>2
  <2> HIDE DEF F
  <2>7. FileTexts' = F
    BY <2>5, <2>6, TextsAre
  <2> QED BY <2>2, <2>7 DEF F
<1> QED BY <1>5, <1>7, <1>8

LEMMA DeleteStep ==
  ASSUME TreeInv, TreeInv', RestOK, BlocksAreOwned, NEW n \in Names, Delete(n)
  PROVE  Abs!AbsDelete(n)
<1> DEFINE p == Adjust(n)
           i == Sought(p)
<1>1. /\ reply' = Code("delete", DeleteError(i)) /\ directory' = directory
      /\ blocks' = blocks /\ (DeleteError(i) # 0 => UNCHANGED entries)
      /\ DeleteError(i) = 0 =>
           /\ IsDeleted(i) /\ ~IsRoot(i) /\ entries[i].name = p
           /\ entries[i].type = "FILE" \/ ~NotEmpty(i)
  BY DeleteFacts
<1>2. Abs!Resolve(n) = p /\ Abs!ROOT = ROOT /\ DOMAIN FileTexts = FileNames
  BY SameHelpers DEF FileTexts
<1>3. p # UNUSED
  BY AdjustFacts
<1>4. CASE DeleteError(i) # 0
  <2>1. /\ DirectoryNames' = DirectoryNames /\ FileTexts' = FileTexts /\ Used' = Used
    BY <1>1, <1>4, AllKept
  <2>2. Abs!Refused("delete")
    <3> DEFINE error == DeleteError(i)
    <3> HIDE DEF error, i
    <3> QED BY <1>1, <1>4, <2>1, AbsRefused DEF error
  <2>3. /\ p \notin FileNames
        /\ p = ROOT \/ p \notin DirectoryNames
           \/ \E q \in DirectoryNames \cup FileNames : Abs!BeginsLike(q, p)
    BY <1>4, DeleteRefused
  <2> HIDE DEF p
  <2> QED BY <1>2, <2>2, <2>3 DEF Abs!AbsDelete
<1>5. CASE DeleteError(i) = 0
  <2>1. IsDeleted(i) /\ i \in Entries /\ entries[i].name = p /\ ~IsRoot(i) /\ directory' = directory
    BY <1>1, <1>5 DEF IsDeleted
  <2>2. Abs!Done("delete")
    BY <1>1, <1>5, AbsDone
  <2>3. i \in Directories \cup Files /\ Directories \cap Files = {}
    BY <2>1 DEF IsDeleted, Files
  <2>4. i \in Files <=> entries[i].type = "FILE"
    BY <2>3, FileIsFound DEF Directories
  <2>5. \A j \in Files \ {i} : blocks'[entries[j].payload] = blocks[entries[j].payload]
    BY <1>1
  <2> HIDE DEF i
  <2>6. /\ i \in Directories => /\ DirectoryNames' = DirectoryNames \ {p}
                                /\ FileTexts' = FileTexts
        /\ i \in Files => /\ DirectoryNames' = DirectoryNames
                          /\ FileTexts' = [q \in FileNames \ {p} |-> FileTexts[q]]
        /\ Cardinality(Used') = Cardinality(Used) - 1
    BY <2>1, <2>5, DeleteLeaves
  <2>7. CASE i \in Files
    <3>1. p \in FileNames
      BY <2>1, <2>7 DEF FileNames
    <3> HIDE DEF p
    <3> QED BY <1>2, <2>1, <2>2, <2>6, <2>7, <3>1 DEF Abs!AbsDelete
  <2>8. CASE i \in Directories
    <3>1. p \in DirectoryNames /\ p # ROOT
      BY <2>1, <2>8 DEF DirectoryNames, IsRoot
    <3>2. p \notin FileNames
      <4>1. i # Exists(p, "FILE") \/ IsRoot(Exists(p, "FILE"))
        <5> HIDE DEF p
        <5> QED BY <2>3, <2>4, <2>8, ExistsFacts
      <4>2. IsRoot(Exists(p, "FILE"))
        <5> HIDE DEF p
        <5> QED BY <4>1 DEF i, Sought
      <4> HIDE DEF p
      <4> QED BY <1>3, <4>2, PathFacts
    <3>3. ASSUME NEW q \in DirectoryNames \cup FileNames PROVE p \notin Abs!Ancestors(q)
      <4>1. PICK a \in Directories \cup Files : entries[a].name = q
        BY DEF DirectoryNames, FileNames
      <4>2. a \in Entries /\ q # UNUSED /\ q \in Seq(Components)
        BY <4>1 DEF Directories, Files, Used, TreeInv, Entry
      <4>3. ASSUME NEW k \in 1..(Len(q) - 1), p = SubSeq(q, 1, k) PROVE FALSE
        <5>1. NameBegins(a, i)
          <6>1. /\ q # p /\ Len(p) <= Len(q) /\ SubSeq(q, 1, Len(p) - 1) = Front(p)
                /\ q[Len(p)] = Last(p)
            BY <4>2, <4>3, BeginningFacts
          <6> HIDE DEF p
          <6> QED BY <2>1, <4>1, <4>2, <6>1 DEF NameBegins
        <5>2. ~NotEmpty(i)
          BY <1>1, <1>5, <2>3, <2>4, <2>8 DEF i
        <5> QED BY <4>2, <5>1, <5>2 DEF NotEmpty
      <4> HIDE DEF p
      <4> QED BY <4>3 DEF Abs!Ancestors
    <3> HIDE DEF p
    <3> QED BY <1>2, <2>1, <2>2, <2>6, <2>8, <3>1, <3>2, <3>3 DEF Abs!AbsDelete
  <2> QED BY <2>3, <2>7, <2>8
<1> QED BY <1>4, <1>5

LEMMA SameVisible ==
  ASSUME NEW s
  PROVE  Abs!Visible(s) = CString(s)
BY DEF Abs!Visible, CString, Abs!SelectInSeq, SelectInSeq, Abs!Min, Min

LEMMA ReadStep ==
  ASSUME TreeInv, TreeInv', RestOK, BlocksAreOwned, NEW n \in Names, Read(n)
  PROVE  Abs!AbsRead(n)
<1> DEFINE p == Adjust(n)
           i == Exists(p, "FILE")
           data == Contents(Chain(entries[i].payload), entries[i].size)
           text == IF IsRoot(i) THEN <<>> ELSE IF data = <<>> THEN <<Blank>> ELSE CString(data)
<1>1. reply' = [Code("read", 0) EXCEPT !.text = text] /\ UNCHANGED <<entries, blocks, directory>>
  BY DEF Read
<1>2. /\ DirectoryNames' = DirectoryNames /\ FileTexts' = FileTexts /\ Used' = Used
  BY <1>1, AllKept
<1>3. p # UNUSED /\ Abs!Resolve(n) = p /\ DOMAIN FileTexts = FileNames
  BY AdjustFacts, SameHelpers DEF FileTexts
<1>4. p \in FileNames <=> ~IsRoot(i)
  <2> HIDE DEF p
  <2> QED BY <1>3, PathFacts
<1>5. ASSUME ~IsRoot(i) PROVE data = FileTexts[p]
  <2>1. i \in Files /\ entries[i].name = p
    BY <1>5, FileFound
  <2>2. Chain(entries[i].payload) = <<entries[i].payload>>
    BY <2>1, PayloadFacts, ChainFacts DEF RestOK, BlocksAreOwned
  <2>3. entries[i].size \in Nat
    BY EntryFacts
  <2>4. data = Shown(blocks[entries[i].payload], entries[i].size)
    BY <2>2, <2>3, SingleContents
  <2>5. FileTexts[p] = Shown(blocks[entries[i].payload], entries[i].size)
    BY <2>1, Held DEF HeldFacts
  <2> QED BY <2>4, <2>5
<1>6. text = IF p \notin FileNames THEN <<>>
             ELSE IF FileTexts[p] = <<>> THEN <<Blank>> ELSE Abs!Visible(FileTexts[p])
  <2> HIDE DEF data, i, p
  <2> QED BY <1>4, <1>5, SameVisible
<1>7. reply' = Abs!Text(text)
  <2> HIDE DEF text
  <2> QED BY <1>1, SameHelpers DEF Abs!Text
<1> HIDE DEF p, text
<1> QED BY <1>1, <1>2, <1>3, <1>6, <1>7 DEF Abs!AbsRead

\* What _sfs_list makes of the first k entries.
IsListing(s, k) ==
  /\ s \in Seq(Seq(Components))
  /\ ToSet(s) = {entries[i].name : i \in Used \cap (1..k)}
  /\ Len(s) = Cardinality(Used \cap (1..k))

LEMMA NextListed ==
  ASSUME TreeInv, NEW k \in Entries, NEW s, IsListing(s, k - 1)
  PROVE  IsListing(Listed(s, entries[k].name), k)
<1> DEFINE p == entries[k].name
           U == Used \cap (1..k)
           V == Used \cap (1..(k - 1))
<1>1. k \in Nat /\ k >= 1 /\ p \in Seq(Components)
  BY SizeFacts DEF TreeInv, Entry, Entries
<1>2. s \in Seq(Seq(Components)) /\ ToSet(s) = {entries[i].name : i \in V} /\ Len(s) = Cardinality(V)
  BY DEF IsListing
<1>3. IsFiniteSet(V)
  BY UsedFacts, FS_Subset
<1>4. CASE p = UNUSED
  <2>1. U = V
    BY <1>1, <1>4 DEF Used
  <2>2. Listed(s, p) = s
    BY <1>4 DEF Listed
  <2> QED BY <1>2, <2>1, <2>2 DEF IsListing
<1>5. CASE p # UNUSED
  <2>1. U = V \cup {k} /\ k \notin V
    BY <1>1, <1>5 DEF Used
  <2>2. Cardinality(U) = Cardinality(V) + 1
    BY <1>3, <2>1, FS_AddElement
  <2>3. Listed(s, p) = Append(s, p)
    BY <1>5 DEF Listed
  <2> DEFINE t == Append(s, p)
             m == Len(s)
  <2>4. /\ t \in Seq(Seq(Components)) /\ Len(t) = m + 1 /\ m \in Nat
        /\ \A x \in 1..m : t[x] = s[x]
        /\ t[m + 1] = p
    <3> DEFINE B == Seq(Components)
    <3>1. s \in Seq(B) /\ p \in B
      BY <1>1, <1>2
    <3> HIDE DEF B, p
    <3>2. m \in Nat
      BY <3>1, LenProperties
    <3>3. Append(s, p) \in Seq(B) /\ Len(Append(s, p)) = m + 1
          /\ \A x \in 1..m : Append(s, p)[x] = s[x]
          /\ Append(s, p)[m + 1] = p
      BY <3>1, <3>2, AppendProperties
    <3> QED BY <3>2, <3>3 DEF B
  <2>5. ToSet(t) = ToSet(s) \cup {p}
    <3> HIDE DEF t, m, p
    <3>1. ToSet(t) = {t[x] : x \in 1..(m + 1)} /\ ToSet(s) = {s[x] : x \in 1..m}
      BY <1>2, <2>4, LenProperties DEF ToSet, m
    <3> QED BY <2>4, <3>1
  <2>6. {entries[x].name : x \in U} = {entries[x].name : x \in V} \cup {p}
    BY <2>1
  <2> HIDE DEF t, p, U, V
  <2>7. ToSet(t) = {entries[x].name : x \in U} /\ Len(t) = Cardinality(U)
    BY <1>2, <2>2, <2>4, <2>5, <2>6 DEF m
  <2> QED BY <2>3, <2>4, <2>7 DEF IsListing, t, p, U
<1> QED BY <1>4, <1>5

LEMMA ListFacts ==
  ASSUME TreeInv
  PROVE  IsListing(FoldLeft(Listed, <<>>, [i \in Entries |-> entries[i].name]), N_ENTRIES)
<1> DEFINE A == Seq(Seq(Components))
           B == Seq(Components)
           a == <<>>
           n == N_ENTRIES
           G == [q \in A \X B |-> Listed(q[1], q[2])]
           s == [i \in Entries |-> entries[i].name]
           Folds(f) == f = [T \in SUBSET DOMAIN s |->
             IF T = {} THEN a ELSE Listed(f[T \ {Max(T)}], s[Max(T)])]
           F == CHOOSE f : Folds(f)
<1>0. n \in Nat /\ Entries = 1..n
  BY SizeFacts DEF Entries
<1>1. /\ G \in [A \X B -> A] /\ a \in A
      /\ s \in [1..n -> B] /\ DOMAIN s = 1..n
  <2>1. ASSUME NEW q \in A \X B PROVE Listed(q[1], q[2]) \in A
    <3>1. q[1] \in A /\ q[2] \in B
      OBVIOUS
    <3> DEFINE u == q[1]
               v == q[2]
    <3>2. A = Seq(B)
      OBVIOUS
    <3> HIDE DEF A, B, u, v
    <3>3. Append(u, v) \in A
      BY <3>1, <3>2, AppendProperties DEF u, v
    <3> QED BY <3>1, <3>3 DEF Listed, u, v
  <2>2. a \in A
    BY EmptySeq
  <2>3. s \in [1..n -> B]
    BY <1>0 DEF TreeInv, Entry
  <2> QED BY <1>0, <2>1, <2>2, <2>3
<1>2. FoldLeft(Listed, <<>>, s) = F[1..n]
  BY <1>1 DEF FoldLeft, MapThenFoldSet
<1>3. \E f : Folds(f)
  <2>1. PICK f \in [SUBSET (1..n) -> A] : IsFold(f, G, a, s, n)
    <3> HIDE DEF G, s, a, A, B, n
    <3> QED BY <1>0, <1>1, FoldExists
  <2>2. ASSUME NEW T \in SUBSET (1..n), T # {}
        PROVE  G[<<f[T \ {Max(T)}], s[Max(T)]>>] = Listed(f[T \ {Max(T)}], s[Max(T)])
    <3>1. Max(T) \in 1..n /\ T \ {Max(T)} \in SUBSET (1..n)
      BY <1>0, <2>2, MaxFacts
    <3>2. f[T \ {Max(T)}] \in A /\ s[Max(T)] \in B
      <4> HIDE DEF s, A, B, n
      <4> QED BY <1>1, <3>1
    <3> HIDE DEF s, A, B
    <3> QED BY <3>2
  <2> HIDE DEF G, a
  <2>3. Folds(f)
    <3>1. SUBSET DOMAIN s = SUBSET (1..n)
      BY <1>1
    <3> HIDE DEF s
    <3> QED BY <2>1, <2>2, <3>1 DEF IsFold
  <2> QED BY <2>3
<1>4. Folds(F)
  BY <1>3
<1> HIDE DEF F
<1>5. IsFoldIn(A, F, G, a, s, n)
  <2>1. F[{}] = a
    BY <1>4
  <2>2. ASSUME NEW T \in SUBSET (1..n), T # {}, F[T \ {Max(T)}] \in A
        PROVE  F[T] = G[<<F[T \ {Max(T)}], s[Max(T)]>>]
    <3>1. Max(T) \in 1..n
      BY <1>0, <2>2, MaxFacts
    <3>2. F[T] = Listed(F[T \ {Max(T)}], s[Max(T)])
      BY <1>1, <1>4, <2>2
    <3>3. s[Max(T)] \in B
      <4> HIDE DEF s, B
      <4> QED BY <1>1, <3>1
    <3> HIDE DEF s, A, B
    <3> QED BY <2>2, <3>2, <3>3
  <2> HIDE DEF G, s, a, A, n
  <2> QED BY <2>1, <2>2 DEF IsFoldIn
<1>6. PICK h \in [0..n -> A] : IsFoldChain(h, G, a, s, n) /\ F[1..n] = h[n]
  <2>1. IsFoldEnd(A, F[1..n], G, a, s, n)
    <3> HIDE DEF G, s, a, A, B, n
    <3> QED BY <1>0, <1>1, <1>5, FoldChain
  <2> HIDE DEF G, s, a, A, n
  <2> QED BY <2>1 DEF IsFoldEnd
<1> DEFINE S == {k \in 0..n : IsListing(h[k], k)}
<1>7. 0 \in S
  <2>1. h[0] = <<>>
    BY <1>6 DEF IsFoldChain
  <2>2. Used \cap (1..0) = {}
    OBVIOUS
  <2>3. <<>> \in A /\ Len(<<>>) = 0 /\ ToSet(<<>>) = {}
    BY EmptySeq DEF ToSet
  <2>4. IsListing(<<>>, 0)
    BY <2>2, <2>3, FS_EmptySet DEF IsListing
  <2>5. 0 \in 0..n
    BY <1>0
  <2> QED BY <2>1, <2>4, <2>5
<1>8. ASSUME NEW k \in 0..(n - 1), k \in S PROVE k + 1 \in S
  <2>1. k + 1 \in 1..n /\ k + 1 \in 0..n /\ k + 1 - 1 = k /\ k \in 0..n
    BY <1>0
  <2>2. h[k + 1] = G[<<h[k + 1 - 1], s[k + 1]>>]
    <3> HIDE DEF G, s, a
    <3> QED BY <1>6, <2>1 DEF IsFoldChain
  <2>3. h[k] \in A /\ s[k + 1] \in B /\ s[k + 1] = entries[k + 1].name
    BY <1>0, <1>1, <2>1
  <2>4. h[k + 1] = Listed(h[k], entries[k + 1].name)
    <3> HIDE DEF s, A, B
    <3> QED BY <2>1, <2>2, <2>3
  <2>5. IsListing(h[k], k + 1 - 1) /\ k + 1 \in Entries
    BY <1>0, <1>8, <2>1
  <2>6. IsListing(h[k + 1], k + 1)
    <3> DEFINE c == k + 1
               u == h[k]
    <3>1. c \in Entries /\ IsListing(u, c - 1)
      BY <2>5
    <3> HIDE DEF c, u
    <3>2. IsListing(Listed(u, entries[c].name), c)
      BY <3>1, NextListed
    <3> QED BY <2>4, <3>2 DEF c, u
  <2> QED BY <2>1, <2>6
<1>9. 0..n \subseteq S
  <2> HIDE DEF S, n
  <2> QED BY <1>0, <1>7, <1>8, IntervalInduction
<1>10. IsListing(h[n], n)
  <2>1. n \in 0..n
    BY <1>0
  <2> QED BY <1>9, <2>1
<1> QED BY <1>2, <1>6, <1>10

LEMMA ListStep ==
  ASSUME TreeInv, TreeInv', ListFiles
  PROVE  Abs!AbsList
<1> DEFINE s == FoldLeft(Listed, <<>>, [i \in Entries |-> entries[i].name])
<1>1. reply' = [Code("list", 0) EXCEPT !.names = s] /\ UNCHANGED <<entries, blocks, directory>>
  BY DEF ListFiles
<1>2. /\ DirectoryNames' = DirectoryNames /\ FileTexts' = FileTexts /\ Used' = Used
  BY <1>1, AllKept
<1>3. IsListing(s, N_ENTRIES)
  BY ListFacts
<1> HIDE DEF s
<1>4. Used \cap (1..N_ENTRIES) = Used
  BY DEF Used, Entries
<1>5. {entries[i].name : i \in Used} = DirectoryNames \cup FileNames
  <2>1. ROOT \in DirectoryNames
    BY RootFacts, PathFacts
  <2>2. \A i \in Used : i \in Directories \/ i \in Files \/ entries[i].name = ROOT
    BY DEF Directories, Files, IsRoot
  <2>3. Directories \subseteq Used /\ Files \subseteq Used
    BY DEF Directories, Files
  <2> QED BY <2>1, <2>2, <2>3 DEF DirectoryNames, FileNames
<1>6. reply'.names = s /\ reply' = Abs!List(s)
  BY <1>1, SameHelpers DEF Abs!List, Code
<1>7. Abs!ToSet(s) = ToSet(s)
  BY DEF Abs!ToSet, ToSet
<1>8. ToSet(s) = DirectoryNames \cup FileNames /\ Len(s) = Cardinality(Used)
  BY <1>3, <1>4, <1>5 DEF IsListing
<1> QED BY <1>1, <1>2, <1>6, <1>7, <1>8 DEF Abs!AbsList, FileTexts

\* What a file shows after a call is a text that was cut, if they agree on
\* what a block holds of it.
Agrees(z, block, m) == \A k \in 1..m : z[k] = block[k]

LEMMA CutIsShown ==
  ASSUME NEW z \in Seq(Bytes), NEW size \in Nat, NEW block, NEW m \in Nat,
         m = IF size <= N_DATA THEN size ELSE N_DATA,
         m = IF Len(z) <= N_DATA THEN Len(z) ELSE N_DATA,
         Agrees(z, block, m)
  PROVE  Abs!Cut(z) = Shown(block, size)
<1>1. Len(z) \in Nat /\ N_DATA \in Nat /\ N_DATA > 0
  BY LenProperties, SizeFacts
<1>2. Abs!Cut(z) = SubSeq(z, 1, m)
  <2>1. Abs!Cut(z) = SubSeq(z, 1, Min({Len(z), N_DATA}))
    BY DEF Abs!Cut, Abs!Min, Min, N_DATA
  <2>2. Len(z) \in Int /\ N_DATA \in Int
    BY <1>1
  <2> QED BY <2>1, <2>2, MinMaxOfTwo
<1>3. m <= Len(z)
  BY <1>1
<1>4. /\ SubSeq(z, 1, m) \in Seq(Bytes)
      /\ Len(SubSeq(z, 1, m)) = m
      /\ \A x \in 1..m : SubSeq(z, 1, m)[x] = z[x]
  <2>1. 1 \in Int /\ m \in Int /\ \A x \in 1..m : z[x] \in Bytes
    BY <1>1, <1>3, ElementOfSeq
  <2>2. /\ SubSeq(z, 1, m) \in Seq(Bytes)
        /\ Len(SubSeq(z, 1, m)) = IF 1 <= m THEN m - 1 + 1 ELSE 0
        /\ \A x \in 1..(m - 1 + 1) : SubSeq(z, 1, m)[x] = z[1 + x - 1]
    BY <2>1, SubSeqProperties
  <2>3. m - 1 + 1 = m /\ (~(1 <= m) => m = 0) /\ \A x \in 1..m : 1 + x - 1 = x
    OBVIOUS
  <2> QED BY <2>2, <2>3
<1>5. SubSeq(z, 1, m) = [x \in 1..m |-> SubSeq(z, 1, m)[x]]
  BY <1>4, LenProperties
<1>6. \A x \in 1..m : SubSeq(z, 1, m)[x] = block[x]
  BY <1>4 DEF Agrees
<1>7. SubSeq(z, 1, m) = [x \in 1..m |-> block[x]]
  BY <1>5, <1>6
<1> QED BY <1>2, <1>7 DEF Shown

\* The text that a file shows.
LEMMA ShownIsSeq ==
  ASSUME NEW block \in [Cells -> Bytes], NEW size \in Nat, NEW m,
         m = IF size <= N_DATA THEN size ELSE N_DATA
  PROVE  /\ m \in Nat /\ Shown(block, size) \in Seq(Bytes) /\ Len(Shown(block, size)) = m
         /\ \A k \in 1..m : Shown(block, size)[k] = block[k] /\ block[k] \in Bytes
<1>1. m \in Nat /\ m <= N_DATA /\ N_DATA \in Nat
  BY SizeFacts
<1>2. Shown(block, size) = [k \in 1..m |-> block[k]]
  BY DEF Shown
<1>3. \A k \in 1..m : block[k] \in Bytes
  BY <1>1, CellFacts
<1>4. Shown(block, size) \in [1..m -> Bytes]
  BY <1>2, <1>3
<1>5. Shown(block, size) \in Seq(Bytes) /\ Len(Shown(block, size)) = m
  BY <1>1, <1>4, FunctionIsSeq, LenProperties
<1> QED BY <1>1, <1>2, <1>3, <1>5

\* The size of a file grows by what is appended.
LEMMA AppendedSize ==
  ASSUME Paced, TreeInv, BlocksAreOwned, NEW i \in Files, NEW t \in Texts,
         IsWritten(i, t, TRUE)
  PROVE  /\ entries[i].size \in Nat /\ entries[i].size >= 1
         /\ (entries[i].size + Len(t)) % N_SIZES = entries[i].size + Len(t)
<1>1. entries[i].size \in Nat /\ Len(t) \in Nat /\ N_SIZES \in Nat /\ N_SIZES > 0
  <2>1. entries[i] \in Entry
    BY FileIsFound
  <2> QED BY <2>1, SizeFacts, FileSystemAssumption, LenProperties DEF Entry
<1>2. entries[i].size - 1 \in Nat /\ entries[i].size + Len(t) < N_SIZES
  BY DEF IsWritten, WriteSpot
<1> DEFINE size == entries[i].size
           n == Len(t)
<1>3. size \in Nat /\ n \in Nat /\ size - 1 \in Nat /\ size + n < N_SIZES
  BY <1>1, <1>2
<1> HIDE DEF size, n
<1>4. size + n \in 0..(N_SIZES - 1) /\ size >= 1
  BY <1>1, <1>3
<1>5. \A x \in 0..(N_SIZES - 1) : x % N_SIZES = x
  BY <1>1
<1>6. (size + n) % N_SIZES = size + n
  BY <1>4, <1>5
<1> QED BY <1>3, <1>4, <1>6 DEF size, n

\* The cells of a block after bytes of t were stored behind spot of them.
IsStoredIn(d, block, spot, t, first) ==
  \A x \in Cells : d[x] = IF x \in (1 + spot)..(spot + first) THEN t[x - spot] ELSE block[x]

\* What is appended goes behind the text without its last byte, which the new
\* size takes from the block if there is room.
LEMMA AppendedText ==
  ASSUME NEW block \in [Cells -> Bytes], NEW d \in [Cells -> Bytes], NEW size \in Nat, size >= 1,
         NEW t \in Seq(Bytes), NEW spot, spot = size - 1, NEW first, first = FirstPart(spot, Len(t)),
         ~(spot > 0 /\ spot + Len(t) > N_DATA), IsStoredIn(d, block, spot, t, first)
  PROVE  \E more \in {<<>>} \cup {<<c>> : c \in Bytes} :
           Shown(d, size + Len(t)) = Abs!Cut(Abs!Front(Shown(block, size)) \o t \o more)
<1> DEFINE n == Len(t)
           m == IF size <= N_DATA THEN size ELSE N_DATA
           old == Shown(block, size)
           front == Abs!Front(old)
<1>1. n \in Nat /\ N_DATA \in Nat /\ N_DATA > 0 /\ m \in Nat /\ m >= 1 /\ spot \in Nat
      /\ \A x \in 1..n : t[x] \in Bytes
  BY LenProperties, ElementOfSeq, SizeFacts
<1>2. /\ old \in Seq(Bytes) /\ Len(old) = m
      /\ \A k \in 1..m : old[k] = block[k] /\ block[k] \in Bytes
  BY ShownIsSeq
<1>3. \A k \in 1..N_DATA : k \in Cells /\ block[k] \in Bytes
  BY CellFacts
<1> HIDE DEF old, m, n
<1>4. /\ front \in Seq(Bytes) /\ Len(front) = m - 1
      /\ \A k \in 1..(m - 1) : front[k] = block[k]
  <2>1. front = SubSeq(old, 1, m - 1)
    BY <1>2 DEF Abs!Front
  <2>2. \A x \in 1..(m - 1) : old[x] \in Bytes
    BY <1>1, <1>2
  <2>3. 1 \in Int /\ m - 1 \in Int
    BY <1>1
  <2>4. /\ SubSeq(old, 1, m - 1) \in Seq(Bytes)
        /\ Len(SubSeq(old, 1, m - 1)) = IF 1 <= m - 1 THEN m - 1 - 1 + 1 ELSE 0
        /\ \A x \in 1..(m - 1 - 1 + 1) : SubSeq(old, 1, m - 1)[x] = old[1 + x - 1]
    BY <2>2, <2>3, SubSeqProperties
  <2>5. (IF 1 <= m - 1 THEN m - 1 - 1 + 1 ELSE 0) = m - 1 /\ \A x \in 1..(m - 1) : 1 + x - 1 = x /\ x \in 1..m
    BY <1>1
  <2>6. m - 1 - 1 + 1 = m - 1
    BY <1>1
  <2> QED BY <1>2, <2>1, <2>4, <2>5, <2>6
<1> HIDE DEF front
<1> DEFINE y == front \o t
<1>5. /\ y \in Seq(Bytes) /\ Len(y) = m - 1 + n
      /\ \A k \in 1..(m - 1 + n) : y[k] = IF k <= m - 1 THEN front[k] ELSE t[k - (m - 1)]
  BY <1>4, ConcatProperties DEF n
<1> HIDE DEF y
<1> DEFINE room == m - 1 + n + 1 <= N_DATA
           c == block[m - 1 + n + 1]
           more == IF room THEN <<c>> ELSE <<>>
           z == y \o more
           l == m - 1 + n
<1>6. CASE n = 0
  <2>1. spot <= N_DATA /\ first = 0 /\ size + n = size
    BY <1>1, <1>6 DEF FirstPart, n
  <2>2. \A x \in Cells : d[x] = block[x]
    BY <1>1, <2>1 DEF IsStoredIn
  <2> DEFINE b == block[m]
             w == y \o <<b>>
  <2>3. b \in Bytes /\ m <= N_DATA
    BY <1>1, <1>2 DEF m
  <2>4. <<b>> \in Seq(Bytes) /\ Len(<<b>>) = 1 /\ <<b>>[1] = b
    BY <2>3
  <2>5. /\ w \in Seq(Bytes) /\ Len(w) = m - 1 + 1
        /\ \A k \in 1..(m - 1 + 1) : w[k] = IF k <= m - 1 THEN y[k] ELSE <<b>>[k - (m - 1)]
    <3> HIDE DEF b
    <3>1. Len(y) = m - 1
      BY <1>1, <1>5, <1>6
    <3> QED BY <1>5, <2>4, <3>1, ConcatProperties
  <2> HIDE DEF w
  <2>6. ASSUME NEW k \in 1..m PROVE w[k] = d[k]
    <3>1. d[k] = block[k] /\ k \in 1..(m - 1 + 1)
      BY <1>1, <1>3, <2>2, <2>3
    <3>2. CASE k <= m - 1
      <4>1. k \in 1..(m - 1) /\ k \in 1..(m - 1 + n)
        BY <1>1, <1>6, <3>2
      <4> QED BY <1>4, <1>5, <2>5, <3>1, <3>2, <4>1
    <3>3. CASE ~(k <= m - 1)
      <4>1. k = m /\ k - (m - 1) = 1
        BY <1>1, <3>3
      <4> QED BY <2>4, <2>5, <3>1, <3>3, <4>1
    <3> QED BY <3>2, <3>3
  <2>7. Agrees(w, d, m)
    BY <2>6 DEF Agrees
  <2>8. m = (IF Len(w) <= N_DATA THEN Len(w) ELSE N_DATA) /\ m = (IF size <= N_DATA THEN size ELSE N_DATA)
    <3>1. Len(w) = m
      BY <1>1, <2>5
    <3> QED BY <2>3, <3>1 DEF m
  <2>9. Abs!Cut(w) = Shown(d, size)
    BY <1>1, <2>5, <2>7, <2>8, CutIsShown
  <2>10. <<b>> \in {<<>>} \cup {<<e>> : e \in Bytes}
    BY <2>3
  <2> QED BY <2>1, <2>9, <2>10 DEF w, y, front, old, n
<1>7. CASE n # 0
  <2>1. size <= N_DATA /\ m = size /\ m - 1 = spot /\ spot + n \in Nat
    BY <1>1, <1>7 DEF m, n
  <2>2. first = IF n + spot > N_DATA THEN N_DATA ELSE n
    BY DEF FirstPart, n
  <2>3. n + spot > N_DATA => spot = 0
    BY <1>1, <2>1 DEF n
  <2>4. room => c \in Bytes
    BY <1>1, <1>3, <2>1
  <2>5. more \in Seq(Bytes) /\ Len(more) = (IF room THEN 1 ELSE 0) /\ (room => more[1] = c)
    <3>1. CASE room
      <4> HIDE DEF c, room
      <4> QED BY <2>4, <3>1
    <3>2. CASE ~room
      <4> HIDE DEF room
      <4> QED BY <3>2, EmptySeq
    <3> QED BY <3>1, <3>2
  <2>6. more \in {<<>>} \cup {<<e>> : e \in Bytes}
    <3> HIDE DEF c, room
    <3> QED BY <2>4
  <2> HIDE DEF more, c
  <2>7. /\ z \in Seq(Bytes) /\ Len(z) = l + Len(more)
        /\ \A k \in 1..(l + Len(more)) : z[k] = IF k <= l THEN y[k] ELSE more[k - l]
    <3>1. Len(y) = l /\ y \in Seq(Bytes) /\ more \in Seq(Bytes)
      BY <1>5, <2>5
    <3> HIDE DEF l
    <3> QED BY <3>1, ConcatProperties
  <2> HIDE DEF z
  <2> DEFINE s == size + n
             u == IF s <= N_DATA THEN s ELSE N_DATA
  <2>8. u \in Nat /\ l = spot + n /\ s = l + 1 /\ (room <=> l + 1 <= N_DATA)
    BY <1>1, <2>1
  <2>9. u = IF Len(z) <= N_DATA THEN Len(z) ELSE N_DATA
    <3>1. Len(z) = IF room THEN l + 1 ELSE l
      BY <2>5, <2>7, <2>8, <2>1
    <3> HIDE DEF room, l, s
    <3>2. s \in Nat /\ l \in Nat
      BY <1>1, <2>1, <2>8 DEF s
    <3> QED BY <1>1, <2>8, <3>1, <3>2
  <2>10. ASSUME NEW k \in 1..u PROVE z[k] = d[k]
    <3>1. k \in 1..N_DATA /\ k \in Cells
      BY <1>1, <1>3, <2>8
    <3>2. d[k] = IF k \in (1 + spot)..(spot + first) THEN t[k - spot] ELSE block[k]
      BY <3>1 DEF IsStoredIn
    <3>3. k \in 1..(l + Len(more))
      BY <2>7, <2>8, <2>9, <1>1, <2>5, <2>1
    <3>4. CASE k <= l
      <4>1. z[k] = y[k] /\ k \in 1..(m - 1 + n)
        BY <2>7, <3>3, <3>4
      <4>2. CASE k <= spot
        <5>1. k \in 1..(m - 1) /\ ~(k \in (1 + spot)..(spot + first))
          BY <1>1, <2>1, <4>2
        <5> QED BY <1>4, <1>5, <2>1, <3>2, <4>1, <4>2, <5>1
      <4>3. CASE ~(k <= spot)
        <5>1. k \in (1 + spot)..(spot + first)
          BY <1>1, <2>1, <2>2, <2>3, <2>8, <3>1, <3>4, <4>3
        <5> QED BY <1>5, <2>1, <3>2, <4>1, <4>3, <5>1
      <4> QED BY <4>2, <4>3
    <3>5. CASE ~(k <= l)
      <4>1. room /\ k = l + 1 /\ k - l = 1
        BY <1>1, <2>1, <2>5, <2>8, <3>3, <3>5
      <4>2. ~(k \in (1 + spot)..(spot + first))
        BY <1>1, <2>1, <2>2, <2>8, <4>1
      <4>3. z[k] = more[1] /\ more[1] = c
        BY <2>5, <2>7, <3>3, <3>5, <4>1
      <4>4. c = block[k]
        BY <4>1 DEF c
      <4> QED BY <3>2, <4>2, <4>3, <4>4
    <3> QED BY <3>4, <3>5
  <2>11. Agrees(z, d, u)
    BY <2>10 DEF Agrees
  <2>12. Abs!Cut(z) = Shown(d, s)
    <3>1. u = (IF s <= N_DATA THEN s ELSE N_DATA) /\ s \in Nat
      BY <1>1
    <3> HIDE DEF u, s
    <3> QED BY <2>7, <2>8, <2>9, <2>11, <3>1, CutIsShown
  <2> QED BY <2>6, <2>12 DEF z, y, front, old, n
<1> QED BY <1>6, <1>7

\* The names and texts after a write to the file i.
LEMMA WriteLeaves ==
  ASSUME Paced, TreeInv, TreeInv', BlocksAreOwned, NEW i \in Files, NEW t, NEW append,
         IsWritten(i, t, append)
  PROVE  /\ DirectoryNames' = DirectoryNames /\ Used' = Used
         /\ FileTexts' = [FileTexts EXCEPT ![entries[i].name] =
                            Shown(blocks'[entries[i].payload], entries'[i].size)]
         /\ entries'[i].size = IF append THEN (entries[i].size + Len(t)) % N_SIZES ELSE Len(t)
<1> DEFINE v == Shown(blocks'[entries[i].payload], entries'[i].size)
           p == entries[i].name
           F == [FileTexts EXCEPT ![p] = v]
           new == IF append THEN (entries[i].size + Len(t)) % N_SIZES ELSE Len(t)
<1>0. i \in Entries
  BY FileIsFound
<1>1. IsResized(i, new)
  BY <1>0, WriteNames
<1> HIDE DEF new
<1>2. /\ \A j \in Entries : entries'[j].name = entries[j].name
      /\ \A j \in Entries : entries'[j].payload = entries[j].payload
      /\ \A j \in Entries : j # i => entries'[j] = entries[j]
      /\ entries'[i].size = new
      /\ Used' = Used /\ Directories' = Directories /\ Files' = Files
  BY <1>1 DEF IsResized
<1>3. Directories \subseteq Entries /\ Files \subseteq Entries
  BY DEF Directories, Files, Used
<1>4. DirectoryNames' = DirectoryNames
  BY <1>2, <1>3 DEF DirectoryNames
<1>5. FileNames' = FileNames
  BY <1>2, <1>3 DEF FileNames
<1>6. ASSUME NEW j \in Files, j # i
      PROVE  blocks'[entries[j].payload] = blocks[entries[j].payload]
  <2>1. PICK spot, first, more : /\ more \in Nat
                                 /\ IsStored(blocks', entries[i].payload, spot, t, first, more)
    BY DEF IsWritten
  <2>2. /\ entries[j].payload \in Bytes /\ entries[j].payload \in Nat
        /\ entries[j].payload < current_location /\ current_location \in Nat
    BY PayloadFacts
  <2>3. entries[j].payload # entries[i].payload
    BY <1>6 DEF BlocksAreOwned
  <2>4. ~(entries[j].payload \in current_location..(current_location + more - 1))
    BY <2>2
  <2> QED BY <2>1, <2>2, <2>3, <2>4 DEF IsStored
<1>7. HeldFacts
  BY Held
<1>8. p \in FileNames /\ FileTexts = [q \in FileNames |-> FileTexts[q]]
  BY <1>7 DEF HeldFacts
<1>9. F = [q \in FileNames' |-> F[q]] /\ \A q \in FileNames : F[q] = IF q = p THEN v ELSE FileTexts[q]
  <2> HIDE DEF v, p
  <2> QED BY <1>5, <1>8
<1>10. ASSUME NEW j \in Files'
       PROVE  F[entries'[j].name] = Shown(blocks'[entries'[j].payload], entries'[j].size)
  <2>1. /\ j \in Files /\ j \in Entries
        /\ entries'[j].name = entries[j].name /\ entries'[j].payload = entries[j].payload
    BY <1>2, <1>3
  <2>2. entries[j].name \in FileNames
    BY <2>1, <1>7 DEF HeldFacts
  <2>3. CASE j = i
    <3>1. F[p] = v
      BY <1>8, <1>9
    <3> HIDE DEF F
    <3> QED BY <2>1, <2>3, <3>1
  <2>4. CASE j # i
    <3>1. entries[j].name # p
      BY <1>7, <2>1, <2>4 DEF HeldFacts
    <3>2. F[entries[j].name] = FileTexts[entries[j].name]
      BY <1>9, <2>2, <3>1
    <3>3. FileTexts[entries[j].name] = Shown(blocks[entries[j].payload], entries[j].size)
      BY <1>7, <2>1 DEF HeldFacts
    <3>4. entries'[j] = entries[j]
      BY <1>2, <2>1, <2>4
    <3> HIDE DEF F
    <3> QED BY <1>6, <2>1, <2>4, <3>2, <3>3, <3>4
  <2> QED BY <2>3, <2>4
<1> HIDE DEF F
<1>11. FileTexts' = F
  BY <1>9, <1>10, TextsAre
<1> QED BY <1>2, <1>4, <1>11 DEF F, new

\* What a write leaves in the block of the file.
LEMMA WrittenBlock ==
  ASSUME TreeInv, RestOK, RestOK', BlocksAreOwned, NEW i \in Files, NEW t, NEW append,
         IsWritten(i, t, append), NEW spot, spot = WriteSpot(i, append)
  PROVE  /\ blocks[entries[i].payload] \in [Cells -> Bytes]
         /\ blocks'[entries[i].payload] \in [Cells -> Bytes]
         /\ IsStoredIn(blocks'[entries[i].payload], blocks[entries[i].payload], spot, t,
                       FirstPart(spot, Len(t)))
         /\ ~(spot > 0 /\ spot + Len(t) > N_DATA) /\ spot \in Nat
<1>1. entries[i].payload \in Bytes
  BY PayloadFacts
<1>2. blocks \in [Bytes -> [Cells -> Bytes]] /\ blocks' \in [Bytes -> [Cells -> Bytes]]
  BY DEF RestOK, BlockTables
<1>3. \E more : IsStored(blocks', entries[i].payload, spot, t, FirstPart(spot, Len(t)), more)
  BY DEF IsWritten
<1>4. IsStoredIn(blocks'[entries[i].payload], blocks[entries[i].payload], spot, t,
                 FirstPart(spot, Len(t)))
  BY <1>3 DEF IsStored, IsStoredIn
<1>5. ~(spot > 0 /\ spot + Len(t) > N_DATA) /\ spot \in Nat
  BY DEF IsWritten
<1> QED BY <1>1, <1>2, <1>4, <1>5

\* A write or an append to a name that no file has.
LEMMA WriteNothing ==
  ASSUME Paced, TreeInv, TreeInv', RestOK, BlocksAreOwned, NEW n \in Names, NEW t \in Texts,
         NEW append \in BOOLEAN, Write(n, t, append), IsRoot(Exists(Adjust(n), "FILE"))
  PROVE  Abs!Refused(IF append THEN "append" ELSE "write") /\ Adjust(n) \notin FileNames
<1>1. /\ UNCHANGED <<entries, blocks, current_location, directory>>
      /\ reply' = Code(IF append THEN "append" ELSE "write", 1)
  BY WriteFacts
<1>2. DirectoryNames' = DirectoryNames /\ FileTexts' = FileTexts /\ Used' = Used
  BY <1>1, AllKept
<1>3. Adjust(n) \notin FileNames
  BY AdjustFacts, PathFacts
<1> DEFINE call == IF append THEN "append" ELSE "write"
<1> HIDE DEF call
<1>4. Abs!Refused(call)
  <2>1. reply' = Code(call, 1) /\ directory' = directory /\ 1 # 0
    BY <1>1 DEF call
  <2> QED BY <1>2, <2>1, AbsRefused
<1> QED BY <1>3, <1>4 DEF call

LEMMA WriteStep ==
  ASSUME Paced, TreeInv, TreeInv', RestOK, RestOK', BlocksAreOwned,
         NEW n \in Names, NEW t \in Texts, NEW append \in BOOLEAN, Write(n, t, append)
  PROVE  IF append THEN Abs!AbsAppend(n, t) ELSE Abs!AbsWrite(n, t)
<1> DEFINE p == Adjust(n)
           i == Exists(p, "FILE")
           b == entries[i].payload
           size == entries[i].size
           new == Shown(blocks'[b], entries'[i].size)
<1>1. Abs!Resolve(n) = p /\ DOMAIN FileTexts = FileNames
  BY SameHelpers DEF FileTexts
<1>2. CASE IsRoot(i)
  <2>1. Abs!Refused(IF append THEN "append" ELSE "write") /\ p \notin FileNames
    BY <1>2, WriteNothing
  <2> HIDE DEF p
  <2> QED BY <1>1, <2>1 DEF Abs!AbsAppend, Abs!AbsWrite
<1>3. CASE ~IsRoot(i)
  <2>1. IsWritten(i, t, append) /\ i \in Files /\ entries[i].name = p
    BY <1>3, WriteFacts, FileFound
  <2> HIDE DEF i, p
  <2>2. /\ DirectoryNames' = DirectoryNames /\ Used' = Used /\ directory' = directory
        /\ FileTexts' = [FileTexts EXCEPT ![p] = new]
        /\ entries'[i].size = IF append THEN (size + Len(t)) % N_SIZES ELSE Len(t)
    <3>1. directory' = directory
      BY <2>1 DEF IsWritten
    <3>2. /\ DirectoryNames' = DirectoryNames /\ Used' = Used
          /\ FileTexts' = [FileTexts EXCEPT ![entries[i].name] = new]
          /\ entries'[i].size = IF append THEN (size + Len(t)) % N_SIZES ELSE Len(t)
      BY <2>1, WriteLeaves
    <3> HIDE DEF new, size
    <3> QED BY <2>1, <3>1, <3>2
  <2>3. reply' = Code(IF append THEN "append" ELSE "write", 0)
    BY <2>1 DEF IsWritten
  <2>4. p \in FileNames /\ FileTexts[p] = Shown(blocks[b], size)
    BY <2>1, Held DEF HeldFacts
  <2>5. t \in Seq(Bytes) /\ Len(t) \in Nat /\ N_DATA \in Nat /\ N_DATA > 0
    BY FileSystemAssumption, LenProperties, SizeFacts DEF Bytes
  <2> DEFINE spot == WriteSpot(i, append)
             first == FirstPart(spot, Len(t))
  <2>6. /\ blocks[b] \in [Cells -> Bytes] /\ blocks'[b] \in [Cells -> Bytes]
        /\ IsStoredIn(blocks'[b], blocks[b], spot, t, first)
        /\ ~(spot > 0 /\ spot + Len(t) > N_DATA) /\ spot \in Nat
    BY <2>1, WrittenBlock
  <2>7. CASE append
    <3>1. size \in Nat /\ size >= 1 /\ (size + Len(t)) % N_SIZES = size + Len(t) /\ spot = size - 1
      BY <2>1, <2>7, AppendedSize DEF WriteSpot
    <3>2. new = Shown(blocks'[b], size + Len(t))
      BY <2>2, <2>7, <3>1
    <3>3. \E more \in {<<>>} \cup {<<c>> : c \in Bytes} :
            new = Abs!Cut(Abs!Front(Shown(blocks[b], size)) \o t \o more)
      <4> HIDE DEF spot, b, size, new
      <4> QED BY <2>5, <2>6, <3>1, <3>2, AppendedText, ZenonT(60)
    <3>4. Shown(blocks[b], size) # <<>>
      <4> DEFINE m == IF size <= N_DATA THEN size ELSE N_DATA
      <4>1. Len(Shown(blocks[b], size)) = m
        BY <2>6, <3>1, ShownIsSeq, SMTT(40)
      <4>2. m # 0
        BY <2>5, <3>1
      <4> HIDE DEF m, b, size
      <4> QED BY <4>1, <4>2, EmptySeq
    <3>5. Abs!Done("append") /\ Abs!Bytes = Bytes
      BY <2>3, <2>7, AbsDone, SameHelpers
    <3> HIDE DEF new, b, size
    <3>6. \E more \in {<<>>} \cup {<<c>> : c \in Bytes} :
            FileTexts' = [FileTexts EXCEPT ![p] = Abs!Cut(Abs!Front(@) \o t \o more)]
      BY <2>2, <2>4, <3>3
    <3>7. Abs!AbsAppend(n, t)
      BY <1>1, <2>2, <2>4, <3>4, <3>5, <3>6 DEF Abs!AbsAppend
    <3> QED BY <2>7, <3>7
  <2>8. CASE ~append
    <3>1. spot = 0 /\ new = Shown(blocks'[b], Len(t))
      BY <2>2, <2>8 DEF WriteSpot
    <3> DEFINE m == IF Len(t) <= N_DATA THEN Len(t) ELSE N_DATA
    <3>2. first = m /\ m \in Nat /\ m <= N_DATA
      BY <2>5, <3>1 DEF FirstPart
    <3>3. ASSUME NEW k \in 1..m PROVE t[k] = blocks'[b][k]
      <4>1. k \in Cells /\ k \in (1 + spot)..(spot + first) /\ k - spot = k
        BY <2>5, <3>1, <3>2, CellFacts
      <4> HIDE DEF spot, first, m, b
      <4> QED BY <2>6, <4>1 DEF IsStoredIn
    <3>4. Agrees(t, blocks'[b], m)
      <4> HIDE DEF m, b
      <4> QED BY <3>3 DEF Agrees
    <3>5. Abs!Cut(t) = new
      <4>1. m = IF Len(t) <= N_DATA THEN Len(t) ELSE N_DATA
        OBVIOUS
      <4> HIDE DEF m, b, new, first, spot
      <4> QED BY <2>5, <3>1, <3>2, <3>4, <4>1, CutIsShown
    <3>6. Abs!Done("write")
      BY <2>3, <2>8, AbsDone
    <3> HIDE DEF new, b, size
    <3>7. Abs!AbsWrite(n, t)
      BY <1>1, <2>2, <2>4, <3>5, <3>6 DEF Abs!AbsWrite
    <3> QED BY <2>8, <3>7
  <2> QED BY <2>7, <2>8
<1> QED BY <1>2, <1>3

-----------------------------------------------------------------------------
(* The theorem.                                                            *)

LEMMA NextTree == TreeInv /\ [Next]_vars => TreeInv'
<1> SUFFICES ASSUME TreeInv, [Next]_vars PROVE TreeInv'
  OBVIOUS
<1>1. ASSUME NEW n \in Names, CreateFile(n) \/ CreateDirectory(n) PROVE TreeInv'
  BY <1>1, CreateTree DEF CreateFile, CreateDirectory
<1>2. ASSUME NEW n \in Names, Delete(n) PROVE TreeInv'
  BY <1>2, DeleteTree
<1>3. ASSUME NEW n \in Names, NEW t \in Texts, NEW append \in BOOLEAN, Write(n, t, append)
      PROVE  TreeInv'
  BY <1>3, WriteTree
<1>4. ASSUME NEW n \in Names, SetDirectory(n) PROVE TreeInv'
  BY <1>4, SetDirectoryTree
<1>5. ASSUME UNCHANGED <<entries, current_location, directory>> PROVE TreeInv'
  BY <1>5, NamesKept DEF TreeInv
<1>6. CASE ListFiles \/ (\E n \in Names : Read(n)) \/ UNCHANGED vars
  BY <1>5, <1>6 DEF ListFiles, Read, vars
<1> QED BY <1>1, <1>2, <1>3, <1>4, <1>6 DEF Next

\* Spec => []IsTree: whatever is created, written and deleted, under any names
\* and in whatever current directory, a name is there once as a file and once
\* as a directory, and below directories that exist (fileSystem.c:110-131,
\* 208-231).
THEOREM IsTreeHolds == Spec => []IsTree
<1>1. Spec => []TreeInv
  BY InitTree, NextTree, PTL DEF Spec
<1>2. TreeInv => IsTree
  BY DEF TreeInv
<1> QED BY <1>1, <1>2, PTL

\* Spec => []TypeOK: no call makes a size, a number of a block or a cell that
\* its field cannot hold, nor a result that is no byte (fileSystem.h:41-70).
THEOREM FileSystemTypeOK == Spec => []TypeOK
<1>1. Init => TreeInv /\ RestOK
  BY InitTree, InitRest
<1>2. TreeInv /\ RestOK /\ [Next]_vars => (TreeInv /\ RestOK)'
  BY NextTree, NextRest
<1>3. TreeInv /\ RestOK => TypeOK
  BY DEF TreeInv, RestOK, TypeOK, Proper, BlockTables
<1> QED BY <1>1, <1>2, <1>3, PTL DEF Spec

\* What holds as long as callers keep to what the code can do.
BlocksInv == Paced /\ TreeInv /\ RestOK /\ BlocksAreOwned

LEMMA InitBlocks == Paced /\ Init => BlocksInv
BY InitTree, InitRest, InitOwned DEF BlocksInv

LEMMA NextBlocks == BlocksInv /\ [Next]_vars => BlocksInv'
<1> SUFFICES ASSUME BlocksInv, [Next]_vars PROVE BlocksInv'
  OBVIOUS
<1>1. Paced /\ TreeInv /\ RestOK /\ BlocksAreOwned
  BY DEF BlocksInv
<1>2. TreeInv' /\ RestOK' /\ BlocksAreOwned'
  BY <1>1, NextTree, NextRest, NextOwned
<1> QED BY <1>1, <1>2 DEF BlocksInv

\* Paced /\ Spec => []BlocksAreOwned: while appends fit and blocks last, every
\* file has a block of its own and only taken blocks hold data, so that no call
\* on one file reaches another one (fileSystem.c:145-147, 190-202, 317-343).
THEOREM BlocksAreOwnedHolds == Paced /\ Spec => []BlocksAreOwned
<1>1. BlocksInv => BlocksAreOwned
  BY DEF BlocksInv
<1> QED BY <1>1, InitBlocks, NextBlocks, PTL DEF Spec

LEMMA AbsInitHolds == Init => Abs!AbsInit
<1> SUFFICES ASSUME Init PROVE Abs!AbsInit
  OBVIOUS
<1>1. TreeInv
  BY InitTree
<1>2. \A i \in Entries :
        entries[i] = IF i = 1 THEN [name |-> ROOT, type |-> "DIRECTORY", size |-> 0, payload |-> 0]
                     ELSE [name |-> UNUSED, type |-> "DIRECTORY", size |-> 0, payload |-> 0]
  <2>1. [Unused EXCEPT !.name = ROOT]
          = [name |-> ROOT, type |-> "DIRECTORY", size |-> 0, payload |-> 0]
    BY DEF Unused
  <2> QED BY <2>1 DEF Init, Unused
<1>3. Used = {1} /\ Directories = {1} /\ Files = {}
  <2>1. /\ 1 \in Entries /\ entries[1].name = ROOT /\ entries[1].type = "DIRECTORY"
        /\ \A i \in Entries : i # 1 => entries[i].name = UNUSED
    BY <1>2, SizeFacts
  <2>2. Used = {1}
    BY <2>1, RootFacts DEF Used
  <2>3. Directories = {1}
    BY <2>1, <2>2 DEF Directories
  <2> QED BY <2>2, <2>3 DEF Files
<1>4. DirectoryNames = {ROOT}
  BY <1>1, <1>3 DEF DirectoryNames, TreeInv
<1>5. FileTexts = <<>>
  <2>1. FileNames = {}
    BY <1>3 DEF FileNames
  <2>2. FileTexts = [q \in {} |-> FileTexts[q]]
    BY <1>1, <2>1, Held DEF HeldFacts
  <2>3. \A F : [q \in {} |-> F[q]] = <<>>
    OBVIOUS
  <2> QED BY <2>2, <2>3
<1>6. Cardinality(Used) = 1
  BY <1>3, FS_Singleton
<1>7. directory = ROOT /\ reply = Code("", 0)
  BY DEF Init
<1> QED BY <1>4, <1>5, <1>6, <1>7, SameHelpers DEF Abs!AbsInit

LEMMA AbsNextHolds ==
  BlocksInv /\ BlocksInv' /\ [Next]_vars => [Abs!AbsNext]_Abs!absVars
<1> SUFFICES ASSUME BlocksInv, BlocksInv', [Next]_vars PROVE [Abs!AbsNext]_Abs!absVars
  OBVIOUS
<1>1. Paced /\ TreeInv /\ RestOK /\ BlocksAreOwned /\ TreeInv' /\ RestOK'
  BY DEF BlocksInv
<1>2. CASE ListFiles
  BY <1>1, <1>2, ListStep DEF Abs!AbsNext
<1>3. ASSUME NEW n \in Names, CreateFile(n) PROVE Abs!AbsNext
  BY <1>1, <1>3, CreateStep DEF Abs!AbsNext
<1>4. ASSUME NEW n \in Names, CreateDirectory(n) PROVE Abs!AbsNext
  BY <1>1, <1>4, MkdirStep DEF Abs!AbsNext
<1>5. ASSUME NEW n \in Names, Delete(n) PROVE Abs!AbsNext
  BY <1>1, <1>5, DeleteStep DEF Abs!AbsNext
<1>6. ASSUME NEW n \in Names, Read(n) PROVE Abs!AbsNext
  BY <1>1, <1>6, ReadStep DEF Abs!AbsNext
<1>7. ASSUME NEW n \in Names, SetDirectory(n) PROVE Abs!AbsNext
  BY <1>1, <1>7, CdStep DEF Abs!AbsNext
<1>8. ASSUME NEW n \in Names, NEW t \in Texts, NEW append \in BOOLEAN, Write(n, t, append)
      PROVE  Abs!AbsNext
  <2>1. Abs!AbsAppend(n, t) \/ Abs!AbsWrite(n, t)
    BY <1>1, <1>8, WriteStep
  <2> QED BY <2>1 DEF Abs!AbsNext
<1>9. ASSUME UNCHANGED vars PROVE UNCHANGED Abs!absVars
  <2>1. UNCHANGED <<entries, blocks, directory, reply>>
    BY <1>9 DEF vars
  <2>2. DirectoryNames' = DirectoryNames /\ FileTexts' = FileTexts /\ Used' = Used
    BY <1>1, <2>1, AllKept
  <2> QED BY <2>1, <2>2 DEF Abs!absVars
<1> QED BY <1>2, <1>3, <1>4, <1>5, <1>6, <1>7, <1>8, <1>9 DEF Next

\* Paced /\ Spec => Refines: while appends fit and blocks last, every call does
\* to directories and texts what FileSystemAbs says, however the entries and
\* the blocks are used: what it creates, deletes, writes or refuses, what a
\* read returns, and that all the rest stays as it is (fileSystem.c:99-392).
THEOREM ImplementsFileSystem == Paced /\ Spec => Refines
<1>1. Paced /\ Init => BlocksInv /\ Abs!AbsInit
  BY InitBlocks, AbsInitHolds
<1>2. BlocksInv /\ [Next]_vars => BlocksInv'
  BY NextBlocks
<1>3. BlocksInv /\ BlocksInv' /\ [Next]_vars => [Abs!AbsNext]_Abs!absVars
  BY AbsNextHolds
<1> QED BY <1>1, <1>2, <1>3, PTL DEF Spec, Refines, Abs!AbsSpec

-----------------------------------------------------------------------------
(* What files hold, whatever names callers use.  A caller that a person     *)
(* tells its names, as the shell, may leave gaps in the tree, but files     *)
(* keep their names and blocks for themselves.                              *)

Row(N) == [name : N, type : {"FILE", "DIRECTORY"}, size : Nat, payload : Bytes]

FilesInv ==
  /\ \E N : entries \in [Entries -> Row(N)]
  /\ entries[1].name = ROOT
  /\ \A i \in Entries : entries[i].name = UNUSED => entries[i].type = "DIRECTORY"
  /\ \A i \in Files : entries[i].payload < current_location
  /\ \A i, j \in Files : i # j =>
       entries[i].name # entries[j].name /\ entries[i].payload # entries[j].payload
  /\ blocks \in BlockTables /\ \A b \in Bytes : blocks[b][NEXT] = 0
  /\ current_location \in Bytes

\* The file named p has n bytes and begins with those of w.
Holds(p, w, n) ==
  \E i \in Files :
    /\ entries[i].name = p /\ entries[i].size = n
    /\ \A k \in 1..Len(w) : blocks[entries[i].payload][k] = w[k]

AllHold == \A q, w, n : Holds(q, w, n) => Holds(q, w, n)'
OthersHold(p) == \A q, w, n : q # p /\ Holds(q, w, n) => Holds(q, w, n)'

LEMMA RootIsUsed == ROOT # UNUSED
BY RootFacts

LEMMA RowFacts ==
  ASSUME FilesInv, NEW i \in Entries
  PROVE  /\ entries[i].type \in {"FILE", "DIRECTORY"} /\ entries[i].size \in Nat
         /\ entries[i].payload \in Bytes
         /\ i \in Files <=> entries[i].type = "FILE" /\ entries[i].name # ROOT
<1>1. PICK N : entries \in [Entries -> Row(N)]
  BY DEF FilesInv
<1>2. entries[i] \in Row(N)
  BY <1>1
<1>3. /\ entries[i].type \in {"FILE", "DIRECTORY"} /\ entries[i].size \in Nat
      /\ entries[i].payload \in Bytes
  BY <1>2 DEF Row
<1>4. entries[i].name = UNUSED => entries[i].type = "DIRECTORY"
  BY DEF FilesInv
<1> QED BY <1>3, <1>4 DEF Files, Used, Directories, IsRoot

LEMMA FilesAreEntries == Files \subseteq Entries
BY DEF Files, Used

\* _sfs_exists finds the file of that name, if there is one.
LEMMA FindsFile ==
  ASSUME FilesInv, NEW p, NEW i, i = Exists(p, "FILE")
  PROVE  /\ i \in Entries
         /\ ~IsRoot(i) => i \in Files /\ entries[i].name = p
         /\ \A j \in Files : entries[j].name = p => j = i /\ ~IsRoot(i)
<1> DEFINE found == {j \in Entries : entries[j].name = p /\ entries[j].type = "FILE"}
<1>1. i = IF found = {} THEN 1 ELSE Min(found)
  BY DEF Exists
<1>2. found # {} => Min(found) \in found
  <2>1. found \subseteq Nat
    BY SizeFacts
  <2> HIDE DEF found
  <2> QED BY <2>1, MinFacts
<1>3. i \in Entries
  BY <1>1, <1>2, SizeFacts
<1>4. found = {} => IsRoot(i)
  BY <1>1, SizeFacts DEF FilesInv, IsRoot
<1>5. ~IsRoot(i) => i \in Files /\ entries[i].name = p
  <2> SUFFICES ASSUME ~IsRoot(i) PROVE i \in Files /\ entries[i].name = p
    OBVIOUS
  <2>1. i \in found
    BY <1>1, <1>2, <1>4
  <2> QED BY <1>3, <2>1, RowFacts DEF IsRoot
<1>6. ASSUME NEW j \in Files, entries[j].name = p PROVE j = i /\ ~IsRoot(i)
  <2>1. j \in Entries /\ entries[j].type = "FILE" /\ entries[j].name # ROOT
    BY RowFacts, FilesAreEntries
  <2>2. j \in found
    BY <1>6, <2>1
  <2>3. i \in found
    BY <1>1, <1>2, <2>2
  <2>4. i \in Files /\ entries[i].name = p /\ ~IsRoot(i)
    BY <1>6, <2>1, <2>3, RowFacts DEF IsRoot
  <2> QED BY <1>6, <2>4 DEF FilesInv
<1> QED BY <1>3, <1>5, <1>6

\* Calls that change no file.
LEMMA NothingChanges ==
  ASSUME FilesInv, UNCHANGED <<entries, blocks, current_location>>
  PROVE  FilesInv' /\ AllHold
<1>1. Files' = Files
  BY DEF Files, Used, Directories, IsRoot
<1>2. FilesInv'
  BY <1>1 DEF FilesInv
<1>3. AllHold
  BY <1>1 DEF AllHold, Holds
<1> QED BY <1>2, <1>3

\* The table with another row in place of one that is no file's.
LEMMA TableChanges ==
  ASSUME FilesInv, NEW i \in Entries, i # 1, NEW row, NEW N, row \in Row(N),
         row.name = UNUSED => row.type = "DIRECTORY",
         entries' = [entries EXCEPT ![i] = row]
  PROVE  /\ \E M : entries' \in [Entries -> Row(M)]
         /\ entries'[1].name = ROOT
         /\ \A j \in Entries : entries'[j].name = UNUSED => entries'[j].type = "DIRECTORY"
         /\ entries'[i] = row /\ \A j \in Entries : j # i => entries'[j] = entries[j]
         /\ \A j \in Entries \ {i} : j \in Files' <=> j \in Files
         /\ i \in Files' <=> row.type = "FILE" /\ row.name # ROOT
         /\ Files' \subseteq Entries
<1>1. PICK M : entries \in [Entries -> Row(M)]
  BY DEF FilesInv
<1>2. entries'[i] = row /\ \A j \in Entries : j # i => entries'[j] = entries[j]
  BY <1>1
<1>3. entries' \in [Entries -> Row(M \cup N)]
  <2>1. Row(M) \subseteq Row(M \cup N) /\ Row(N) \subseteq Row(M \cup N)
    BY DEF Row
  <2>2. \A j \in Entries : entries[j] \in Row(M \cup N)
    BY <1>1, <2>1
  <2>3. row \in Row(M \cup N)
    BY <2>1
  <2> HIDE DEF Row
  <2> QED BY <1>1, <2>2, <2>3
<1>4. entries'[1].name = ROOT
  BY <1>2, SizeFacts DEF FilesInv
<1>5. \A j \in Entries : entries'[j].name = UNUSED => entries'[j].type = "DIRECTORY"
  BY <1>2 DEF FilesInv
<1>6. \A j \in Entries \ {i} : j \in Files' <=> j \in Files
  BY <1>2 DEF Files, Used, Directories, IsRoot
<1>7. row.type \in {"FILE", "DIRECTORY"}
  BY DEF Row
<1>8. i \in Files' <=> row.type = "FILE" /\ row.name # ROOT
  BY <1>2, <1>7, RootIsUsed DEF Files, Used, Directories, IsRoot
<1>9. Files' \subseteq Entries
  BY DEF Files, Used
<1> QED BY <1>2, <1>3, <1>4, <1>5, <1>6, <1>8, <1>9

LEMMA CreateKeepsFiles ==
  ASSUME FilesInv, Paced, NEW call, NEW n, NEW type \in {"FILE", "DIRECTORY"},
         Create(call, n, type), NEW p, p = Adjust(n), CreateError(n, type) = 0 => p # UNUSED
  PROVE  /\ FilesInv' /\ AllHold
         /\ reply'.code = 0 /\ type = "FILE" /\ p # ROOT => Holds(p, <<>>, 0)'
<1>1. p = Adjust(n)
  OBVIOUS
<1>2. reply'.code = CreateError(n, type) /\ UNCHANGED blocks
  BY DEF Create, Code
<1>3. CASE CreateError(n, type) # 0
  <2>1. UNCHANGED <<entries, blocks, current_location>>
    BY <1>2, <1>3 DEF Create
  <2>2. FilesInv' /\ AllHold
    BY <2>1, NothingChanges
  <2>3. reply'.code # 0
    BY <1>2, <1>3
  <2>4. ~(reply'.code = 0 /\ type = "FILE" /\ p # ROOT)
    BY <2>3
  <2> QED BY <2>2, <2>4
<1>4. CASE CreateError(n, type) = 0
  <2> DEFINE free == {j \in Entries : entries[j].name = UNUSED}
             row == [name |-> p, type |-> type, size |-> 0,
                     payload |-> IF type = "FILE" THEN current_location ELSE 0]
  <2>1. PICK i : i = Min(free)
    OBVIOUS
  <2>2. /\ entries' = [entries EXCEPT ![i] = row]
        /\ current_location' = IF type = "FILE" THEN Taken(1) ELSE current_location
        /\ type = "FILE" => current_location < N_BYTES - 1
    BY <1>1, <1>2, <1>4, <2>1 DEF Create
  <2>3. IsRoot(Exists(p, type)) /\ free # {}
    <3>0. 249 # 0 /\ 254 # 0 /\ 1 # 0 /\ 2 # 0 /\ 255 # 0
      OBVIOUS
    <3>1. IsRoot(Exists(p, type)) /\ ~(\A j \in Entries : entries[j].name # UNUSED)
      <4> DEFINE A == n = [absolute |-> TRUE, path |-> ROOT] /\ type = "DIRECTORY"
                 B == n.path = <<"">>
                 C == ~IsRoot(Exists(p, type))
                 D == \E q \in {SubSeq(p, 1, k) : k \in 1..(Len(p) - 1)} : IsRoot(Exists(q, "DIRECTORY"))
                 E == \A j \in Entries : entries[j].name # UNUSED
      <4>1. CreateError(n, type) = IF A THEN 249 ELSE IF B THEN 254 ELSE IF C THEN 1
                                   ELSE IF D THEN 2 ELSE IF E THEN 255 ELSE 0
        BY <1>1 DEF CreateError
      <4> HIDE DEF A, B, C, D, E
      <4>2. ~C /\ ~E
        BY <1>4, <3>0, <4>1
      <4> QED BY <4>2 DEF C, E
    <3> QED BY <3>1
  <2>4. i \in Entries /\ entries[i].name = UNUSED /\ i # 1
    <3>1. free \subseteq Nat
      BY SizeFacts
    <3>2. i \in free
      <4> HIDE DEF free
      <4> QED BY <2>1, <2>3, <3>1, MinFacts
    <3> QED BY <3>2, RootIsUsed DEF FilesInv
  <2>5. i \notin Files
    BY <2>4 DEF Files, Used
  <2>6. current_location \in Nat /\ current_location \in Bytes /\ 0 \in Bytes
    BY SizeFacts DEF FilesInv
  <2>7. type = "FILE" => current_location' = current_location + 1 /\ current_location' \in Bytes
    <3> SUFFICES ASSUME type = "FILE"
                 PROVE  current_location' = current_location + 1 /\ current_location' \in Bytes
      OBVIOUS
    <3>1. current_location + 1 \in Bytes
      BY <2>2, <2>6, SizeFacts DEF Bytes
    <3> QED BY <2>2, <3>1, SizeFacts DEF Taken
  <2>8. row \in Row({p}) /\ row.name = p /\ row.type = type /\ row.size = 0
    BY <2>6 DEF Row
  <2>9. p # UNUSED
    BY <1>1, <1>4
  <2>10. row.payload = IF type = "FILE" THEN current_location ELSE 0
    OBVIOUS
  <2> HIDE DEF row
  <2>11. /\ \E M : entries' \in [Entries -> Row(M)]
         /\ entries'[1].name = ROOT
         /\ \A j \in Entries : entries'[j].name = UNUSED => entries'[j].type = "DIRECTORY"
         /\ entries'[i] = row /\ \A j \in Entries : j # i => entries'[j] = entries[j]
         /\ \A j \in Entries \ {i} : j \in Files' <=> j \in Files
         /\ i \in Files' <=> type = "FILE" /\ p # ROOT
         /\ Files' \subseteq Entries
    BY <2>2, <2>4, <2>8, <2>9, TableChanges
  <2>12. ASSUME NEW j \in Files
         PROVE  /\ j \in Files' /\ entries'[j] = entries[j] /\ j # i
                /\ type = "FILE" /\ p # ROOT => entries[j].name # p
    <3>1. j \in Entries /\ j # i
      BY <2>5, FilesAreEntries
    <3>2. type = "FILE" => entries[j].name # p
      BY <2>3, FindsFile
    <3> QED BY <2>11, <3>1, <3>2
  <2>13. ASSUME NEW j \in Files' PROVE j \in Files \/ (j = i /\ type = "FILE" /\ p # ROOT)
    BY <2>11
  <2>14. ASSUME NEW j \in Files' PROVE entries'[j].payload < current_location'
    <3>1. CASE j \in Files
      <4>1. entries[j].payload < current_location /\ entries[j].payload \in Nat
        BY <3>1, RowFacts, FilesAreEntries, SizeFacts DEF FilesInv
      <4>2. current_location' = current_location \/ current_location' = current_location + 1
        BY <2>2, <2>7
      <4> QED BY <2>6, <2>12, <3>1, <4>1, <4>2
    <3>2. CASE j = i /\ type = "FILE"
      BY <2>6, <2>7, <2>10, <2>11, <3>2
    <3> QED BY <2>13, <3>1, <3>2
  <2>15. ASSUME NEW j \in Files', NEW k \in Files', j # k
         PROVE  entries'[j].name # entries'[k].name /\ entries'[j].payload # entries'[k].payload
    <3>1. \A h \in Files : entries[h].payload < current_location /\ entries[h].payload \in Nat
      BY RowFacts, FilesAreEntries, SizeFacts DEF FilesInv
    <3>2. CASE j \in Files /\ k \in Files
      BY <2>12, <2>15, <3>2 DEF FilesInv
    <3>3. CASE j \in Files /\ k = i /\ type = "FILE" /\ p # ROOT
      <4>1. entries'[k].name = p /\ entries'[k].payload = current_location
        BY <2>8, <2>10, <2>11, <3>3
      <4>2. entries'[j] = entries[j] /\ entries[j].name # p /\ entries[j].payload < current_location
        BY <2>12, <3>1, <3>3
      <4>3. entries[j].payload \in Nat
        BY <3>1, <3>3
      <4> QED BY <2>6, <4>1, <4>2, <4>3
    <3>4. CASE k \in Files /\ j = i /\ type = "FILE" /\ p # ROOT
      <4>1. entries'[j].name = p /\ entries'[j].payload = current_location
        BY <2>8, <2>10, <2>11, <3>4
      <4>2. entries'[k] = entries[k] /\ entries[k].name # p /\ entries[k].payload < current_location
        BY <2>12, <3>1, <3>4
      <4>3. entries[k].payload \in Nat
        BY <3>1, <3>4
      <4> QED BY <2>6, <4>1, <4>2, <4>3
    <3> QED BY <2>13, <2>15, <3>2, <3>3, <3>4
  <2>16. FilesInv'
    <3>1. current_location' \in Bytes
      BY <2>2, <2>6, <2>7
    <3> QED BY <1>2, <2>11, <2>14, <2>15, <3>1 DEF FilesInv
  <2>17. AllHold
    BY <1>2, <2>12 DEF AllHold, Holds
  <2>18. ASSUME type = "FILE", p # ROOT PROVE Holds(p, <<>>, 0)'
    <3>1. i \in Files' /\ entries'[i].name = p /\ entries'[i].size = 0
      BY <2>8, <2>11, <2>18
    <3>2. Len(<<>>) = 0 /\ 1..0 = {}
      OBVIOUS
    <3> QED BY <3>1, <3>2 DEF Holds
  <2> QED BY <1>1, <2>16, <2>17, <2>18
<1> QED BY <1>3, <1>4

LEMMA DeleteKeepsFiles ==
  ASSUME FilesInv, NEW n, Delete(n), NEW p, p = Adjust(n)
  PROVE  FilesInv' /\ OthersHold(p) /\ (reply'.code # 0 => AllHold)
<1>1. PICK f : p = Adjust(n) /\ f = Exists(p, "FILE")
  OBVIOUS
<1>2. PICK i : i = IF IsRoot(f) THEN Exists(p, "DIRECTORY") ELSE f
  OBVIOUS
<1> DEFINE error == IF IsRoot(i) THEN 1 ELSE IF entries[i].type # "FILE" /\ NotEmpty(i) THEN 2 ELSE 0
<1>3. /\ reply'.code = error /\ UNCHANGED <<blocks, current_location>>
      /\ entries' = IF error = 0 THEN Cleared(i) ELSE entries
  BY <1>1, <1>2 DEF Delete, Code
<1>4. error = 0 => ~IsRoot(i)
  OBVIOUS
<1> HIDE DEF error
<1>5. CASE error # 0
  <2>1. FilesInv' /\ AllHold
    BY <1>3, <1>5, NothingChanges
  <2> QED BY <2>1 DEF AllHold, OthersHold
<1>6. CASE error = 0
  <2> DEFINE found == {j \in Entries : entries[j].name = p /\ entries[j].type = "DIRECTORY"}
  <2>1. ~IsRoot(i)
    BY <1>4, <1>6
  <2>2. i \in Entries /\ i # 1 /\ (entries[i].type = "FILE" => i \in Files /\ entries[i].name = p)
    <3>1. CASE ~IsRoot(f)
      <4>1. i = f /\ i \in Entries /\ i \in Files /\ entries[i].name = p
        BY <1>1, <1>2, <3>1, FindsFile
      <4> QED BY <2>1, <4>1 DEF FilesInv, IsRoot
    <3>2. CASE IsRoot(f)
      <4>1. i = IF found = {} THEN 1 ELSE Min(found)
        BY <1>2, <3>2 DEF Exists
      <4>2. found # {} => Min(found) \in found
        <5>1. found \subseteq Nat
          BY SizeFacts
        <5> HIDE DEF found
        <5> QED BY <5>1, MinFacts
      <4>3. i # 1 /\ found # {}
        BY <2>1, <4>1, SizeFacts DEF FilesInv, IsRoot
      <4>4. i \in found
        BY <4>1, <4>2, <4>3
      <4> QED BY <4>3, <4>4
    <3> QED BY <3>1, <3>2
  <2>3. Unused \in Row({UNUSED}) /\ Unused.name = UNUSED /\ Unused.type = "DIRECTORY"
    BY SizeFacts DEF Unused, Row
  <2>4. entries' = [entries EXCEPT ![i] = Unused]
    BY <1>3, <1>6 DEF Cleared
  <2> DEFINE row == Unused
  <2>5. row \in Row({UNUSED}) /\ (row.name = UNUSED => row.type = "DIRECTORY") /\ row.type # "FILE"
    BY <2>3
  <2>6. entries' = [entries EXCEPT ![i] = row]
    BY <2>4
  <2> HIDE DEF row
  <2>7. /\ \E M : entries' \in [Entries -> Row(M)]
        /\ entries'[1].name = ROOT
        /\ \A j \in Entries : entries'[j].name = UNUSED => entries'[j].type = "DIRECTORY"
        /\ entries'[i] = row /\ \A j \in Entries : j # i => entries'[j] = entries[j]
        /\ \A j \in Entries \ {i} : j \in Files' <=> j \in Files
        /\ i \in Files' <=> row.type = "FILE" /\ row.name # ROOT
        /\ Files' \subseteq Entries
    BY <2>2, <2>5, <2>6, TableChanges
  <2>8. Files' \subseteq Files /\ \A j \in Files' : entries'[j] = entries[j] /\ j # i
    BY <2>5, <2>7
  <2>9. FilesInv'
    BY <1>3, <2>7, <2>8 DEF FilesInv
  <2>10. ASSUME NEW q, NEW w, NEW m, q # p, Holds(q, w, m) PROVE Holds(q, w, m)'
    <3>1. PICK j \in Files : /\ entries[j].name = q /\ entries[j].size = m
                             /\ \A k \in 1..Len(w) : blocks[entries[j].payload][k] = w[k]
      BY <2>10 DEF Holds
    <3>2. CASE j = i
      BY <2>2, <2>10, <3>1, <3>2, RowFacts
    <3>3. CASE j # i
      <4>1. j \in Files' /\ entries'[j] = entries[j]
        BY <2>7, <3>3, FilesAreEntries
      <4> QED BY <1>3, <3>1, <4>1 DEF Holds
    <3> QED BY <3>2, <3>3
  <2>11. reply'.code = 0
    BY <1>3, <1>6
  <2> QED BY <1>1, <2>9, <2>10, <2>11 DEF OthersHold
<1> QED BY <1>5, <1>6

\* A file that is written again, or on, keeps its name and its first block.
LEMMA ResizedFiles ==
  ASSUME FilesInv, NEW i \in Files, NEW size \in Nat, entries' = [entries EXCEPT ![i].size = size]
  PROVE  /\ \E N : entries' \in [Entries -> Row(N)]
         /\ entries'[i].size = size /\ Files' = Files
         /\ \A j \in Entries : /\ entries'[j].name = entries[j].name
                               /\ entries'[j].type = entries[j].type
                               /\ entries'[j].payload = entries[j].payload
                               /\ j # i => entries'[j].size = entries[j].size
<1>1. PICK N : entries \in [Entries -> Row(N)]
  BY DEF FilesInv
<1>2. i \in Entries
  BY FilesAreEntries
<1>3. entries' \in [Entries -> Row(N)] /\ entries'[i].size = size
  BY <1>1, <1>2 DEF Row
<1>4. \A j \in Entries : /\ entries'[j].name = entries[j].name
                         /\ entries'[j].type = entries[j].type
                         /\ entries'[j].payload = entries[j].payload
                         /\ j # i => entries'[j].size = entries[j].size
  BY <1>1, <1>2 DEF Row
<1>5. Files' = Files
  BY <1>4 DEF Files, Used, Directories, IsRoot
<1> QED BY <1>3, <1>4, <1>5

LEMMA WriteKeepsFiles ==
  ASSUME FilesInv, Paced, NEW n, NEW t \in Seq(Bytes), NEW append \in BOOLEAN, Write(n, t, append),
         NEW p, p = Adjust(n)
  PROVE  /\ FilesInv' /\ OthersHold(p) /\ (reply'.code # 0 => AllHold)
         /\ reply'.code = 0 /\ ~append /\ Len(t) <= N_DATA => Holds(p, t, Len(t))'
         /\ reply'.code = 0 /\ append /\ Len(t) <= N_DATA =>
              \A w \in Seq(Bytes) : \A c : Holds(p, Append(w, c), Len(w) + 1)
                => Len(w) + Len(t) <= N_DATA /\ Holds(p, w \o t, Len(w) + 1 + Len(t))'
<1>1. p = Adjust(n)
  OBVIOUS
<1>2. PICK i : i = Exists(p, "FILE")
  OBVIOUS
<1>3. PICK spot : spot = WriteSpot(i, append)
  OBVIOUS
<1>4. PICK first, more : first = FirstPart(spot, Len(t)) /\ more = MoreBlocks(spot, Len(t))
  OBVIOUS
<1>5. CASE IsRoot(i)
  <2>1. UNCHANGED <<entries, blocks, current_location>> /\ reply'.code = 1
    BY <1>1, <1>2, <1>5 DEF Write, Code
  <2>2. FilesInv' /\ AllHold
    BY <2>1, NothingChanges
  <2> QED BY <2>1, <2>2 DEF AllHold, OthersHold
<1>6. CASE ~IsRoot(i)
  <2>1. i \in Entries /\ i \in Files /\ entries[i].name = p
        /\ \A j \in Files : entries[j].name = p => j = i
    BY <1>2, <1>6, FindsFile
  <2>2. /\ ~(spot > 0 /\ spot + Len(t) > N_DATA) /\ spot >= 0 /\ current_location + more < N_BYTES
        /\ append => entries[i].size + Len(t) < N_SIZES
        /\ entries' = [entries EXCEPT ![i].size =
                         IF append THEN (@ + Len(t)) % N_SIZES ELSE Len(t)]
        /\ blocks' = Stored(i, spot, t) /\ current_location' = Taken(more) /\ reply'.code = 0
    BY <1>1, <1>2, <1>3, <1>4, <1>6 DEF Write, Code
  <2>3. entries[i].size \in Nat /\ Len(t) \in Nat /\ N_DATA \in Nat /\ N_DATA > 0
        /\ N_SIZES \in Nat /\ N_SIZES > 0 /\ N_BYTES \in Nat
    BY <2>1, RowFacts, LenProperties, SizeFacts
  <2>4. spot \in Nat /\ spot \in Int /\ spot >= -1
    BY <1>3, <2>2, <2>3 DEF WriteSpot
  <2>5. PICK b : b = entries[i].payload
    OBVIOUS
  <2>6. /\ b \in Bytes /\ b \in Nat /\ b < current_location /\ blocks \in BlockTables
        /\ current_location \in Bytes /\ current_location \in Nat
        /\ \A d \in Bytes : blocks[d][NEXT] = 0
    BY <2>1, <2>5, RowFacts, SizeFacts DEF FilesInv
  <2>7. first \in 0..Len(t) /\ more \in Nat
    BY <1>4, <2>2, <2>4, PartFacts
  <2>8. current_location' = current_location + more /\ current_location' \in Bytes
    <3>1. current_location + more \in Bytes
      <4>1. current_location + more < N_BYTES
        BY <2>2
      <4> QED BY <2>3, <2>6, <2>7, <4>1 DEF Bytes
    <3> QED BY <2>2, <3>1, SizeFacts DEF Taken
  <2>9. blocks' \in BlockTables /\ IsStored(blocks', b, spot, t, first, more)
    BY <1>4, <2>2, <2>4, <2>5, <2>6, StoredBlocks
  <2>10. PICK size : size = IF append THEN (entries[i].size + Len(t)) % N_SIZES ELSE Len(t)
    OBVIOUS
  <2>11. size \in Nat /\ size = IF append THEN entries[i].size + Len(t) ELSE Len(t)
    <3>1. \A x \in Nat : x < N_SIZES => x % N_SIZES = x
      BY <2>3
    <3>2. CASE append
      <4>1. entries[i].size + Len(t) < N_SIZES
        BY <2>2, <3>2
      <4>2. entries[i].size + Len(t) \in Nat
        BY <2>3
      <4> QED BY <2>10, <3>1, <3>2, <4>1, <4>2
    <3>3. CASE ~append
      BY <2>3, <2>10, <3>3
    <3> QED BY <3>2, <3>3
  <2>12. /\ \E N : entries' \in [Entries -> Row(N)]
         /\ entries'[i].size = size /\ Files' = Files
         /\ \A j \in Entries : /\ entries'[j].name = entries[j].name
                               /\ entries'[j].type = entries[j].type
                               /\ entries'[j].payload = entries[j].payload
                               /\ j # i => entries'[j].size = entries[j].size
    <3>1. entries' = [entries EXCEPT ![i].size = size]
      BY <2>2, <2>10
    <3> QED BY <2>1, <2>11, <3>1, ResizedFiles
  <2>13. FilesInv'
    <3>1. entries'[1].name = ROOT
      BY <2>12, SizeFacts DEF FilesInv
    <3>2. \A j \in Entries : entries'[j].name = UNUSED => entries'[j].type = "DIRECTORY"
      BY <2>12 DEF FilesInv
    <3>3. ASSUME NEW j \in Files' PROVE entries'[j].payload < current_location'
      <4>1. j \in Files /\ j \in Entries /\ entries'[j].payload = entries[j].payload
        BY <2>12, FilesAreEntries
      <4>2. entries[j].payload < current_location /\ entries[j].payload \in Nat
        BY <4>1, RowFacts, SizeFacts DEF FilesInv
      <4> QED BY <2>6, <2>7, <2>8, <4>1, <4>2
    <3>4. ASSUME NEW j \in Files', NEW k \in Files', j # k
          PROVE  entries'[j].name # entries'[k].name /\ entries'[j].payload # entries'[k].payload
      BY <2>12, <3>4, FilesAreEntries DEF FilesInv
    <3>5. \A d \in Bytes : blocks'[d][NEXT] = 0
      BY <2>9 DEF IsStored
    <3> QED BY <2>8, <2>9, <2>12, <3>1, <3>2, <3>3, <3>4, <3>5 DEF FilesInv
  <2>14. ASSUME NEW q, NEW w, NEW m, q # p, Holds(q, w, m) PROVE Holds(q, w, m)'
    <3>1. PICK j \in Files : /\ entries[j].name = q /\ entries[j].size = m
                             /\ \A k \in 1..Len(w) : blocks[entries[j].payload][k] = w[k]
      BY <2>14 DEF Holds
    <3>2. j # i /\ j \in Entries
      BY <2>1, <2>14, <3>1, FilesAreEntries
    <3>3. j \in Files' /\ entries'[j].name = q /\ entries'[j].size = m
          /\ entries'[j].payload = entries[j].payload
      BY <2>12, <3>1, <3>2
    <3>4. blocks'[entries[j].payload] = blocks[entries[j].payload]
      <4>1. PICK o : o = entries[j].payload
        OBVIOUS
      <4>2. o \in Bytes /\ o \in Nat /\ o # b /\ o < current_location
        BY <2>1, <2>5, <3>2, <4>1, RowFacts, SizeFacts DEF FilesInv
      <4>3. ~(o \in current_location..(current_location + more - 1))
        BY <2>6, <2>7, <4>2
      <4> QED BY <2>9, <4>1, <4>2, <4>3 DEF IsStored
    <3> QED BY <3>1, <3>3, <3>4 DEF Holds
  <2>15. ASSUME Len(t) <= N_DATA, NEW v \in Seq(Bytes), NEW m \in Nat, size = m,
                Len(v) = spot + Len(t), Len(v) <= N_DATA,
                \A k \in 1..Len(t) : v[spot + k] = t[k],
                \A k \in 1..spot : blocks[b][k] = v[k]
         PROVE  Holds(p, v, m)'
    <3>1. first = Len(t)
      <4>1. ~(Len(t) + spot > N_DATA)
        BY <2>3, <2>4, <2>15
      <4> QED BY <1>4, <4>1 DEF FirstPart
    <3>2. ASSUME NEW k \in 1..Len(v) PROVE blocks'[b][k] = v[k]
      <4>1. k \in Cells
        BY <2>3, <2>15, CellFacts
      <4>2. blocks'[b][k] = IF k \in (1 + spot)..(spot + first) THEN t[k - spot] ELSE blocks[b][k]
        BY <2>9, <4>1 DEF IsStored
      <4>3. CASE k \in (1 + spot)..(spot + first)
        <5>1. k - spot \in 1..Len(t) /\ spot + (k - spot) = k
          BY <2>3, <2>4, <3>1, <4>3
        <5> QED BY <2>15, <4>2, <4>3, <5>1
      <4>4. CASE ~(k \in (1 + spot)..(spot + first))
        <5>1. k \in 1..spot
          BY <2>3, <2>4, <2>15, <3>1, <4>4
        <5> QED BY <2>15, <4>2, <4>4, <5>1
      <4> QED BY <4>3, <4>4
    <3>3. i \in Files' /\ entries'[i].name = p /\ entries'[i].size = m /\ entries'[i].payload = b
      BY <2>1, <2>5, <2>12, <2>15
    <3> QED BY <3>2, <3>3 DEF Holds
  <2>16. ASSUME ~append, Len(t) <= N_DATA PROVE Holds(p, t, Len(t))'
    <3>1. spot = 0 /\ size = Len(t)
      BY <1>3, <2>11, <2>16 DEF WriteSpot
    <3>2. Len(t) = spot + Len(t) /\ (\A k \in 1..Len(t) : t[spot + k] = t[k]) /\ 1..spot = {}
      BY <2>3, <3>1
    <3> QED BY <2>3, <2>15, <2>16, <3>1, <3>2
  <2>17. ASSUME append, Len(t) <= N_DATA, NEW w \in Seq(Bytes), NEW c, Holds(p, Append(w, c), Len(w) + 1)
         PROVE  Len(w) + Len(t) <= N_DATA /\ Holds(p, w \o t, Len(w) + 1 + Len(t))'
    <3>1. entries[i].size = Len(w) + 1 /\ \A k \in 1..Len(Append(w, c)) : blocks[b][k] = Append(w, c)[k]
      <4>1. PICK j \in Files : /\ entries[j].name = p /\ entries[j].size = Len(w) + 1
                               /\ \A k \in 1..Len(Append(w, c)) :
                                    blocks[entries[j].payload][k] = Append(w, c)[k]
        BY <2>17 DEF Holds
      <4> QED BY <2>1, <2>5, <4>1
    <3>2. Len(w) \in Nat
      BY LenProperties
    <3>3. spot = Len(w) /\ size = Len(w) + 1 + Len(t)
      BY <1>3, <2>3, <2>11, <2>17, <3>1, <3>2 DEF WriteSpot
    <3>4. \A k \in 1..Len(w) : k \in 1..Len(Append(w, c)) /\ Append(w, c)[k] = w[k]
      OBVIOUS
    <3>5. PICK v : v = w \o t
      OBVIOUS
    <3>6. v \in Seq(Bytes) /\ Len(v) = spot + Len(t)
          /\ (\A k \in 1..spot : v[k] = w[k]) /\ (\A k \in 1..Len(t) : v[spot + k] = t[k])
      BY <3>3, <3>5
    <3>7. Len(w) + Len(t) <= N_DATA
      BY <2>2, <2>3, <2>17, <3>2, <3>3
    <3>8. \A k \in 1..spot : blocks[b][k] = v[k]
      BY <3>1, <3>3, <3>4, <3>6
    <3>9. size \in Nat /\ Len(v) <= N_DATA
      BY <2>11, <3>3, <3>6, <3>7
    <3>10. Holds(p, v, size)'
      BY <2>15, <2>17, <3>6, <3>8, <3>9
    <3> QED BY <3>3, <3>5, <3>7, <3>10
  <2>18. reply'.code = 0
    BY <2>2
  <2>19. OthersHold(p)
    BY <2>14 DEF OthersHold
  <2> QED BY <1>1, <2>13, <2>16, <2>17, <2>18, <2>19
<1> QED BY <1>5, <1>6

\* The bytes of a text up to the one that ends it.
LEMMA CStringIs ==
  ASSUME NEW u \in Seq(Nat \ {0}), NEW s \in Seq(Nat), Len(u) < Len(s), s[Len(u) + 1] = 0,
         \A k \in 1..Len(u) : s[k] = u[k]
  PROVE  CString(s) = u
<1>1. PICK n : n = Len(u) + 1
  OBVIOUS
<1>2. n \in Nat /\ n >= 1 /\ Len(u) \in Nat /\ Len(s) \in Nat /\ n \in 1..Len(s) /\ n - 1 = Len(u)
  BY <1>1, LenProperties
<1>3. \A k \in 1..Len(u) : u[k] # 0
  BY ElementOfSeq
<1> DEFINE ends == {i \in 1..Len(s) : s[i] = 0}
<1>4. n \in ends /\ \A k \in ends : n <= k
  BY <1>1, <1>2, <1>3
<1>5. SelectInSeq(s, LAMBDA c : c = 0) = IF ends = {} THEN 0 ELSE Min(ends)
  BY DEF SelectInSeq
<1>6. Min(ends) = n
  <2>1. ends \subseteq Nat
    OBVIOUS
  <2> HIDE DEF ends
  <2>2. Min(ends) \in ends /\ \A k \in ends : Min(ends) <= k
    BY <1>4, <2>1, MinFacts
  <2>3. n \in Nat /\ Min(ends) \in Nat /\ n <= Min(ends) /\ Min(ends) <= n
    BY <1>2, <1>4, <2>1, <2>2
  <2> QED BY <2>3
<1>7. SelectInSeq(s, LAMBDA c : c = 0) = n
  BY <1>4, <1>5, <1>6
<1>8. CString(s) = SubSeq(s, 1, Len(u))
  BY <1>2, <1>7 DEF CString
<1> QED BY <1>2, <1>8

\* What a read finds: nothing, or the bytes up to the one that ends them.
LEMMA ReadFinds ==
  ASSUME FilesInv, NEW n, Read(n), NEW p, p = Adjust(n)
  PROVE  /\ FilesInv' /\ AllHold
         /\ Holds(p, <<>>, 0) => reply'.text = <<Blank>>
         /\ \A u \in Seq(Bytes \ {0}), m \in Nat :
              Holds(p, Append(u, 0), m) /\ Len(u) + 1 <= m /\ Len(u) + 1 <= N_DATA
                => reply'.text = u
<1>1. UNCHANGED <<entries, blocks, current_location>>
  BY DEF Read
<1>2. FilesInv' /\ AllHold
  BY <1>1, NothingChanges
<1>3. PICK i : i = Exists(p, "FILE")
  OBVIOUS
<1>4. ASSUME NEW w, NEW m, Holds(p, w, m)
      PROVE  /\ i \in Files /\ ~IsRoot(i) /\ entries[i].size = m /\ m \in Nat
             /\ \A k \in 1..Len(w) : blocks[entries[i].payload][k] = w[k]
             /\ blocks[entries[i].payload] \in [Cells -> Bytes]
             /\ Contents(Chain(entries[i].payload), m) = Shown(blocks[entries[i].payload], m)
  <2>1. PICK j \in Files : /\ entries[j].name = p /\ entries[j].size = m
                           /\ \A k \in 1..Len(w) : blocks[entries[j].payload][k] = w[k]
    BY <1>4 DEF Holds
  <2>2. j = i /\ ~IsRoot(i) /\ i \in Entries
    BY <1>3, <2>1, FindsFile
  <2>3. PICK b : b = entries[i].payload
    OBVIOUS
  <2>4. m \in Nat /\ b \in Bytes /\ blocks \in BlockTables /\ blocks[b][NEXT] = 0
    BY <2>1, <2>2, <2>3, RowFacts DEF FilesInv
  <2>5. Chain(b) = <<b>>
    BY <2>4, ChainFacts
  <2>6. Contents(<<b>>, m) = Shown(blocks[b], m)
    BY <2>4, SingleContents
  <2>7. blocks[b] \in [Cells -> Bytes]
    BY <2>4 DEF BlockTables
  <2> QED BY <2>1, <2>2, <2>3, <2>4, <2>5, <2>6, <2>7
<1>5. ASSUME NEW m, entries[i].size = m, ~IsRoot(i),
             NEW data, data = Contents(Chain(entries[i].payload), m)
      PROVE  reply'.text = IF data = <<>> THEN <<Blank>> ELSE CString(data)
  BY <1>3, <1>5 DEF Read, Code
<1>6. ASSUME Holds(p, <<>>, 0) PROVE reply'.text = <<Blank>>
  <2>1. PICK b : b = entries[i].payload
    OBVIOUS
  <2>2. entries[i].size = 0 /\ ~IsRoot(i) /\ Contents(Chain(b), 0) = Shown(blocks[b], 0)
    BY <1>4, <1>6, <2>1
  <2>3. Shown(blocks[b], 0) = <<>>
    BY ShownFacts
  <2> QED BY <1>5, <2>1, <2>2, <2>3
<1>7. ASSUME NEW u \in Seq(Bytes \ {0}), NEW m \in Nat,
             Holds(p, Append(u, 0), m), Len(u) + 1 <= m, Len(u) + 1 <= N_DATA
      PROVE  reply'.text = u
  <2>1. PICK b : b = entries[i].payload
    OBVIOUS
  <2>2. PICK data : data = Contents(Chain(b), m)
    OBVIOUS
  <2>3. /\ entries[i].size = m /\ ~IsRoot(i) /\ data = Shown(blocks[b], m)
        /\ blocks[b] \in [Cells -> Bytes]
        /\ \A k \in 1..Len(Append(u, 0)) : blocks[b][k] = Append(u, 0)[k]
    <3>1. PICK w : w = Append(u, 0)
      OBVIOUS
    <3>2. Holds(p, w, m)
      BY <1>7, <3>1
    <3>3. /\ ~IsRoot(i) /\ entries[i].size = m
          /\ \A k \in 1..Len(w) : blocks[entries[i].payload][k] = w[k]
          /\ blocks[entries[i].payload] \in [Cells -> Bytes]
          /\ Contents(Chain(entries[i].payload), m) = Shown(blocks[entries[i].payload], m)
      BY <1>4, <3>2
    <3>4. data = Shown(blocks[b], m) /\ blocks[b] \in [Cells -> Bytes]
          /\ \A k \in 1..Len(w) : blocks[b][k] = w[k]
      BY <2>1, <2>2, <3>3
    <3> QED BY <3>1, <3>3, <3>4
  <2>4. PICK r : r = IF m <= N_DATA THEN m ELSE N_DATA
    OBVIOUS
  <2>5. /\ r \in Nat /\ data \in Seq(Bytes) /\ Len(data) = r
        /\ \A k \in 1..r : data[k] = blocks[b][k]
    BY <2>3, <2>4, ShownIsSeq
  <2>6. Len(u) \in Nat /\ Len(u) + 1 <= r /\ N_DATA \in Nat
    BY <1>7, <2>4, LenProperties, SizeFacts
  <2>7. Len(Append(u, 0)) = Len(u) + 1 /\ Append(u, 0)[Len(u) + 1] = 0
        /\ \A k \in 1..Len(u) : Append(u, 0)[k] = u[k]
    OBVIOUS
  <2>8. data[Len(u) + 1] = 0 /\ \A k \in 1..Len(u) : data[k] = u[k]
    BY <2>3, <2>5, <2>6, <2>7
  <2>9. u \in Seq(Nat \ {0}) /\ data \in Seq(Nat)
    <3>1. Bytes \subseteq Nat /\ Bytes \ {0} \subseteq Nat \ {0}
      BY SizeFacts
    <3> QED BY <2>5, <3>1, SeqMonotonic
  <2>10. CString(data) = u
    <3>1. Len(u) + 1 <= Len(data)
      BY <2>5, <2>6
    <3> QED BY <2>8, <2>9, <3>1, CStringIs
  <2>11. data # <<>>
    BY <2>5, <2>6
  <2> QED BY <1>5, <2>1, <2>2, <2>3, <2>10, <2>11
<1> QED BY <1>2, <1>6, <1>7

=============================================================================
