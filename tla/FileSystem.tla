----------------------------- MODULE FileSystem -----------------------------
(***************************************************************************)
(* The file system in memory (fileSystem.c) with the system calls on it.   *)
(* A call runs to its end with interrupts disabled.  Directories are made  *)
(* by the kernel only.                                                     *)
(*                                                                         *)
(* Names are short: fileSystem.c builds them in the storage of string      *)
(* literals, where the longer ones would overwrite each other.             *)
(***************************************************************************)
EXTENDS Integers, FiniteSets, SequencesExt

CONSTANTS
  N_ENTRIES, N_BYTES, DATA_BLOCK_SIZE, Blank, Names, Texts, Extensions,
                    \* as in FileSystemAbs
  N_SIZES,          \* values of the size of a file
  Paced             \* Callers append only to files that hold something and only
                    \* what fits behind it and can be counted, and no more blocks
                    \* are taken than the location can count.

ASSUME FileSystemAssumption ==
  /\ N_ENTRIES \in Nat \ {0}
  /\ N_BYTES \in Nat /\ N_BYTES >= 2 /\ Blank \in 1..(N_BYTES - 1)
  /\ DATA_BLOCK_SIZE \in Nat /\ DATA_BLOCK_SIZE >= 2
  /\ N_SIZES \in Nat \ {0}
  /\ Names \subseteq [absolute : BOOLEAN, path : Seq(STRING)]
  /\ \A t \in Texts : t \in Seq(0..(N_BYTES - 1)) /\ Len(t) < N_SIZES
  /\ Paced \in BOOLEAN

Bytes == 0..(N_BYTES - 1)       \* also the blocks that a byte can name
Entries == 1..N_ENTRIES
Cells == 0..(DATA_BLOCK_SIZE - 1)
NEXT == 0                       \* the cell of a block that names the next one
N_DATA == DATA_BLOCK_SIZE - 1   \* the others
ROOT == <<>>
UNUSED == <<"">>                \* the empty name of an entry that is not in use
Components == STRING \cup {""}  \* The provers know of no literal that it is in STRING.

\* A name is empty or has no empty component, and only the root has none.
ASSUME NameAssumption ==
  \A n \in Names :
    \/ n = [absolute |-> FALSE, path |-> <<"">>]
    \/ "" \notin ToSet(n.path) /\ (n.path = ROOT => n.absolute)

VARIABLES
  entries,          \* the table: [name, type, size, payload]
  blocks,           \* the cells of each block
  current_location, \* the next block that was never taken
  directory,        \* the current directory
  reply,            \* the result of the last call
  broken            \* "" or how a call went where the model does not follow:
                    \* "loops", or "stores past the block"

vars == <<entries, blocks, current_location, directory, reply, broken>>

-----------------------------------------------------------------------------
(* Mutants: each replaces the definition named beside it.                  *)

AnyDirectory(d) == FALSE                                          \* NotEmpty
SameLocation(k) == current_location                               \* Taken
NoTerminator(i, append) == IF append THEN entries[i].size ELSE 0  \* WriteSpot
OneCellOn(d, b, c, s) ==                                          \* Store
  [d EXCEPT ![b] = [x \in Cells \cup (c + 1)..(c + Len(s)) |->
     IF x \in (c + 1)..(c + Len(s)) THEN s[x - c] ELSE @[x]]]

-----------------------------------------------------------------------------

Unused == [name |-> UNUSED, type |-> "DIRECTORY", size |-> 0, payload |-> 0]
Code(call, c) == [call |-> call, code |-> c, text |-> <<>>, names |-> <<>>]

\* _adjust_filename
Adjust(n) ==
  IF n.absolute THEN n.path
  ELSE IF n.path = <<"">> /\ directory = ROOT THEN ROOT ELSE directory \o n.path

\* _sfs_exists: the entry, or that of the root.
Exists(p, type) ==
  LET found == {i \in Entries : entries[i].name = p /\ entries[i].type = type}
  IN IF found = {} THEN 1 ELSE Min(found)

\* The test that its callers make of the result.
IsRoot(i) == entries[i].name = ROOT

\* The block where the k-th block behind the current location is: it is
\* counted in a byte.
Taken(k) == (current_location + k) % N_BYTES

\* The name of entry j is longer than that of entry d and begins with it.
NameBegins(j, d) ==
  LET q == entries[j].name
      p == entries[d].name
  IN /\ q # p /\ Len(p) <= Len(q) /\ q # UNUSED
     /\ SubSeq(q, 1, Len(p) - 1) = Front(p)
     /\ q[Len(p)] = Last(p) \/ <<q[Len(p)], Last(p)>> \in Extensions
NotEmpty(d) == \E j \in Entries : NameBegins(j, d)

\* What else an entry without a name still holds is read nowhere.
Cleared(i) == [entries EXCEPT ![i] = Unused]

\* The blocks of a file in their order, as far as they do not repeat: longer
\* than all blocks together only if the list has no end.
Chain(payload) ==
  LET at[n \in 0..N_BYTES] == IF n = 0 THEN payload ELSE blocks[at[n - 1]][NEXT]
      ends == {n \in 1..N_BYTES : at[n] = 0}
  IN [n \in 1..(IF ends = {} THEN N_BYTES + 1 ELSE Min(ends)) |-> at[n - 1]]

\* The bytes that _sfs_read copies from a list of blocks.
Contents(chain, size) ==
  [k \in 1..Min({size, N_DATA * Len(chain)}) |->
     blocks[chain[1 + (k - 1) \div N_DATA]][1 + ((k - 1) % N_DATA)]]

CString(s) ==
  LET end == SelectInSeq(s, LAMBDA c : c = 0)
  IN IF end = 0 THEN s ELSE SubSeq(s, 1, end - 1)

\* The block d[b] with the bytes s stored from its cell c on.
Store(d, b, c, s) ==
  [d EXCEPT ![b] = [x \in Cells |-> IF x \in c..(c + Len(s) - 1) THEN s[x - c + 1] ELSE @[x]]]

\* _sfs_write: where the data of entry i go, counted from the first cell of
\* data, how much of n bytes goes there, and to how many more blocks the rest.
WriteSpot(i, append) == IF append THEN entries[i].size - 1 ELSE 0
FirstPart(spot, n) == IF n + spot > N_DATA THEN N_DATA ELSE n
MoreBlocks(spot, n) == (n - FirstPart(spot, n) + N_DATA - 1) \div N_DATA

Stored(i, spot, t) ==
  LET first == FirstPart(spot, Len(t))
      part(k) == SubSeq(t, first + (k - 1) * N_DATA + 1, Min({Len(t), first + k * N_DATA}))
  IN FoldLeft(LAMBDA d, k : Store(d, Taken(k - 1), 1, part(k)),
              Store(blocks, entries[i].payload, 1 + spot, SubSeq(t, 1, first)),
              [k \in 1..MoreBlocks(spot, Len(t)) |-> k])

\* _sfs_init, which creates the root and makes it the current directory.
Init ==
  /\ entries = [i \in Entries |-> IF i = 1 THEN [Unused EXCEPT !.name = ROOT] ELSE Unused]
  /\ blocks = [b \in Bytes |-> [c \in Cells |-> 0]]
  /\ current_location = 0
  /\ directory = ROOT
  /\ reply = Code("", 0)
  /\ broken = ""

-----------------------------------------------------------------------------

\* _sfs_create, by _sys_create_file for a file and by _init for a directory.
\* The errors are in the order of the tests.
CreateError(n, type) ==
  LET p == Adjust(n)
      above == {SubSeq(p, 1, k) : k \in 1..(Len(p) - 1)}
  IN IF n = [absolute |-> TRUE, path |-> ROOT] /\ type = "DIRECTORY" THEN 249
     ELSE IF n.path = <<"">> THEN 254
     ELSE IF ~IsRoot(Exists(p, type)) THEN 1
     ELSE IF \E q \in above : IsRoot(Exists(q, "DIRECTORY")) THEN 2
     ELSE IF \A i \in Entries : entries[i].name # UNUSED THEN 255
     ELSE 0

Create(call, n, type) ==
  /\ broken = ""
  /\ Paced /\ type = "FILE" => current_location < N_BYTES - 1
  /\ reply' = Code(call, CreateError(n, type))
  /\ IF reply'.code # 0 THEN UNCHANGED <<entries, current_location>>
     ELSE LET i == Min({j \in Entries : entries[j].name = UNUSED})
              file == type = "FILE"
          IN /\ entries' = [entries EXCEPT ![i] =
                  [name |-> Adjust(n), type |-> type, size |-> 0,
                   payload |-> IF file THEN current_location ELSE 0]]
             /\ current_location' = IF file THEN Taken(1) ELSE current_location
  /\ UNCHANGED <<blocks, directory, broken>>

CreateFile(n) == Create("create", n, "FILE")
CreateDirectory(n) == Create("mkdir", n, "DIRECTORY")

\* _sfs_delete: the walk over the blocks of a file changes nothing, as the
\* arguments of _memset are swapped and the length it is given is 0: what the
\* file held stays in its blocks, which are not given back.
Delete(n) ==
  /\ broken = ""
  /\ LET p == Adjust(n)
         f == Exists(p, "FILE")
         i == IF IsRoot(f) THEN Exists(p, "DIRECTORY") ELSE f
         file == entries[i].type = "FILE"
         error == IF IsRoot(i) THEN 1 ELSE IF ~file /\ NotEmpty(i) THEN 2 ELSE 0
         endless == Len(Chain(entries[i].payload)) > N_BYTES
     IN /\ reply' = Code("delete", error)
        /\ entries' = IF error = 0 THEN Cleared(i) ELSE entries
        /\ broken' = IF error = 0 /\ file /\ endless THEN "loops" ELSE ""
  /\ UNCHANGED <<blocks, current_location, directory>>

\* _sfs_write.  More than fits behind what a file holds is stored past the end
\* of the block and counted down past 0.
Write(n, t, append) ==
  LET i == Exists(Adjust(n), "FILE")
      spot == WriteSpot(i, append)
      past == spot > 0 /\ spot + Len(t) > N_DATA
      more == MoreBlocks(spot, Len(t))
  IN
  /\ broken = ""
  /\ Paced /\ ~IsRoot(i) => ~past /\ spot >= 0 /\ current_location + more < N_BYTES
                            /\ (append => entries[i].size + Len(t) < N_SIZES)
  /\ IF IsRoot(i) THEN UNCHANGED <<entries, blocks, current_location, broken>>
     ELSE /\ entries' = [entries EXCEPT ![i].size =
                           IF append THEN (@ + Len(t)) % N_SIZES ELSE Len(t)]
          /\ broken' = IF past THEN "stores past the block" ELSE ""
          /\ blocks' = IF past THEN blocks ELSE Stored(i, spot, t)
          /\ current_location' = IF past THEN current_location ELSE Taken(more)
  /\ reply' = Code(IF append THEN "append" ELSE "write", IF IsRoot(i) THEN 1 ELSE 0)
  /\ UNCHANGED directory

\* _sfs_read: the bytes at the fixed address where the caller finds them.
Read(n) ==
  LET i == Exists(Adjust(n), "FILE")
      chain == Chain(entries[i].payload)
      data == Contents(chain, entries[i].size)
  IN
  /\ broken = ""
  /\ broken' = IF ~IsRoot(i) /\ Len(chain) > N_BYTES THEN "loops" ELSE ""
  /\ reply' = [Code("read", 0) EXCEPT
       !.text = IF IsRoot(i) THEN <<>> ELSE IF data = <<>> THEN <<Blank>> ELSE CString(data)]
  /\ UNCHANGED <<entries, blocks, current_location, directory>>

\* _sfs_list
Listed(s, p) == IF p = UNUSED THEN s ELSE Append(s, p)
ListFiles ==
  /\ broken = ""
  /\ reply' = [Code("list", 0) EXCEPT
       !.names = FoldLeft(Listed, <<>>, [i \in Entries |-> entries[i].name])]
  /\ UNCHANGED <<entries, blocks, current_location, directory, broken>>

\* _set_directory
SetDirectory(n) ==
  /\ broken = ""
  /\ LET root == n = [absolute |-> TRUE, path |-> ROOT]
         ok == root \/ ~IsRoot(Exists(Adjust(n), "DIRECTORY"))
     IN /\ directory' = IF ok THEN Adjust(n) ELSE directory
        /\ reply' = Code("cd", IF ok THEN 0 ELSE 255)
  /\ UNCHANGED <<entries, blocks, current_location, broken>>

Next ==
  \/ ListFiles
  \/ \E n \in Names :
       \/ CreateFile(n) \/ CreateDirectory(n) \/ Delete(n) \/ Read(n) \/ SetDirectory(n)
       \/ \E t \in Texts, append \in BOOLEAN : Write(n, t, append)

Spec == Init /\ [][Next]_vars

-----------------------------------------------------------------------------

Used == {i \in Entries : entries[i].name # UNUSED}
Directories == {i \in Used : entries[i].type = "DIRECTORY"}
Files == {i \in Used \ Directories : ~IsRoot(i)}

Entry ==
  [name : Seq(Components), type : {"FILE", "DIRECTORY"}, size : 0..(N_SIZES - 1), payload : Bytes]

TypeOK ==
  /\ entries \in [Entries -> Entry]
  /\ blocks \in [Bytes -> [Cells -> Bytes]]
  /\ current_location \in Bytes
  /\ directory \in Seq(Components)
  /\ reply.code \in 0..255 /\ reply.text \in Seq(Bytes)
  /\ broken \in {"", "loops", "stores past the block"}

\* The table is a tree: a name is there once as a file and once as a directory
\* at most, and every directory above it exists, in spite of deletions
\* (fileSystem.c:110-131, 208-231).
IsTree ==
  /\ \A i, j \in Directories \cup Files : i # j =>
       entries[i].name # entries[j].name \/ entries[i].type # entries[j].type
  /\ \A i \in Used : \A k \in 1..(Len(entries[i].name) - 1) :
       \E d \in Directories : entries[d].name = SubSeq(entries[i].name, 1, k)

\* Every file has a block that no other file has, which is behind no block of
\* another file, and only blocks that were taken hold data, those of deleted
\* files among them: so a call on one file leaves the others alone, and a new
\* file finds nothing of an old one (fileSystem.c:145-147, 205, 317-343).
BlocksAreOwned ==
  /\ \A i, j \in Files : i # j => entries[i].payload # entries[j].payload
  /\ \A b \in Bytes : blocks[b][NEXT] = 0
  /\ \A b \in Bytes : b >= current_location =>
       /\ blocks[b] = [c \in Cells |-> 0]
       /\ \A i \in Files : entries[i].payload # b

\* The calls do to the tree of directories and the texts of the files what
\* FileSystemAbs says, whatever else the table and the blocks hold.
DirectoryNames == {entries[i].name : i \in Directories}
FileNames == {entries[i].name : i \in Files}
FileText(i) == Contents(<<entries[i].payload>>, entries[i].size)
FileTexts == [p \in FileNames |-> FileText(Exists(p, "FILE"))]

Abs == INSTANCE FileSystemAbs WITH
  dirs <- DirectoryNames, files <- FileTexts, used <- Cardinality(Used)
Refines == Abs!AbsSpec

-----------------------------------------------------------------------------
(* What the code's comments say and the code does not keep.                *)

\* "Move to the right block" (fileSystem.c:318): an append goes on in another
\* block where the first one ends.  The code below that comment is missing,
\* and what does not fit is stored behind the block.
AppendStaysInBlock == broken # "stores past the block"

=============================================================================
