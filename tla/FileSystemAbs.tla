--------------------------- MODULE FileSystemAbs ---------------------------
(***************************************************************************)
(* What the file system (fileSystem.c) promises while its blocks last:     *)
(* directories, files with a text each, and a current directory.  A path   *)
(* is the sequence of its components; the root is the empty one.           *)
(***************************************************************************)
EXTENDS Integers, SequencesExt

CONSTANTS
  N_ENTRIES,        \* how many files and directories there can be
  N_BYTES,          \* values of a byte; 0 ends a text
  DATA_BLOCK_SIZE,  \* bytes of a block, one of which is not data
  Blank,            \* the byte that stands for a file without data
  Names,            \* the names that callers use: absolute or relative paths
  Texts,            \* what is written
  Extensions        \* the pairs of components of which the first one begins
                    \* with the second one and is longer

Bytes == 0..(N_BYTES - 1)
ROOT == <<>>
EMPTY == <<"">>     \* the path of the name that has no characters

VARIABLES
  dirs,             \* the directories
  files,            \* the text of each file, up to what a read returns of it
  directory,        \* the current directory
  used,             \* table entries in use
  reply             \* the result of the last call

absVars == <<dirs, files, directory, used, reply>>

Resolve(n) ==
  IF n.absolute THEN n.path
  ELSE IF n.path = EMPTY /\ directory = ROOT THEN ROOT ELSE directory \o n.path

\* The result of a call: a number (0 or an error), a text, or a list of paths.
Code(call, c) == [call |-> call, code |-> c, text |-> <<>>, names |-> <<>>]
Text(t) == [Code("read", 0) EXCEPT !.text = t]
List(s) == [Code("list", 0) EXCEPT !.names = s]

Done(call) == reply' = Code(call, 0)
Refused(call) ==
  /\ reply' = Code(call, reply'.code) /\ reply'.code # 0
  /\ UNCHANGED <<dirs, files, directory, used>>

\* A text as its reader sees it.
Visible(t) ==
  LET end == SelectInSeq(t, LAMBDA c : c = 0)
  IN IF end = 0 THEN t ELSE SubSeq(t, 1, end - 1)

\* What a block holds of a text: the rest is lost.
Cut(t) == SubSeq(t, 1, Min({Len(t), DATA_BLOCK_SIZE - 1}))

Ancestors(p) == {SubSeq(p, 1, i) : i \in 1..(Len(p) - 1)}

\* p is the beginning of the name of q and not all of it, be it that p is a
\* directory above q or only that their last components begin alike.
BeginsLike(q, p) ==
  /\ q # p /\ Len(p) \in 1..Len(q)
  /\ SubSeq(q, 1, Len(p) - 1) = Front(p)
  /\ q[Len(p)] = Last(p) \/ <<q[Len(p)], Last(p)>> \in Extensions

AbsInit ==
  /\ dirs = {ROOT} /\ files = <<>> /\ directory = ROOT /\ used = 1
  /\ reply = Code("", 0)

-----------------------------------------------------------------------------

\* A new entry needs a name, its directories and a free place in the table.
Creatable(n) ==
  n.path # EMPTY /\ Ancestors(Resolve(n)) \subseteq dirs /\ used < N_ENTRIES

AbsMkdir(n) ==
  LET p == Resolve(n) IN
  \/ /\ Creatable(n) /\ p \notin dirs
     /\ dirs' = dirs \cup {p} /\ used' = used + 1 /\ Done("mkdir")
     /\ UNCHANGED <<files, directory>>
  \/ (~Creatable(n) \/ p \in dirs) /\ Refused("mkdir")

\* A file that has the path of the root takes a place in the table and is
\* never seen again.
AbsCreate(n) ==
  LET p == Resolve(n) IN
  \/ /\ Creatable(n) /\ p \notin DOMAIN files
     /\ files' = IF p = ROOT THEN files
                 ELSE [q \in DOMAIN files \cup {p} |-> IF q = p THEN <<>> ELSE files[q]]
     /\ used' = used + 1 /\ Done("create")
     /\ UNCHANGED <<dirs, directory>>
  \/ (~Creatable(n) \/ p \in DOMAIN files) /\ Refused("create")

\* A file is deleted before a directory of the same path, and a directory only
\* when nothing is left in it.
AbsDelete(n) ==
  LET p == Resolve(n)
      others == dirs \cup DOMAIN files
  IN
  \/ /\ p \in DOMAIN files
     /\ files' = [q \in DOMAIN files \ {p} |-> files[q]]
     /\ used' = used - 1 /\ Done("delete")
     /\ UNCHANGED <<dirs, directory>>
  \/ /\ p \in dirs \ (DOMAIN files \cup {ROOT})
     /\ \A q \in others : p \notin Ancestors(q)
     /\ dirs' = dirs \ {p} /\ used' = used - 1 /\ Done("delete")
     /\ UNCHANGED <<files, directory>>
  \/ /\ p \notin DOMAIN files
     /\ p = ROOT \/ p \notin dirs \/ \E q \in others : BeginsLike(q, p)
     /\ Refused("delete")

AbsWrite(n, t) ==
  LET p == Resolve(n) IN
  \/ /\ p \in DOMAIN files
     /\ files' = [files EXCEPT ![p] = Cut(t)]
     /\ Done("write")
     /\ UNCHANGED <<dirs, directory, used>>
  \/ p \notin DOMAIN files /\ Refused("write")

\* What is appended takes the place of the byte that ends the text, and one
\* more byte is counted that was not written.
AbsAppend(n, t) ==
  LET p == Resolve(n) IN
  \/ /\ p \in DOMAIN files /\ files[p] # <<>>
     /\ \E more \in {<<>>} \cup {<<c>> : c \in Bytes} :
          files' = [files EXCEPT ![p] = Cut(Front(@) \o t \o more)]
     /\ Done("append")
     /\ UNCHANGED <<dirs, directory, used>>
  \/ p \notin DOMAIN files /\ Refused("append")

AbsRead(n) ==
  LET p == Resolve(n) IN
  /\ reply' = Text(IF p \notin DOMAIN files THEN <<>>
                   ELSE IF files[p] = <<>> THEN <<Blank>> ELSE Visible(files[p]))
  /\ UNCHANGED <<dirs, files, directory, used>>

AbsList ==
  /\ reply' = List(reply'.names)
  /\ ToSet(reply'.names) = dirs \cup DOMAIN files /\ Len(reply'.names) = used
  /\ UNCHANGED <<dirs, files, directory, used>>

AbsCd(n) ==
  LET p == Resolve(n) IN
  \/ /\ p \in dirs /\ directory' = p /\ Done("cd")
     /\ UNCHANGED <<dirs, files, used>>
  \/ (p \notin dirs \/ n.path = EMPTY) /\ Refused("cd")

AbsNext ==
  \/ AbsList
  \/ \E n \in Names :
       \/ AbsMkdir(n) \/ AbsCreate(n) \/ AbsDelete(n) \/ AbsRead(n) \/ AbsCd(n)
       \/ \E t \in Texts : AbsWrite(n, t) \/ AbsAppend(n, t)

AbsSpec == AbsInit /\ [][AbsNext]_absVars

=============================================================================
