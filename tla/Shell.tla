------------------------------- MODULE Shell -------------------------------
(***************************************************************************)
(* The shell (user.c) on the file system: _init makes a few files and      *)
(* changes to the directory /hello (system.c), and from there the shell    *)
(* reads lines from the serial line and runs them.                         *)
(*                                                                         *)
(* A character of a line is a space, a quote, a newline, a slash or stands *)
(* for any number of others, as in the name of a command.  Lines fit into  *)
(* the shell's buffers, which have no bounds.  What is typed ahead waits   *)
(* in the input buffer of the serial line.                                 *)
(***************************************************************************)
EXTENDS FileSystem

CONSTANTS
  Lines, READ_SIZE, \* as in ShellAbs
  Codes,            \* the byte of each character
  MaxLines          \* how many lines are typed

SPACE == " "
QUOTE == "'"
NEWLINE == "\n"

ASSUME ShellAssumption ==
  /\ READ_SIZE \in Nat \ {0} /\ MaxLines \in Nat
  /\ \A c \in DOMAIN Codes : Codes[c] \in 1..(N_BYTES - 1) /\ (Codes[c] = Blank <=> c = SPACE)
  /\ \A l \in Lines : l \in Seq(DOMAIN Codes) /\ Last(l) = NEWLINE

VARIABLES
  booted,           \* how many of the calls of _init are done
  phase,            \* what the shell does: "boot" (nothing yet), "reading",
                    \* "split" a line, "run" it, "answer" it, or "gone"
  typed, lines,     \* what waits to be read; how many lines were typed
  result,           \* resultBuffer, as far as it is not split
  used_space,       \* usedSpace
  words,            \* commandBuffer, paramBuffer, paramBuffer2
  word, quoted,     \* doneCommand, doneParam1 and doneParam2; inTextBlock
  answer,           \* the last answer that was printed
  line,             \* history: what was read of the present line
  kept              \* history: what the files hold for all that was typed

input == <<typed, lines>>
buffers == <<result, used_space, words, word, quoted, line>>
shellVars == <<vars, booted, phase, input, buffers, answer, kept>>

NO_WORDS == <<<<>>, <<>>, <<>>>>

-----------------------------------------------------------------------------
(* Mutants: each replaces the definition named beside it.                  *)

KeepSpace(s, c) == [result |-> Append(s.result, c), used |-> FALSE]   \* ReadChar
WordsOnly(w) == [i \in DOMAIN w |-> Codes[w[i]]]                      \* CString0
LessThanTwo(r) == Len(r) < 2                                          \* NothingEntered
NoLimit(c) == [words EXCEPT ![Min({word, 3})] = Append(@, c)]         \* WithCharacter
OneMore(w) == w + 1                                                   \* NextWord

-----------------------------------------------------------------------------
(* The test of the file system at the end of _init.                        *)

Absolute(p) == [absolute |-> TRUE, path |-> p]
Relative(p) == [absolute |-> FALSE, path |-> p]

DATA == <<1, 1>>    \* "THIS IS FILE DATA!", written without the byte that ends it

BootCall ==
  \/ booted = 0 /\ CreateFile(Absolute(<<"TEST.txt">>))
  \/ booted = 1 /\ Write(Absolute(<<"TEST.txt">>), DATA, FALSE)
  \/ booted = 2 /\ Write(Absolute(<<"ST.txt">>), DATA, FALSE)
  \/ booted = 3 /\ Read(Absolute(<<"TEST.txt">>))
  \/ booted = 4 /\ Delete(Absolute(<<"TEST.txt">>))
  \/ booted = 5 /\ CreateDirectory(Absolute(<<"hello">>))
  \/ booted = 6 /\ SetDirectory(Absolute(<<"hello">>))
  \/ booted = 7 /\ CreateFile(Relative(<<"test1.t">>))
  \/ booted = 8 /\ CreateFile(Absolute(<<"test2.t">>))
  \/ booted = 9 /\ CreateFile(Absolute(<<"hello", "test3.t">>))
  \/ booted = 10 /\ CreateDirectory(Relative(<<"folder">>))
  \/ booted = 11 /\ CreateFile(Absolute(<<"hello", "folder", "test5.t">>))
  \/ booted = 12 /\ CreateFile(Absolute(<<"DNE", "test6.t">>))
  \/ booted = 13 /\ Delete(Absolute(<<"hello">>))

BOOT_CALLS == 14

-----------------------------------------------------------------------------
(* Reading a line and cutting it into words.                               *)

\* One character: a space that follows another one, or nothing, is left out.
ReadChar(s, c) ==
  IF c = SPACE /\ s.used THEN s
  ELSE [result |-> Append(s.result, c), used |-> c = SPACE]

NothingEntered(r) == r = <<>>

\* The doneX flags say in which word a character is.
NextWord(w) == Min({w + 1, 4})

\* A character behind the third word is ignored.
WithCharacter(c) == IF word \in DOMAIN words THEN [words EXCEPT ![word] = Append(@, c)] ELSE words

-----------------------------------------------------------------------------
(* What the words mean to the file system.                                 *)

\* The name in a word: a slash ends a component.
FileName(w) ==
  LET components == FoldLeft(LAMBDA p, c : IF c = "/" THEN Append(p, "")
                                           ELSE Append(Front(p), Last(p) \o c), <<"">>, w)
  IN CASE w = <<"/">> -> Absolute(ROOT)
       [] w # <<"/">> /\ Len(components) > 1 /\ components[1] = "" -> Absolute(Tail(components))
       [] OTHER -> Relative(components)

\* The bytes of a word with the one that ends it, which is written too.
CString0(w) == [i \in DOMAIN w |-> Codes[w[i]]] \o <<0>>

\* compare: as long as each other and the same in every character.
Same(w, v) == Len(w) = Len(v) /\ \A i \in DOMAIN w : w[i] = v[i]

Is(command) == Same(words[1], <<command>>)
Target == FileName(words[2])

-----------------------------------------------------------------------------

ShellInit ==
  /\ Init
  /\ booted = 0
  /\ phase = "boot"
  /\ typed = <<>> /\ lines = 0
  /\ result = <<>> /\ used_space = TRUE /\ line = <<>>
  /\ words = NO_WORDS /\ word = 1 /\ quoted = FALSE
  /\ answer = [is |-> "none", text |-> <<>>]
  /\ kept = <<>>

\* _init goes on; when it is through, the shell starts.
Boot ==
  /\ phase = "boot"
  /\ IF booted < BOOT_CALLS
     THEN BootCall /\ booted' = booted + 1 /\ UNCHANGED phase
     ELSE phase' = "reading" /\ UNCHANGED <<vars, booted>>
  /\ UNCHANGED <<input, buffers, answer, kept>>

\* A line is typed, and waits in the input buffer of the serial line.
TypeLine(l) ==
  /\ phase # "boot" /\ lines < MaxLines
  /\ typed' = typed \o l
  /\ lines' = lines + 1
  /\ UNCHANGED <<vars, booted, phase, buffers, answer, kept>>

\* read() returns as many characters as have arrived, up to READ_SIZE.  What
\* comes with the end of a line is not looked at.
ReadInput(n) ==
  LET chunk == SubSeq(typed, 1, n)
      end == SelectInSeq(chunk, LAMBDA c : c = NEWLINE)
      seen == IF end = 0 THEN chunk ELSE SubSeq(chunk, 1, end - 1)
      read == FoldLeft(ReadChar, [result |-> result, used |-> used_space], seen)
      entered == end # 0 /\ ~NothingEntered(read.result)
  IN
  /\ phase = "reading" /\ n <= Len(typed)
  /\ typed' = SubSeq(typed, n + 1, Len(typed))
  /\ phase' = IF entered THEN "split" ELSE "reading"
  /\ result' = read.result
  /\ used_space' = (end # 0 \/ read.used)
  /\ line' = IF entered \/ end = 0 THEN line \o seen ELSE <<>>
  /\ UNCHANGED <<vars, booted, lines, words, word, quoted, answer, kept>>

\* The next character of the line.
SplitLine ==
  /\ phase = "split" /\ result # <<>>
  /\ LET c == Head(result)
         breaks == c = SPACE /\ ~quoted
     IN /\ quoted' = IF c = QUOTE THEN ~quoted ELSE quoted
        /\ word' = IF breaks THEN NextWord(word) ELSE word
        /\ words' = IF c = QUOTE \/ breaks THEN words ELSE WithCharacter(c)
  /\ result' = Tail(result)
  /\ UNCHANGED <<vars, booted, phase, input, used_space, line, answer, kept>>

\* The words are ended and the command is looked up.
EndOfLine ==
  /\ phase = "split" /\ result = <<>>
  /\ phase' = "run"
  /\ word' = 1 /\ quoted' = FALSE /\ line' = <<>>
  /\ UNCHANGED <<vars, booted, input, result, used_space, words, answer, kept>>

\* read() returns 0 and the shell asks again.
ReadNothing == phase = "reading" /\ typed = <<>> /\ UNCHANGED shellVars

-----------------------------------------------------------------------------
(* The commands: a system call, after which the answer is printed.  Between *)
(* the two other processes run, though none of them uses the file system.   *)

\* A command that is no system call on files leaves everything as it is.
Run(command) == phase = "run" /\ Is(command) /\ phase' = "answer"
Elsewhere == UNCHANGED <<booted, input, buffers, answer>>
NotFiles == UNCHANGED <<vars, kept>>

\* The text that kept has for the file, of which texts are then the parts.
Keep(texts) ==
  LET f == Adjust(Target)
  IN kept' = [p \in DOMAIN kept \cup {f} |-> IF p = f THEN texts ELSE kept[p]]
Forget == kept' = [p \in DOMAIN kept \ {Adjust(Target)} |-> kept[p]]

List == Run("ls") /\ ListFiles /\ UNCHANGED kept /\ Elsewhere

\* cd, too, creates a file.
CreateNamed ==
  /\ Run("mkfile") \/ Run("cd")
  /\ CreateFile(Target)
  /\ IF reply'.code = 0 THEN Keep(<<>>) ELSE UNCHANGED kept
  /\ Elsewhere

DeleteNamed ==
  /\ Run("rm")
  /\ Delete(Target)
  /\ IF reply'.code = 0 THEN Forget ELSE UNCHANGED kept
  /\ Elsewhere

WriteNamed ==
  /\ Run("write")
  /\ Write(Target, CString0(words[3]), FALSE)
  /\ IF reply'.code = 0 THEN Keep(<<words[3]>>) ELSE UNCHANGED kept
  /\ Elsewhere

\* Only the first append to a text that was written is followed: what a second
\* one puts there is behind the end of the text, and one to a file that holds
\* nothing begins in front of its data.
AppendNamed ==
  /\ Run("writea")
  /\ Write(Target, CString0(words[3]), TRUE)
  /\ IF reply'.code # 0 THEN UNCHANGED kept
     ELSE IF Adjust(Target) \in DOMAIN kept /\ Len(kept[Adjust(Target)]) = 1
     THEN Keep(Append(kept[Adjust(Target)], words[3]))
     ELSE Forget
  /\ Elsewhere

ReadNamed == Run("read") /\ Read(Target) /\ UNCHANGED kept /\ Elsewhere

\* spawnp(helloCommand), which fails if there is no stack: then the shell exits.
Hello ==
  /\ phase = "run" /\ Is("hello")
  /\ phase' \in {"answer", "gone"}
  /\ NotFiles /\ Elsewhere

CallCommands == {"ls", "cd", "mkfile", "rm", "write", "writea", "read", "hello"}
NoSuchCommand ==          \* mkdir among them
  /\ phase = "run" /\ \A c \in CallCommands : ~Is(c)
  /\ phase' = "answer"
  /\ NotFiles /\ Elsewhere

\* What is printed: for a text, by its first byte.
ReadAnswer ==
  LET first == IF reply.text = <<>> THEN 0 ELSE reply.text[1]
  IN CASE first = Blank -> [is |-> "File is empty", text |-> <<>>]
       [] first = 0 -> [is |-> "No such file.", text |-> <<>>]
       [] OTHER -> [is |-> "text", text |-> reply.text]

Answer ==
  CASE Is("ls") -> [is |-> "names", text |-> reply.names]
    [] Is("read") -> ReadAnswer
    [] \E c \in {"cd", "mkfile", "rm", "write", "writea"} : Is(c) ->
         [is |-> IF reply.code = 0 THEN "success" ELSE "failure", text |-> <<>>]
    [] OTHER -> [is |-> "none", text |-> <<>>]

\* The answer is printed and the indices of the buffers are reset, and the shell
\* sleeps for a while.
PrintAnswer ==
  /\ phase = "answer"
  /\ answer' = Answer
  /\ phase' = "reading"
  /\ words' = NO_WORDS
  /\ UNCHANGED <<vars, booted, input, result, used_space, word, quoted, line, kept>>

\* The shell has exited; other processes go on.
Gone == phase = "gone" /\ UNCHANGED shellVars

Command ==
  \/ List \/ CreateNamed \/ DeleteNamed \/ WriteNamed \/ AppendNamed \/ ReadNamed
  \/ Hello \/ NoSuchCommand

ShellNext ==
  \/ Boot
  \/ \E l \in Lines : TypeLine(l)
  \/ \E n \in 1..READ_SIZE : ReadInput(n)
  \/ ReadNothing
  \/ SplitLine
  \/ EndOfLine
  \/ Command
  \/ PrintAnswer
  \/ Gone

\* The shell, once it waits for a line, has the CPU again and again: no other
\* program that is started goes on for ever at its level or above
\* (user.c:576-778, system.c:218-275).
ShellFairness ==
  /\ WF_shellVars(\E n \in 1..READ_SIZE : ReadInput(n))
  /\ WF_shellVars(SplitLine) /\ WF_shellVars(EndOfLine)

ShellSpec == ShellInit /\ [][ShellNext]_shellVars /\ ShellFairness

-----------------------------------------------------------------------------

ShellTypeOK ==
  /\ booted \in 0..BOOT_CALLS
  /\ phase \in {"boot", "reading", "split", "run", "answer", "gone"}
  /\ {typed, result, line} \subseteq Seq(DOMAIN Codes)
  /\ used_space \in BOOLEAN
  /\ words \in [1..3 -> Seq(DOMAIN Codes)] /\ word \in 1..4 /\ quoted \in BOOLEAN
  /\ \A p \in DOMAIN kept : kept[p] \in Seq(Seq(DOMAIN Codes))

\* The lines are run as ShellAbs says, however the reads cut them into pieces:
\* the words of a command are those of its line, with nothing left of the line
\* before it, and no more is lost than what the last read of a line had behind
\* its end (user.c:865-952, 1035-1042).
Input == INSTANCE ShellAbs WITH
  input <- IF phase = "reading" THEN line \o typed ELSE typed,
  taken <- IF phase = "split" THEN line ELSE <<>>,
  running <- IF phase \in {"run", "answer"} THEN words ELSE NO_WORDS
InputRefines == Input!AbsSpec

\* A line that has words is run, whatever is typed behind it meanwhile
\* (user.c:864-898).
LineIsRun ==
  LET end == SelectInSeq(typed, LAMBDA c : c = NEWLINE)
      complete == phase = "reading" /\ end # 0
      entered == Input!Squeezed(line \o SubSeq(typed, 1, end - 1)) # <<>>
  IN (complete /\ entered) ~> (phase = "run")

\* What is printed for the parts of a text: one that begins with a space is
\* taken for an empty file and one without characters for no file.
Printed(parts) ==
  LET text == FlattenSeq(parts)
  IN CASE parts = <<>> \/ (text # <<>> /\ text[1] = SPACE) ->
            [is |-> "File is empty", text |-> <<>>]
       [] parts # <<>> /\ text = <<>> -> [is |-> "No such file.", text |-> <<>>]
       [] OTHER -> [is |-> "text", text |-> [i \in DOMAIN text |-> Codes[text[i]]]]

\* What was written to a file is what a command prints that reads it, with what
\* was appended to it once, whatever other files are made, written and removed
\* meanwhile: the words, the length of the text with the byte that ends it, and
\* the place where an append begins agree.  The name of the root is no file's:
\* mkfile / succeeds, but nothing finds what it makes (user.c:954-1030,
\* fileSystem.c:78-135, 268-342).
ReadsBack ==
  [][phase' = "reading" /\ Is("read") /\ Adjust(Target) \in DOMAIN kept \ {ROOT} =>
       answer' = Printed(kept[Adjust(Target)])]_shellVars

=============================================================================
