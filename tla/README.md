# A TLA+ verification of SystemsOS

SystemsOS is a small operating system for x86 PCs: a kernel with up to 25
processes, a multi-level queue scheduler, a 1 kHz clock, a serial line, a
console, a file system in memory and a shell, loaded by a bootstrap from an image
that a tool on the host builds. The modules here model it from the C and assembly
sources, TLC checks them on small instances, and TLAPS proves the main properties of
the kernel, the queues, the serial line, the console, the file system, the bootstrap and the
shell for every size.
The code in `src/` is the reference throughout.

## 1. The system

The kernel has one CPU. A system call or an interrupt enters through
`isr_stubs.S`, which saves the registers on the process' stack, switches to the
system stack and calls the handler; the handler runs to its end with interrupts
disabled and the stub returns to whatever process `_current` then names. So a
handler is atomic towards every other handler, and what makes the kernel hard is
the *order* in which handlers run, what each of them leaves in the shared tables,
and counters that wrap.

| component (sources) | state | operations | talks to |
|---|---|---|---|
| queues (`queue.c`) | 63 nodes in one pool, 10 queue headers | alloc, dealloc, init, insert, remove, peek | everybody |
| processes (`process.c`, `system.c`) | `_pcbs`, `_free_pcbs`, `_next_pid`, `_system_active` | alloc, dealloc, find, `_create_process` | queues, stacks |
| stacks (`stack.c`) | `_free_stacks` | alloc, dealloc | queues |
| scheduler (`scheduler.c`) | `_ready[4]`, `_current` | `_schedule`, `_dispatch` | queues, processes |
| clock (`clock.c`) | `_system_time`, `_sleeping` | `_clock_isr` | scheduler, queues |
| system calls (`syscall.c`) | none of its own but `_sleeping` | exit, spawnp, sleep, read, write, two info calls, six file calls | all of the above and below |
| serial line (`sio.c`) | two buffers of 2048 with pointers and counts, `_sending`, `_ier` | receive and transmit interrupts, readc, writec, writes, puts | UART, system calls |
| console (`c_io.c`) | keyboard ring of 200, shift state; video memory, cursor, scrolling region | keyboard interrupt, getchar; put, print, move, scroll, clear | system calls, clock, context restore |
| file system (`fileSystem.c`) | 512 entries, blocks, current directory | create, delete, read, write, list, exists, cd | system calls |
| shell (`user.c`) | line and word buffers with their indices and flags | read a line, cut it into words, run a command, print the answer | system calls on the serial line and on files |
| image builder (`BuildImage.c`) | the table of programs | add a program, write the table | files of the host |
| bootstrap (`bootstrap.S`), startup (`startup.S`) | place in the table, in memory and on the disk | read a sector, try again, next program, start the kernel | BIOS, the table |
| test programs (`user.c`) | their own | any system call | system calls |
| libraries, interrupt stubs, USB | none that outlives a call | - | - |

What is hard, and what would make each part correct:

* *Processes, stacks, scheduler.* A PCB is moved by hand between seven lists;
  creation can fail half way; the number of nodes, stacks and PCBs are tied to
  each other by three `#define`s. Correct: every PCB in exactly one place, every
  stack with one owner, the counts right, always somebody to dispatch, FIFO within
  a level and strict priority between levels.
* *Clock.* Wake-ups, preemption and time that wraps. Correct: sleepers sorted,
  nobody overdue, sleepers woken when they asked to be, awakened processes before
  the preempted one.
* *Queues.* Linked lists with head, tail and count, and a comparison that is not
  transitive over the whole range of times. Correct: they are FIFO or sorted
  sequences, and no node is lost.
* *Serial line.* Two bounded buffers between interrupts and system calls, with
  three different rules for their pointers. Correct: two FIFO streams, and a
  transmitter that never stalls.
* *File system.* Sequential code with narrow counters, and blocks that nothing clears or
  gives back. Correct: what was written is read, files do not share blocks, and the table
  is a tree.
* *Console.* A ring between the keyboard interrupt and the read call. Correct: a FIFO.
  One screen for a page that scrolls, a corner that the clock draws and lines that every
  context restore prints, with a cursor that may be one row below the page. Correct: a
  page that is printed on like paper, and nothing else touched.
* *Shell.* A line comes in pieces, is squeezed, cut and compared with state that outlives
  it. Correct: the command that is run is the line, and what was written is read.
* *Image and bootstrap.* Two programs that know each other by a table of words;
  addresses in two forms, of which one is never taken, segments, sectors in tracks, reads
  that fail. Correct: every program is where it was meant to be, or a message says why not.

`PROJECT.json` lists every hazard at its line, with the property that covers it.

## 2. Modules

| module | what it is | lines of code it stands for |
|---|---|---|
| `Kernel` | processes, stacks, scheduler, clock, and the calls exit, spawnp and sleep | `process.c`, `stack.c`, `scheduler.c`, `clock.c`, `system.c`, `syscall.c:71-280` |
| `MCKernel` | `Kernel` with the bounds that make it finite | |
| `KernelTimed` | `Kernel` with history variables that measure time | |
| `Lifecycle` | what the kernel promises: the lives of processes | |
| `KernelProofs` | the theorems about the invariants and steps of `Kernel`, that it implements `Lifecycle`, and about the times of `KernelTimed` | |
| `KernelOrderProofs` | the theorems about the order of the sleepers | |
| `Queue` | the linked lists and their pool | `queue.c` |
| `QueueAbs` | what the queue module promises: sequences | |
| `MCQueue` | `Queue` with a view for TLC | |
| `QueueProofs` | the theorems about the lists, and that they implement `QueueAbs` | |
| `Sio` | the serial driver and the read and write calls on it | `sio.c`, `syscall.c:328-415` |
| `SioAbs` | what the driver promises: two streams | |
| `MCSio` | `Sio` with the texts that are written | |
| `SioProofs` | the theorems about the buffers, and that they implement `SioAbs` | |
| `FileSystem` | the file system in memory and the file calls | `fileSystem.c`, `syscall.c:418-550` |
| `FileSystemAbs` | what the file system promises: directories and texts | |
| `MCFileSystem` | `FileSystem` with the names and texts that are used, and a view | |
| `FileSystemProofs` | the theorems about table and blocks, and that they implement `FileSystemAbs` | |
| `Console` | the keyboard interrupt, its buffer and the read call on it | `c_io.c:522-690`, `syscall.c:328-372` |
| `ConsoleAbs` | what the keyboard promises: a bounded FIFO | |
| `ConsoleProofs` | the theorems about keyboard, cursor and numbers, that the keyboard implements `ConsoleAbs` and the screen `ScreenAbs` | |
| `Screen` | video memory, cursor and scrolling region | `c_io.c:26-295`, `c_io.c:491-516` |
| `ScreenAbs` | what the screen promises: a page and places around it | |
| `Conversions` | the formats of `c_printf` and the number routines | `c_io.c:297-520`, `ulibc.c:88-152` |
| `Terminal` | keyboard and screen together, with the clock's pinwheel and the context restore | `system.c:158-190`, `clock.c:67-72`, `isr_stubs.S:136-196` |
| `MCTerminal` | `Terminal` with what is printed, and the numbers that are converted | |
| `Shell` | the shell on `FileSystem`, after the calls of `_init` | `user.c:809-1050`, `system.c:277-332` |
| `ShellAbs` | what the shell promises: lines are run as their words | |
| `Boot` | image builder, bootstrap, startup | `BuildImage.c`, `bootstrap.S`, `startup.S:65-81` |
| `Machine` | `Boot` and then `Shell` | `startup.S:83-100` |
| `MCMachine` | `Machine` with programs, drives and lines | |
| `MachineProofs` | the theorems about what is loaded, and where, about the shell, that it implements `ShellAbs`, and about both in `Machine` | |
| `InductionFacts` | induction over sets of numbers, folds and repeated steps, for the proofs | |

`Kernel` uses sequences where the code calls `queue.c`; that `queue.c` does
implement such sequences is what `Queue` and its refinement of `QueueAbs` show.

### Kernel

| variable | in the code |
|---|---|
| `free_pcbs`, `free_stacks` | `_free_pcbs`, `_free_stacks`, as sequences of indices |
| `ready`, `sleeping`, `current` | `_ready[]`, `_sleeping`, `_current` |
| `state`, `prio`, `pid`, `wakeup`, `stack` | the fields of `_pcbs[i]` |
| `quantum` | `_current->quantum`; `_dispatch` sets it before anything reads it |
| `next_pid`, `system_active`, `system_time` | the globals of these names |
| `isr` | "wake" inside `_clock_isr`, so that its wake-up loop is several steps |
| `halted` | `_kpanic` was called |

`Exit`, `Spawn`, `Yield` and `Sleep` are the system calls, each one step with all
that it calls (`_create_process`, `_schedule`, `_dispatch`, ...). `ClockTick`,
`ClockWake` and `ClockQuantum` are `_clock_isr`. `Init` is the state that `_init`
leaves: four processes. A process may make any call at any time, except `idle()`,
whose code is an endless loop (`user.c:753`). An illegal call number is an
`exit`. The pid and the time have their widths as constants (`N_PIDS`, `N_TIMES`),
so that they wrap in small instances; `quantum` and `prio` are `% 256`.

Left out: the registers and stack contents, the parent's pid, the state NEW, which
no handler leaves behind, and all that is printed.

### Queue

`next`, `data` and `key` are the fields of the nodes, `first`, `last`, `size` and
`compare` those of the headers, `free_qnodes` the pool. `QueueInsert` is
`_queue_insert` link by link; `Behind` is where its search ends. `held` is not in
the code: it is which queues callers have allocated. `panicked` stops the model.

### Sio

`in` and `out` are the two halves: buffer, pointers (as offsets) and count, and for
the output `_sending`, the transmit bit of `_ier` and the character in the UART.
The UART itself (`Transmitted`) is external: it sends the character it has and then
its transmit interrupt is pending for as long as that is enabled. The code can
store outside of a buffer; what that overwrites depends on the linker, so the model
records it in `outside` and goes no further. `Paced` says whether the environment
keeps away from that: characters arrive only while there is a place behind the last
one or the buffer is full by its count, strings are written only where they
fit, and a buffer that begins with LF is written only while the transmitter is busy
(`sio.c:554`, below). `calls` is history: a bit turns over whenever a character arrives and
one whenever something is written, in `SioAbs` too, so that one that is dropped while there is
room is a step that `SioAbs` does not have and not a stutter. With `Paced` the driver is checked in full, without it TLC shows how the
buffers are left.

### FileSystem

`entries`, `blocks`, `current_location` and `directory` are the fields of
`sfs_file_table`; a block is its cells, the first of which is `next`. `CreateFile`,
`Delete`, `Write`, `Read`, `ListFiles` and `SetDirectory` are the six calls and
`CreateDirectory` is what only the kernel does (`system.c:314`). A name is absolute or
relative and a path is the sequence of its components; `Extensions` says which
component begins with which other one, because the code compares names as strings. An
entry that is not in use has a type and a payload in the code that nothing reads; here
they are reset. `reply` is what the caller gets. Deleting a file leaves its blocks as they are: the
`_memset` that should clear them is called with its arguments swapped, for 0 bytes
(`fileSystem.c:205`, `klibc.c:63`).

`fileSystem.c` puts names together in the storage of two string literals
(`fileSystem.c:110`, `fileSystem.c:453`). In an image built with the flags of the
Makefile they are 17 bytes apart with nothing but the texts of messages between them
and behind them, so names of up to 16 characters do no harm: the model takes names to
be that short. An entry that is not in use has the empty name, which is no path: a name
in the model is empty or has no empty component (`NameAssumption`), so `//x`, which the
code refuses, is not one. When an append does not fit in a block the code stores over the next
blocks, the rest of them from behind the caller's buffer; the model records that in
`broken` and goes no further, and so it does when a read follows a circle of blocks.

`Paced` says whether callers keep away from that: they append only to files that hold
something, only what fits and what the two bytes of a size can count, and no more blocks
are taken than the byte that counts them can name.

### Console

`next_char`, `next_space`, `shift` and `control` are the variables of `c_io.c`
(`control` is `ctrl_mask # 0xff`). The keyboard sends codes (external): any key,
pressed or released. `PollKeyboard` and `FirstKey` are `c_getchar` in `_init`
(`system.c:335`), with interrupts disabled, `KeyboardInterrupt` and `Read` what
happens from then on. A character is a key with the modifiers it was pressed with.
`Undefined` are the keys that type nothing, to which `ConsoleAbs` gives no character but the code
does. `lost` is history: a key was pressed in vain since the last read, so that one that
is dropped while there is room is not a stutter of `ConsoleAbs`.

### Lifecycle

A PCB is FREE, READY, RUNNING or SLEEPING and has a level; the CPU is handed over to one
of the best ready ones whenever its process sleeps, exits or is preempted. `Lives` in
`Kernel` maps `state`, `prio` and `current` to it: none of the queues, pools and counters
of the kernel shows, so a PCB that is listed twice, dispatched in passing or used again
before its process is gone has no step there.

### Screen, Conversions and Terminal

`screen` is the video memory with `curr_x` and `curr_y`, `scroll` the four limits of the
region; the routines of `c_io.c` are operators on them and a whole routine is a step.
`ScreenAbs` has a page, a column and a line instead: `Put` says what a character does to
the page, `Shown` what a text at a place does to a row. `AbsClearPage` puts the cursor at the beginning of the page, as
`c_io.h:147-148` says of `c_clearscroll`. The code does not, and its only caller, `c_scroll`,
moves the cursor itself (`c_io.c:272-274`): `ClearsAtHome` says that there are no other calls
of it but with the cursor there. Colours and the hardware cursor
are left out. `c_printf_at` is modelled for texts of whole lines, as its only caller
passes them: each ends in a newline and has no return (`IsBlock`). `Conversions` has the loops of `cvtdec`, `cvthex`, `cvtoct`, `itos8`,
`itos10`, `itos16` and `padstr` as functions from words to texts, with `IsPrintedRight`
as the definition they are compared with. A negation that overflows and shifts are taken
as gcc makes them.

`Terminal` joins them to `Console`: `SetUp` is what `_init` prints, `AskForKey` and
`GetFirstKey` its `c_getchar`, then keys, echoed reads, kernel messages, the pinwheel of
`clock.c` and the print of each context (`RestoreContext`, as this build defines
`ISR_DEBUGGING_CODE`) come in any order. All keys look alike (`Solid`) but those that are
a newline, a return or EOT, which the control key makes of a J, an M and a D
(`c_io.c:626`): the first two are echoed as what they are, the last one not at all.

### Shell

`Boot` in `Shell` makes the calls of `_init` one by one. `TypeLine` (external) puts a line
into the serial input buffer, `ReadInput` is the shell's `read`, of any number of
characters that are there, `SplitLine` one step of the loop that cuts the line into
words, and each command is one action with its system call, followed by `PrintAnswer`.
A character is a token: a space, a quote, a newline, a slash, or one that stands for
several others, as in `"test1.t"`; lines fit into the shell's buffers. `hello`'s spawn may
fail. `line` and `kept` are history: what was read of the line, and what the files hold
for all that was typed.

### Boot and Machine

`ProcessFile` is `process_file` on any program and address, which refuses every address that
is a segment:offset pair (`ValidAddress`), `WriteTable` the end of
`main`, `PowerOn` the BIOS and the first sector, `ReadSector` and `ReadFails` one turn of
`readprog`, `NextBlock` and `PastTable` what `nextblock` finds, `Start` the rest up to
`_init`. `memory` is by units, four to a sector, of which each holds a part of a sector
that is known by its program. The disk is the image followed by other sectors, read by
the drive's own geometry. `at` holds the registers of the bootstrap. A store over the
bootstrap or a table without an end makes the machine "lost": the code does not say what
happens then. In `Machine` the shell runs if what was loaded is the system (`System`,
the argument of the Makefile).

## 3. Runs

| run | checks | instance | result |
|---|---|---|---|
| `kernel_safety` | 8 invariants, 2 action properties, the refinement of `Lifecycle` | 5 stacks, 6 PCBs, quantum 2, priorities 0 and 7 (illegal), sleeps of 1 and 3, 4 ticks | holds, 345 thousand states |
| `kernel_timed` | sleeps exact, waiting bounded, 2 leads-to properties | 4 stacks, sleeps of 1, 2 and 4 ticks, a clock that wraps at 6 and never stops | holds, 170 thousand states |
| `timed_wrap` | nobody is woken early | a sleep across the wrap | violated |
| `queue` | 2 invariants and the refinement of `QueueAbs` | 3 queues, 4 nodes, keys 0, 3 and 6 modulo 8 | holds, 43 thousand states |
| `sio` | 3 invariants, the refinement of `SioAbs`, one leads-to property | buffers of 3, texts of 1 to 5 characters | holds, 631 thousand states |
| `sio_input`, `sio_output` | pointers stay in their buffers | the same, not paced | violated |
| `file_system` | 3 invariants and the refinement of `FileSystemAbs` | 4 entries, 3 blocks of 4 cells, 5 names, texts that fit a block and do not | holds, 76 thousand states |
| `file_append` | appends stay in the block | the same, not paced | violated |
| `console` | 3 invariants, the refinements of `ConsoleAbs` and `ScreenAbs` | a buffer of 3, the keys d and m, no key that types nothing, `c_clearscroll` with the cursor at home, a screen of 3 by 3, numbers of 20 bits | holds, 149 thousand states |
| `undefined_key` | keys that type nothing are ignored | the same with the keys d and alt, of which alt types nothing | violated |
| `machine` | 3 invariants, the refinement of `ShellAbs`, one action property, 2 leads-to properties | images of up to 3 of 10 programs, 2 drives, 3 tries; 3 lines of 13, reads of 3 characters | holds, 155 thousand states |

*Why the bounds are enough.* Five stacks are one more than `_init` uses, so in
`kernel_safety` creation succeeds, fails for want of a stack, and succeeds again
with a PCB and a stack that were used before. Priority 7 takes the path that
corrects it. Four ticks with a quantum of two let a process be preempted twice, with
sleepers of two lengths that are due together and apart. `MaxPid` and `LastPid` bound the number
of creations that succeed; those that fail are not bounded. At the horizon
(`MaxTime`) the clock stops and `Horizon` stutters, so the deadlock check stays on:
before it, the kernel always has a step. In `kernel_timed` the time that `SleepsAsAsked`
measures is that of sleeps shorter than half a turn, which on the real machine is 24
days, begun and ended in one turn, which is 49 days; the leads-to properties include the
wrap. In `queue` the keys 0, 3 and 6 modulo 8 are each "before" the next
in a circle, which is where the ordered insert could go wrong, and four nodes fill
up so that the panic is reached; after it the system has really stopped, hence
`CHECK_DEADLOCK FALSE`. `QueueView` identifies states that differ in which node
holds an element. In `sio` a buffer of three is filled, wraps, is dropped from,
and is reset when it drains. `sio_input` and `sio_output` stop where something is
stored outside, hence `CHECK_DEADLOCK FALSE` there.

In `file_system` the table and the blocks both run out, names are absolute, relative
and empty, one begins like another, the root is a name too, a text can be shorter or
longer than the one before it and longer than a block, and the current directory can
be deleted. `FileSystemView` leaves out the last result, on which nothing depends;
results are still compared in every step. In `console` two characters fill the buffer
and the pointers wrap in every position; with control the two keys are EOT and a return,
which are echoed as no other; the screen of 3 by 3 has a region of one cell,
one of two by two with places on all its sides, and the whole. Keys are awaited with an
empty page, so that setting up and typing do not multiply. Numbers of 20 bits have up
to six decimal digits; those around every power of a base, the small ones and the ends
of the range are converted.

In `machine` a segment is four sectors and memory three and a half segments, so that programs
cross the end of a segment, with sectors that end there and sectors that do not; addresses are
below the bootstrap, over it, too high, negative, not at a paragraph, and a pair; a file is
empty; three programs fill the table and a fourth is too many for it; one drive has so many heads that their number is 0
in a byte, and the other ends before the largest images do. Only the image of the system
alone goes on to the shell, the drives being forgotten then (`MachineView`): nothing that
the shell does depends on them. Thirteen lines, three at a time, have good and bad names,
too many words and spaces, quotes, texts that begin with a space or are empty, and no
words; reads of up to three characters cut them everywhere.

*Fairness.* `kernel_timed` assumes only that the timer keeps interrupting and a
handler that was entered goes on (`ClockFairness`): programs need never make a call.
For `SleeperWakes` this includes the wrap: the order of the queue may delay a sleeper
but every sleeper is woken within a turn. `sio` assumes that the UART sends what it
has and raises its interrupt, and that the interrupt is taken: every handler returns
to code that runs with interrupts enabled. Nothing is assumed about writers. `machine`
assumes that the bootstrap goes on, as nothing else runs, and that the shell, when it
reads or splits a line, has the CPU again and again: no other program of this build goes
on for ever at its level or above. Nothing is assumed of what is typed or of the disk.

*What is promised to whom.* Only the highest level is free of starvation
(`SystemProcessRuns`, `WaitIsBounded`): priorities are strict and a process of a
lower level may wait for ever.

### Where the code does not do what it says

* A sleep across the wrap of the 32-bit time ends at once (`timed_wrap`, `clock.c:86`).
* The input pointer of the serial driver does not wrap (`sio_input`, `sio.c:153`),
  nor does the output pointer of `_sio_writec` (`sio_output`, `sio.c:494`).
* An append that does not fit in the block is stored past its end (`file_append`,
  `fileSystem.c:331`).
* A key that types nothing is stored like any other, although a comment says that undefined
  codes are ignored: its code, an unsigned 255, is compared with a negative constant
  (`undefined_key`, `c_io.c:615`, `c_io.c:619`).

More is known and not in a run:

* `_pcb_find` does not look at the last PCB (`process.c:144`), so that `get_process_info`
  does not find the process that has it.
* A sleep of 2^31 ticks or more goes in front of shorter ones (`queue.c:84`); after
  65534 creations a pid is -1, the error value of `spawnp` (`system.c:133`).
* A buffer that begins with LF and is written while the transmitter is idle is sent as
  CR, the rest, LF (`sio.c:554`; `Paced` keeps away from it), and `write`
  returns the count it was given, not what the driver took (`syscall.c:406`).
* `_pcb_alloc` counts a PCB that it could not give (`process.c:104`), which does no harm
  because stacks run out first: that is `ActiveCount`.
* An append to a file that holds nothing stores its first byte in the block's `next`, so
  that a read of the file goes on into the block of another one (`fileSystem.c:316`). Every
  append counts one byte too many, so what is appended by a second one is behind the
  end of the text: `FileSystemAbs` says so. The text of a write that is longer than a
  block cannot be read back (`fileSystem.c:338`), and the 257th block taken is the
  first one again (`fileSystem.c:161`). A size wraps when a file of one byte, which is an
  empty text, gets 65535 more (`fileSystem.c:317`).
* A deleted file's text and link stay in its blocks (`fileSystem.c:205`). Nothing reads them:
  no block is given out twice, before the count of blocks wraps.
* Creating a file with the path of the root takes an entry that no call finds again
  (`fileSystem.c:104`), and a directory cannot be deleted while a name outside of it
  begins like its own (`fileSystem.c:218`). Both are allowed by `FileSystemAbs`.
* `%o` prints a number doubled (`c_io.c:352-372`), though `c_io.h` lists it as octal, and
  `itos8` prints a zero for every digit behind the first (`ulibc.c:110-131`).
  `NumbersAreRight` is about the other bases.
* `c_clearscroll` does not move the cursor, although `c_io.h:147-148` says so. `ScreenAbs`
  says what the header does and `ScreenRefines` holds with `ClearsAtHome` only.
* The shell's `cd` creates a file and says "Changed directory!" (`user.c:974-981`); a text
  that begins with a space is "File is empty", and `write` without a text makes "No such
  file." of the file (`user.c:1029-1035`); up to four characters read behind a newline
  are dropped (`user.c:883-890`); none of its buffers has a bound
  (`user.c:855-859`).
* The file system lies at 1 GB, whether or not there is memory (`fileSystem.c:22`).
* `BuildImage` refuses every address that is given as a segment:offset pair, which its usage
  text offers (`BuildImage.c:66-70`): the digits of the segment end at the colon, where the end
  of the string is asked for (`BuildImage.c:138-141`). A negative address passes the test
  (`BuildImage.c:150`) and is taken for another one by the bootstrap. A program that ends
  exactly at 0xa0000 is refused. Programs over the bootstrap, the tables, the BSS of the kernel
  or each other are not.
* An empty file ends the table: the programs behind it are not loaded (`BuildImage.c:176`,
  `bootstrap.S:120`; `IsListed`). 56 programs, which fill it, leave it without an end
  (`BuildImage.c:308`; `PastTable`).
* The bootstrap goes to the next segment only from the last sector of one
  (`bootstrap.S:166`): the rest of a program that reaches the end of a segment inside a sector
  is stored over the beginning of that segment (`StepsThrough`). It says
  "Too big" when the last track ends, also if nothing is left to be read
  (`bootstrap.S:189`).

## 4. Proofs

`KernelProofs` proves, for every number of processes (at least four), quantum from 1
to 255, width of the clock and of pids, priorities and sleep times:

`TypeCorrect`, `PlacementHolds`, `StackOwnershipHolds`, `ActiveCountHolds`,
`QnodesSufficeHolds`, `NoPanicHolds`: `Spec => []P` for `P` the type invariant,
`Placement`, `StackOwnership`, `ActiveCount`, `QnodesSuffice` and `NoPanic`.

It proves two properties of its steps, too:
`ReadyFifoHolds` (`Spec => ReadyFifo`) and `ImplementsLifecycle` (`Spec => Lives`: initial
states map to initial states, and every step to a step of `Lifecycle` or to none).

And two of its times, which are about `TimedSpec`: `WaitIsBoundedHolds` (`TimedSpec =>
[]WaitIsBounded`) and `SleepsAsAskedHolds` (`TimedSpec => SleepsAsAsked`), for any `LastPid`,
and with the wrap of the clock.

`KernelOrderProofs` proves what depends on comparing times, `SleepOrderHolds`,
`NoOverdueSleeperHolds` and `AwakenedFirstHolds`: `MCSpec => []SleepOrder`, `MCSpec =>
[]NoOverdueSleeper` and `MCSpec => AwakenedFirst`. They are about `MCSpec` because they
are false of `Spec`: once the clock wraps a sleeper is woken early (`timed_wrap`) and
the order is lost. `MCSpec` is `Spec` up to any last pid `MaxPid` and up to an uptime
`MaxTime` with `MaxTime + t` below half of the clock's range for every sleep `t`
(`HorizonAssumption`); the instance of the code is 2^31 ticks, 24 days, and the run's is
8.

`QueueProofs` proves `NodesConservedHolds`, `HeadersAgreeHolds` and `ImplementsQueues`:
`Spec => []NodesConserved`, `Spec => []HeadersAgree` and `Spec => Refines`, for any number
of nodes and queues, any elements and keys, and any comparison of the keys, transitive or
not.

`SioProofs` proves `TransmitterAgreesHolds` (`Spec => []TransmitterAgrees`, paced or not),
`SioTypeOK`, `PointersAgreeHolds` and `ImplementsStreams`: `Paced /\ Spec => []TypeOK`,
`Paced /\ Spec => []PointersAgree` and `Paced /\ Spec => Refines`, for every size of the
buffers and all texts that are written; what is dropped is dropped for want of room, as
`calls` makes every drop a step of `SioAbs`.

`ConsoleProofs` proves `KeyboardTypeOK` and `ImplementsKeyboard` of `Console`
(`Spec => []TypeOK` for all keys, and `Spec => Refines` where `Undefined = {}`), for every size
of the buffer, and
`CursorInRegionHolds` of `Terminal` (`TerminalSpec => []CursorInRegion`), for every size of
the screen and all texts, numbers and regions. `ImplementsScreen` (`TerminalSpec =>
ScreenRefines`, where `ClearsAtHome`) speaks of what is in every cell: the screen shows what `ScreenAbs` does,
the page in its region and the texts that were put beside it. `NumbersAreRightHolds` (`MCSpec =>
[]NumbersAreRight`, of `MCTerminal`) follows from the lemma that every word is printed as what
it is (`WordIsPrintedRight`), for each width of a word that `ConversionsAssumption` lets it have.

`FileSystemProofs` proves, for every number of entries, set of names and texts, size of a
block and width of its counters, `IsTreeHolds` and `FileSystemTypeOK` (`Spec => []IsTree`,
`Spec => []TypeOK`), and, as long as callers keep to what the blocks can hold,
`BlocksAreOwnedHolds` and `ImplementsFileSystem` (`Paced /\ Spec => []BlocksAreOwned`,
`Paced /\ Spec => Refines`).

`MachineProofs` proves `StoresInPlaceHolds` and `ProgramsAreLoadedHolds`:
`BootSpec => []StoresInPlace` and `BootSpec => []ProgramsAreLoaded`, for every number, size and
address of the programs, every drive, and every size of a word, a sector and the memory that
satisfies `BootAssumption`, as long as no address is negative and no program reaches the end of
a segment inside a sector (`WellAddressed`); `ShellTypeHolds` and `ImplementsInput`: `ShellSpec =>
[]ShellTypeOK` and `ShellSpec => InputRefines`, for all lines, any number of characters that
a read asks for and any that arrive, and any file system; `ReadsBackHolds`: `Paced /\ LinesFit
/\ ShellSpec => ReadsBack`, for any number of entries and blocks; and `MachineIsSafe`, by which
all five hold of `MachineSpec`, where `Boot` and `Shell` share the machine.

`Paced` is a constant of `Sio` and of `FileSystem`: it is a hypothesis where the code does
overrun its buffers or blocks when it is not kept to, as `sio_input`, `sio_output` and
`file_append` show. `Undefined = {}` is one because keys that type nothing are stored
(`undefined_key`), `ClearsAtHome` because `c_clearscroll` leaves the cursor where it is.
`LinesFit` says that no text that is read from the lines, from whatever
place on, fills a block with the byte that ends it: of a longer one only the first block is
ever read (`fileSystem.c:338`), and the shell's buffer for it is twice as long as a block. The
lines of `MCMachine` satisfy it. The other assumptions are those named in the modules, which
TLC evaluates in every run of these modules and of those that extend them.

### The kernel

What the kernel keeps follows from `InvHolds`, the inductive invariant

    Inv == TypeOK /\ Placement /\ StackOwnership /\ Counts /\ QnodeCount /\ IdleReady

The parts need each other. `Placement` is kept by `Exit` only if the process has a
stack to give back (`StackOwnership`) and by every dispatch only if some process is
ready (`IdleReady`: idle has the lowest priority and is ready or running, which needs
`Placement` to find it in its queue). `Spawn` keeps `ActiveCount` only because a PCB is
left whenever a stack is (`Counts`). `QnodesSuffice` is arithmetic on `Counts` and
`QnodeCount`: every PCB but the running one and every free stack takes a node.

The proof goes from lemmas on sequences (what `Tail`, `Append` and `InsertAt` do to
the set of elements and to injectivity) to lemmas on `_schedule` and `_dispatch`
(`EnqueueFacts`, `DispatchFacts`), then one lemma per action (`ExitStep`,
`SpawnStep`, ...), `NextInv`, and the theorems. `Yield` and the preemption in
`ClockQuantum` share `RescheduleStep`.

The steps need the same invariant. `DispatchChoosesBest` says that what `_dispatch` takes
is the first of the first level that is not empty, hence one of the best ready processes;
with `DispatchHandsOver`, each action of `Kernel` is then one of `Lifecycle`. For
`ReadyFifo`, `DispatchFifo` says that the level it takes from loses its head and the
others nothing, and `EnqueueExtends` that `_schedule` only puts behind.

`OrderInv` says that the sleepers are sorted, that none is overdue outside of the handler,
and that their times and the clock are below half of the range. That last part is what
makes the first inductive: only there (`CompareFacts`) is `_compare_time`, which takes a
difference for signed, the order that `_clock_isr` compares with. `SleepOrderKept` is the
insert; `ExitOrder` and `SpawnOrder` need `Placement`, by which the PCB whose wake-up time
they clear is not in the queue; `NobodyIsDue` concludes from the head to all.

The two theorems about time are induction over `TimedNext` with an invariant each.
`WaitInv`: what a process at place i of the queue of level 0 has waited, a quantum for each
one before it, and what the present process has left make no more than a quantum for each
place it had at the start. `NextServes` says that a step that is no tick puts at most one
process behind that queue and takes its head only with a new quantum (`QueueStep`), so that a
place is given up for a quantum. `SleepersOnTime`: what a sleeper's wake-up time says, modulo
the range of the clock, is what is left of the time it asked for, and the queue is sorted by
what is left. Unlike `OrderInv` it goes on across the wrap, as `LaterFromNow` shows that
`_compare_time` orders any two times less than half a turn ahead of now; it says nothing of
sleeps that are not measured. Only the head wakes and only when it is due (`OnlyDueWake`), and
where the wake-up time has not wrapped, due means that nothing is left.

### Induction

A loop of the code is a recursive function or a fold in the models. The library's
induction theorems take a predicate as a parameter, which the provers cannot instantiate,
so `InductionFacts` has them for sets: a set of numbers that holds the first and with each
the next one holds all (`NatSetInduction`). From the well-foundedness of the natural numbers
(`MinFacts`) it derives what a recursive function, a fold over a sequence and a repeated
step do, for an invariant that is given as a set of values.

### The queues

`QueueInv` says that there is, for every queue and for the pool, a sequence of nodes
(`Threads`) that its links follow, which together hold every node once. The sequences are
not in the state: the invariant says that some exist and each step gives the new ones, a
`Tail` or an insertion, so that it needs no function that follows the links. TLC cannot
enumerate it; the runs check its consequences. `Chain`, the recursive function of the
model, is then shown to be that sequence (`ChainFacts`). The ordered insert is described
by where its search ends (`Behind`): at the first node that comes after the new one. That
is what the search of `QueueAbs` in a sequence finds, too, whatever the comparison; nothing
is used of its order.

### The serial line

`AgreeInv` is inductive by itself. `PacedInv` adds the types and that the count of each
buffer is the distance between its pointers, which the input half does without wrapping and
the output half modulo its size. `_sio_writes` stores characters and drops what does not
fit: `FillFacts` does the induction over the text, with as invariant that the stream in
the buffer (`Stream`) is what it was, followed by the characters stored so far. A string goes
through `_sio_writec` instead, twice for a newline. The interrupts take one character away
at the front.

### The keyboard

`KeyboardInv` says that `next_char` and `next_space` are places in the buffer and that what
lies between them, around its end or not, was typed. The code's three conditions on them
(`c_io.c:570-571`, `c_io.c:625`, `c_io.c:683-690`) are then the length of the FIFO, whether it is
full and whether it is empty (`QueueLength`, `PlaceFacts`).

### The screen

`ScreenInv` adds to `CursorInRegion` that the region has its corners on the screen and in
order (`RegionOK`), which `c_setscroll` makes of any four numbers (`BoundFacts`), and that
every cell holds a character. `PutcharKeeps` is the step for one character, in which a scroll
of one line must not put the cursor elsewhere although one of the whole region does
(`ScrolledKeeps`); `PutsKeeps` is the induction over a text, and routines that print at a
place leave the cursor (`PutsAtKeeps`, `PrintAtKeeps`). What is printed are texts, too, where
they are made by the conversions (`FieldIsText`): the recursion of `cvtdec0` ends for every
word, also for the one whose negation overflows (`Cvtdec0Unfolds`).

`ImplementsScreen` maps the screen to its page (`PageIn`) and the cells beside it. A character
is a `Put` on the page (`PutcharIsPut`); where the cursor has left the region the page moves up
first, and `ScrolledMoves` shows that the copying loops of `c_scroll` do that and leave what is
beside the region alone. A text is a `Print` by induction over its characters (`PrintingExists`,
`PutsIsPrint`). A text at a place is drawn character by character while `ScreenAbs` says at once
what its row looks like: `RowOfText` is the induction in which each cell has the last character
that reached it, all that do not fit being drawn at the limit (`PutAtIs`). The print of a context
goes on from line to line (`LineIsPut`, `PrintAtIsPrintLines`). What the shell's reader echoes is
one of the texts of `ScreenAbs` because a read brings no more characters than the keyboard buffer
holds (`ReadIsShort`, `EchoIsShort`).

### The numbers

A numeral grows by a digit at its end (`NumeralGrows`), which takes from `ValueOf`, a fold, what
it makes of one more character (`ValueOfAppend`). The digits of `cvtdec0` are then right by
induction over the number (`Cvtdec0IsNumeral`). The word whose negation overflows is printed
with the quotient and the digit 8 that the code has for it: `HalfFacts` shows that the
largest power of two ends in 8, by steps of twelve bits, in which the last digit comes round. For
the bases 16 what has been printed after k nibbles is the word shifted right
(`NibblesSpell`), and nothing is stored as long as that is 0 (`CvthexIsNumeral`).

### The file system

`TreeInv` adds to `IsTree` what keeps it. Entry 1 is the root, which `_sfs_exists` returns
when it finds nothing. No name in use and no current directory has an empty component:
otherwise the search for a directory above a new entry could be answered by an entry that
is not in use (`ProperFacts`, `AdjustFacts`). `CreateTree` needs both, since the current
directory may have been deleted; `DeleteTree` needs that the code's comparison of
beginnings finds everything that is below a directory (`BeginningFacts`), though it finds
more.

`BlocksInv` is `TreeInv` with the types of the rest (`RestOK`) and `BlocksAreOwned`: no two
files in use have the same block, and blocks not yet taken are empty, so that a new file's
block is fresh, although a deletion clears none, and what is stored and read through one file
is seen through no other. A write of more than one block takes blocks without linking them (`StoredBlocks`): it
stores in the file's own block and in fresh ones, which nothing refers to afterwards.

`ImplementsFileSystem` maps the table to the names of its directories (`DirectoryNames`), the
texts of its files by name (`FileTexts`) and the number of entries in use. The search of the
table is then the membership of a name (`IsTree` makes what it finds unique), and a write
changes the text of one name and no other (`BlocksAreOwned`). Every call is a step of
`FileSystemAbs` and its reply the one that is promised, for reads and for the list the text.

### The image and the bootstrap

`BootInv` follows a sector from the file to the memory. `BuildInv` says that the table and
the image are about the same programs and that each fits. `DiskInv` says that the sector the
bootstrap reads next is the one behind those it has read: `NextSectorFacts` shows that sectors,
heads and tracks are stepped through in the order of the disk by every geometry, also when the
number of heads is 256 and its byte is 0. What is there follows from `LayoutExists`: how many
sectors of the disk end with each program, by induction over the image. `AddressInv` says that
the registers hold the address behind what has been stored. It is about the programs that
`StepsThrough`: then no sector goes over the end of a segment except at the one offset at which
the code goes on to the next (`NextPlaceFacts`), and the offset after each is again such a one.

`StoreInv` and `LoadedInv` are what follows for memory while it is loaded. That programs do not
overwrite each other is the hypothesis `WellPlaced`, which BuildImage does not check. When the
kernel is started the next entry of the table is behind its end or counts no sectors, so that all
programs up to the first empty one have been loaded. The last step clears the BSS, of whatever is taken for the kernel: `BssFacts` shows that this does not
change which program that is. BuildImage checks the end of the programs and not that of the
BSS (`BuildImage.c:157`), so `StoresInPlace` lets only the BSS go beyond `MEMORY_END`.

### The shell

`LineInv` says what each phase knows of the line. While it is read, `result` is the line
without the spaces that do not count, and `used_space` says whether one more would be left
out: both depend only on the characters read so far and not on how the reads cut them
(`State`, `ReadCharIs`, `ReadCharsFacts`). While it is split there is a part of it that is
`done`, and what is left of `result` follows it; the three buffers are the words of that part,
`word` the number of its breaks and `quoted` the parity of its quotes (`IsSplit`). `ShellAbs`
counts breaks and quotes in the whole line, and `Shell` one character at a time: `CountsGrow`
and `WordAppend` are the step between the two.

A step of `Shell` is then one of `ShellAbs` or none. A read with the end of a line takes the
line and what the read had behind it: `BehindAnother` finds the end in what was typed, behind
what had been read before. The end of the split starts the command, and the answer ends it.

### What is written is read back

`ReadsBack` is about both halves of the machine, and its invariant `KeptInv` joins them: the
file of every name in `kept` begins with the text that is kept for it and the byte that ends it,
and has that size or, once something was appended, a larger one (`IsKept`). The proof knows
of the names and texts only that the shell makes them: a name cut at its slashes is a path with
at least one component and never the empty name of an entry that is not in use (`CutNameFacts`,
`NameIsUsed`), and a text has no 0 in it but the one at its end (`CodesFacts`).

Below it is `FilesInv`, what the file system must keep for this: no two files have one name or
one block, none has a block that is still to be taken, and no block is linked to another.
It asks less of names than `TreeInv`, in which none has an empty component: the shell can make
such names. `Holds` says what a name's file begins with, and every call keeps it for the names it
is not about (`OthersHold`): `CreateKeepsFiles`, `DeleteKeepsFiles`, `WriteKeepsFiles`. An append
starts one before the size, over the byte that ended the text (`CodesBehind`), and a read returns
the bytes up to the first 0 (`ReadFinds`). That a text in a command fits a block follows
from the lines by `ShellAbs`: `TextInv` is kept by every step of `Input` (`FitsStep`), a read that
loses the beginning of a line included (`RestFits`).

The name of the root is left out of `ReadsBack`, which does not hold for it: `mkfile /` succeeds,
but a search that finds nothing returns the root (`fileSystem.c:104`), so that no call finds
that file.

### Only model-checked

* All that is live (`SystemProcessRuns`, `SleeperWakes`, `BootEnds`, `LineIsRun` and their like), as the
  prover has neither fairness nor ENABLED.

## 5. Not modelled

* Saving and restoring contexts, the interrupt controller and the system call stubs, in
  assembly: the models use that they work, so that a handler is atomic.
* `get_system_info` and `get_process_info`, which change no state; `_sio_reads`,
  `c_gets` and the dumps, which nothing of this build decides on or calls.
* The test programs of `user.c`, which this build does not start and which `Kernel`
  covers by letting a process make any call.
* What lies behind a buffer that is overrun: the serial buffers, a block of the file
  system, the shell's buffers, the storage of names. The models stop there, or keep away.
* The USB stub, which is not built.
