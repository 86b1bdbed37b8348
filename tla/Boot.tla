-------------------------------- MODULE Boot --------------------------------
(***************************************************************************)
(* From the files to the kernel's first instruction: BuildImage puts       *)
(* programs behind the bootstrap and the table of their sizes and load     *)
(* addresses at the end of it (BuildImage.c), the bootstrap reads them     *)
(* from the disk, sector by sector, to where the table says (bootstrap.S), *)
(* and the startup code clears the kernel's BSS (startup.S).               *)
(*                                                                         *)
(* Memory is counted in units of which a sector has SECTOR; a unit holds   *)
(* a part of a sector that is known by the program and the number of it.   *)
(* What does not change where programs are put is left out: messages, the  *)
(* memory map, A20 and the switch to protected mode.                       *)
(***************************************************************************)
EXTENDS Integers, SequencesExt

CONSTANTS
  WORD,             \* 2^16: what a word can hold
  N_BYTE,           \* 2^8: what the byte of the head number can hold
  PARAGRAPH,        \* 2^4: what a segment register counts
  SECTOR_SIZE,      \* 2^9
  TRACKS, RETRIES,  \* 80 and 3
  START_OFFSET,     \* where the second sector of the bootstrap is read to
  LOADER,           \* the units of the bootstrap and of the stacks
  TABLES,           \* those of the GDT, the IDT and the memory map
  TARGET_ADDRESS,   \* where the kernel starts
  MEMORY_END,       \* what lies from here on is not memory: 0xa0000
  BSS,              \* how many units of BSS the kernel has
  N_INFO,           \* the words of BuildImage's table
  FREE_WORDS,       \* those of the bootstrap that are free for it, all zero
  Arguments,        \* a file's size and its address, in one of two forms
  Drives            \* [sectors, heads]: geometries

ASSUME BootAssumption ==
  /\ {WORD, N_BYTE, PARAGRAPH, SECTOR_SIZE, TRACKS, RETRIES} \subseteq Nat \ {0}
  /\ {TARGET_ADDRESS, START_OFFSET, MEMORY_END, BSS, N_INFO, FREE_WORDS} \subseteq Nat
  /\ \A n \in {SECTOR_SIZE, PARAGRAPH, 2} : WORD % n = 0
  /\ FREE_WORDS % 3 = 0 /\ MEMORY_END <= PARAGRAPH * WORD
  /\ LOADER \cup TABLES \subseteq 0..(MEMORY_END - 1)
  /\ START_OFFSET .. START_OFFSET + SECTOR_SIZE - 1 \subseteq LOADER
  /\ START_OFFSET < WORD
  /\ TARGET_ADDRESS \in 0..(MEMORY_END - 1) \ TABLES
  /\ \A a \in Arguments :
       /\ a.sectors \in Nat
       /\ \/ a.form = "pair" /\ {a.segment, a.offset} \subseteq 0..(WORD - 1)
          \/ a.form = "flat" /\ a.address \in Int
  /\ \A d \in Drives : d.sectors \in Nat \ {0, 1} /\ d.heads \in 1..N_BYTE

VARIABLES
  stage,            \* "building", "failed" to, "off", "loading", "started"; or
                    \* "frozen" with a message, or "lost": the bootstrap is overwritten
                    \* or runs into what is no table
  programs,         \* the arguments taken so far: the image behind the bootstrap
  info,             \* the table: [count, segment, offset], in words
  drive,            \* the one that it is booted from
  at,               \* where the loading is: which entry of the table, how many sectors
                    \* of it are left, ES:BX, the next sector on the disk, tries left
  memory

bootVars == <<stage, programs, info, drive, at, memory>>

Units == 0..(PARAGRAPH * WORD + WORD - 1)
UNTOUCHED == <<0, 0>>
SYSTEM == <<0, 1>>
Sector(i, k) == <<i, k>>
BOOTSTRAP == 2      \* sectors
OFFSET_LIMIT == WORD - SECTOR_SIZE

-----------------------------------------------------------------------------
(* Mutants: each replaces the definition named beside it.                  *)

SegmentStays(place) == [place EXCEPT !.bx = (@ + SECTOR_SIZE) % WORD]         \* NextPlace
AnySize(a) == TRUE                                                            \* Fits
TryAgain(n) == IF n = 1 THEN RETRIES ELSE n - 1                               \* TriesLeft

-----------------------------------------------------------------------------
(* BuildImage                                                              *)

\* process_file takes an address in one piece apart.  The digits of a segment
\* end at the colon, where valid_address asks for the end of the string: no
\* pair is valid.
ValidAddress(a) == a.form = "flat" /\ a.address < MEMORY_END
Segment(a) == (a.address \div PARAGRAPH) % WORD
Offset(a) == a.address % PARAGRAPH

Fits(a) == a.address + a.sectors * SECTOR_SIZE < MEMORY_END
HasRoom == N_INFO - 3 * Len(info) >= 3

BootInit ==
  /\ stage = "building"
  /\ programs = <<>> /\ info = <<>>
  /\ drive = [sectors |-> 0, heads |-> 0]
  /\ at = [entry |-> 0, left |-> 0, es |-> 0, bx |-> 0, sec |-> 0, head |-> 0, track |-> 0,
           tries |-> 0]
  /\ memory = [u \in Units |-> UNTOUCHED]

ProcessFile(a) ==
  /\ stage = "building"
  /\ IF ValidAddress(a) /\ Fits(a) /\ HasRoom
     THEN /\ programs' = Append(programs, a)
          /\ info' = Append(info, [count |-> a.sectors, segment |-> Segment(a),
                                   offset |-> Offset(a)])
          /\ UNCHANGED stage
     ELSE stage' = "failed" /\ UNCHANGED <<programs, info>>
  /\ UNCHANGED <<drive, at, memory>>

\* The table may overwrite zeros only.
WriteTable ==
  /\ stage = "building" /\ programs # <<>>
  /\ stage' = IF 3 * Len(info) <= FREE_WORDS THEN "off" ELSE "failed"
  /\ UNCHANGED <<programs, info, drive, at, memory>>

\* A file that is not there, a write that fails: quit removes the image.
Quit == stage = "building" /\ stage' = "failed" /\ UNCHANGED <<programs, info, drive, at, memory>>

-----------------------------------------------------------------------------
(* The bootstrap                                                           *)

\* What the disk holds: the bootstrap and the programs one behind the other, and
\* at the end what was there before.
Disk ==
  [i \in 1..BOOTSTRAP |-> SYSTEM]
  \o FlattenSeq([i \in DOMAIN programs |-> [k \in 1..programs[i].sectors |-> Sector(i, k)]])

\* The sector at a place of the disk, by its real geometry.
SectorAt(place) ==
  LET n == (place.track * drive.heads + place.head) * drive.sectors + place.sec
  IN IF n \in DOMAIN Disk THEN Disk[n] ELSE SYSTEM

\* The geometry that the first sector asks for; the number of heads is kept in a byte.
max_sec == drive.sectors + 1
max_head == drive.heads % N_BYTE

\* The BIOS has loaded the first sector, which reads the second.
PowerOn(d) ==
  /\ stage = "off"
  /\ stage' = "loading"
  /\ drive' = d
  /\ at' = [entry |-> 0, left |-> 1, es |-> 0, bx |-> START_OFFSET,
            sec |-> 2, head |-> 0, track |-> 0, tries |-> RETRIES]
  /\ UNCHANGED <<programs, info, memory>>

DiskNotReady == stage = "off" /\ stage' = "frozen" /\ UNCHANGED <<programs, info, drive, at, memory>>

Loading == stage = "loading" /\ at.left > 0

\* Where the sector goes.
Destination(place) ==
  LET from == PARAGRAPH * place.es + place.bx IN (from .. from + SECTOR_SIZE - 1) \cap Units

\* The offset limit is the only one at which the segment goes on.
NextPlace(place) ==
  IF place.bx = OFFSET_LIMIT
  THEN [place EXCEPT !.bx = 0, !.es = (@ + WORD \div PARAGRAPH) % WORD]
  ELSE [place EXCEPT !.bx = (@ + SECTOR_SIZE) % WORD]

\* Sectors, then heads, then tracks.
NextSector(place) ==
  LET head == (place.head + 1) % N_BYTE IN
  CASE place.sec + 1 # max_sec -> [place EXCEPT !.sec = @ + 1]
    [] place.sec + 1 = max_sec /\ head # max_head -> [place EXCEPT !.sec = 1, !.head = head]
    [] OTHER -> [place EXCEPT !.sec = 1, !.head = 0, !.track = @ + 1]

\* readprog, for one sector.  The disk is too small when its last track ends, also
\* if nothing is left to be read.
ReadSector ==
  LET next == NextSector(at) IN
  /\ Loading
  /\ memory' = [u \in Units |-> IF u \in Destination(at) THEN SectorAt(at) ELSE memory[u]]
  /\ stage' = IF at.entry # 0 /\ Destination(at) \cap LOADER # {} THEN "lost"
              ELSE IF next.track = TRACKS THEN "frozen"
              ELSE "loading"
  /\ at' = [NextPlace(next) EXCEPT !.left = @ - 1, !.tries = RETRIES]
  /\ UNCHANGED <<programs, info, drive>>

TriesLeft(n) == n - 1
ReadFails ==
  /\ Loading
  /\ at' = [at EXCEPT !.tries = TriesLeft(@)]
  /\ stage' = IF at'.tries = 0 THEN "frozen" ELSE "loading"
  /\ UNCHANGED <<programs, info, drive, memory>>

\* What nextblock finds: one more program; nothing, which is a zero; or, behind a
\* table that leaves no zero, the GDT, which is no table.
BlockDone == stage = "loading" /\ at.left = 0
NextEntry == at.entry + 1
TableIsFull == 3 * Len(info) = FREE_WORDS
HasProgram == NextEntry \in DOMAIN info /\ info[NextEntry].count # 0
RunsOver == NextEntry \notin DOMAIN info /\ TableIsFull

NextBlock ==
  /\ BlockDone /\ HasProgram
  /\ at' = [at EXCEPT !.entry = NextEntry, !.left = info[NextEntry].count,
                      !.es = info[NextEntry].segment, !.bx = info[NextEntry].offset]
  /\ UNCHANGED <<stage, programs, info, drive, memory>>

PastTable ==
  /\ BlockDone /\ RunsOver
  /\ stage' = "lost"
  /\ UNCHANGED <<programs, info, drive, at, memory>>

\* The units of the BSS of the kernel, which is what lies at TARGET_ADDRESS.
Bss ==
  LET kernel == memory[TARGET_ADDRESS][1]
      from == TARGET_ADDRESS + programs[kernel].sectors * SECTOR_SIZE
  IN IF kernel = 0 THEN {} ELSE (from .. from + BSS - 1) \cap Units

\* The tables are set up where they belong, the BSS is cleared, and _init is called,
\* if there is a kernel.
Start ==
  /\ BlockDone /\ ~HasProgram /\ ~RunsOver
  /\ LET kernel == memory[TARGET_ADDRESS]
     IN stage' = IF kernel[1] # 0 /\ kernel[2] = 1 THEN "started" ELSE "lost"
  /\ memory' = [u \in Units |-> IF u \in TABLES \cup Bss THEN SYSTEM ELSE memory[u]]
  /\ UNCHANGED <<programs, info, drive, at>>

BootNext ==
  \/ \E a \in Arguments : ProcessFile(a)
  \/ WriteTable \/ Quit
  \/ \E d \in Drives : PowerOn(d)
  \/ DiskNotReady
  \/ ReadSector \/ ReadFails \/ NextBlock \/ PastTable \/ Start

\* Nothing else runs than the bootstrap.
BootFairness == WF_bootVars(ReadSector \/ ReadFails \/ NextBlock \/ PastTable \/ Start)

BootSpec == BootInit /\ [][BootNext]_bootVars /\ BootFairness

-----------------------------------------------------------------------------

\* Where a program is, by its entry of the table.
Area(i) ==
  LET from == PARAGRAPH * info[i].segment + info[i].offset
  IN from .. from + info[i].count * SECTOR_SIZE - 1

\* Addresses that are not negative, which pass for small ones and have the words of
\* others, and programs that stay in their segment unless they reach its end with a
\* whole sector (BuildImage.c:146-149, bootstrap.S:166-175).
Understood(i) == programs[i].address >= 0
StepsThrough(i) ==
  info[i].offset % SECTOR_SIZE = 0 \/ info[i].offset + info[i].count * SECTOR_SIZE <= WORD
WellAddressed == \A i \in DOMAIN info : Understood(i) /\ StepsThrough(i)

\* Programs that keep clear of each other and of the system, with a zero left behind
\* the table.
KeepClear ==
  /\ ~TableIsFull
  /\ \A i \in DOMAIN info :
       /\ Area(i) \cap (LOADER \cup TABLES \cup Bss) = {}
       /\ \A j \in 1..(i - 1) : Area(i) \cap Area(j) = {}
WellPlaced == WellAddressed /\ KeepClear

\* A program is in memory at its address, sector by sector.
InMemory(i) ==
  \A k \in 1..programs[i].sectors : \A u \in 1..SECTOR_SIZE :
    memory[programs[i].address + (k - 1) * SECTOR_SIZE + u - 1] = Sector(i, k)

\* An empty file puts a zero into the table, which ends there.
IsListed(i) == \A j \in 1..i : info[j].count # 0

\* When the kernel is started, every program that was put into the image, up to the
\* first empty one, is in memory at its address, sector by sector, whatever drive it
\* comes from, however many segments it goes through and whatever reads had to be
\* repeated (BuildImage.c:104-179, bootstrap.S:118-203).
ProgramsAreLoaded ==
  stage = "started" /\ WellPlaced => \A i \in DOMAIN info : IsListed(i) => InMemory(i)

\* No step of building and loading stores outside of what the programs and the system
\* take, and of the programs nothing where there is no memory (BuildImage.c:157-160).
StoresInPlace ==
  WellAddressed =>
    \A u \in Units : memory[u] # UNTOUCHED =>
      /\ u < MEMORY_END \/ u \in Bss
      /\ \/ u \in LOADER \cup TABLES \cup Bss
         \/ \E i \in DOMAIN info : u \in Area(i)

\* Loading ends: with the kernel, or with a message, however often reads fail
\* (bootstrap.S:143-161, 189-194).
BootEnds == stage = "loading" ~> stage \in {"started", "frozen", "lost"}

=============================================================================
