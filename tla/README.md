# TuringOS in TLA+

TuringOS is an operating system in the style of CP/M on an emulated 8080: a
kernel loop steps the CPU, a BIOS serves the calls programs make, a file system
keeps files in a disk image of the host, and a shell, itself a program for the
emulated machine, takes commands. These modules model the parts of it that
carry state from one operation to the next, check them with TLC on small
instances, and prove with TLAPS what holds for all of them.

## Inventory

Paths are below the repository's root.

| Component | State it keeps | Operations | Hard because | Right when |
|---|---|---|---|---|
| File system, `src/fs/fs.c` | the image behind one stdio stream, the directory cache `g_dir_raw`, the handle table, `g_dirty` | open, create, read, write, close, list, delete, exists, flush, sector read and write, init | a write is several accesses to the host file; the process can be killed between them; stdio buffers; handles outlive what they are on; allocation bytes are 8 bits wide | no sector has two owners, names are unique, handles are live, what was written is read, a kill loses one write at most |
| Output ring, `src/bios/bios.c` | `g_out`, `g_head`, `g_tail` | push, get, pending, init | wrapping indices, a full ring | it is a bounded FIFO queue |
| BIOS calls, `src/bios/bios.c` | filename buffer, input line, disk parameters, `g_run_loaded` | 17 function numbers through `bios_dispatch` | a name is built by many calls of programs that may stop in between; `run` replaces the caller; `type`, `run` and `cc` are sequences of file operations, each of which may fail or be the last before a kill; a line is edited while it is read | each call does what it says to the file the caller named, on the whole of the file or with an error, and leaves no handle behind |
| Kernel, `src/kernel/kernel.c` | `state`, `resume_state`, the CPU's latches, steps and tick, the META area, two snapshot files | one tick per iteration of `kernel_run` | state kept across the call that changes it; a halt means two things; output is printed at the end of some ticks only; counters of 32 bits | each request is served once, the kernel knows whose code runs, nothing printed is lost, the machine stops when its input ends, snapshots are regular |
| Shell, `src/shell/shell_tpa.c` | its place in a command | prompt, read a line, carry it out | it runs in the memory that programs overwrite | commands are about the files they name |
| CPU and memory, `src/emu/` | registers, flags, 64 KiB | one opcode per step | flags that one instruction leaves for another, words that wrap round the end of the memory | programs compute what arithmetic says and return where they were called |
| Compiler, `src/compiler/` | tokens, nodes, code buffer, symbol tables | lex, parse, generate | tables and buffers that fill up in the middle; scratch places, registers and call frames that the generated code shares | what the grammar allows comes back as its tree; the generated program does what the source says, or nothing |
| Compiler driver, `tools/cc_driver.c` | none | takes two paths and calls the compiler | nothing | it reports what the compiler does |
| Visualizer, `viz/` | what it last read | read the two snapshot files | it reads what the kernel is rewriting | what it shows is whole, in order, and in the end what there is |

Components call each other: the kernel calls `cpu_step`, `bios_dispatch` and the
ring; the BIOS calls the file system and the compiler and writes the CPU's
registers; the shell and programs reach the BIOS by `OUT 1`. Everything runs in
one thread. What does happen at the same time is the end of the process (the
user kills it) and the visualizer.

`PROJECT.json` lists, under `hazards`, where this code is hard to test, with the
line and the properties about it.

## Modules

| Module | Models |
|---|---|
| `DiskGeometry` | sector addresses |
| `FileStore`, `FileSystem`, `MCFileSystem` | the store of files `fs.h` promises; `fs.c`, and the refinement mapping; small disks |
| `FileSystemProofs`, `FileStoreProofs` | the theorems of `FileSystem`; that it implements `FileStore` |
| `OutputQueue`, `OutputRing` | the queue `bios.h` promises; the ring that implements it |
| `Bios`, `Kernel`, `MCKernel`, `KernelProofs` | the outcome of each call; the kernel loop, the shell and programs over it; a small machine; its theorems |
| `Commands`, `CommandsProofs`, `MCCommands` | `type`, `run`, `del` and `cc` step by step over `FileSystem`; its theorems; small disks |
| `Console`, `Terminal`, `MCTerminal`, `TerminalProofs` | the console calls and the line editor; a program at its terminal, over `OutputRing`; short inputs; the theorems of the ring and of the terminal |
| `Cpu`, `MCCpu`, `CpuProofs` | `cpu.c` and `mem.c`; machine programs and what they must compute; the theorems of both |
| `Lexer`, `LexerProofs`, `Parser`, `MCFrontEnd` | `cc_lex`; its theorems; `cc_parse`; texts, trees and token sequences |
| `Outcome`, `Codegen`, `Compiler` | the error returns; `cc_codegen`; `cc_compile` |
| `Language`, `Toolchain`, `MCToolchain` | the meaning of a C program; `cc`, `run` and the ticks that follow, over `Compiler`, `Cpu` and `Console`; programs |
| `Snapshot`, `SnapshotProofs` | the kernel's files and the visualizer that reads them; its theorems |

Definitions named after another one and what goes wrong in it, as `Push_NoSpareSlot`
after `Push`, are that definition with a plausible mistake. They are used by no
specification; putting one in its place makes TLC refute the property it is
paired with in `PROJECT.json`, which shows that the property depends on that code.
`PROJECT.json` also has, under `map`, the lines every definition stands for.

### FileSystem

Every exported function is one action, except `fs_write`, which is one action to
begin, one per sector (`WriteInPlace`, `WriteAllocating`), and one to store the
directory entry, because a kill may come between any two. Every function re-reads
the directory first, so `g_dir_raw` is not a variable: it is the directory on the
disk, with the changed entry of the running write (`JobDir`).

The image is two variables. `disk` is what the process sees through its stream,
`durable` what is in the host file. glibc's `fseek` flushes what was written
before, and every access of `fs.c` starts with one: so each step moves `disk` to
`durable` before it changes `disk`. `Crash` keeps `durable` only. With `IOErrors`
any seek, read, write or open may fail, and a failed flush keeps or loses its
buffer.

Names are abstract: `CpmName` maps the strings callers pass to 8.3 names, two
spellings in different case to the same one. File contents are bytes from a small
set, one per call of `fs_write`. Raw sector writes by programs are limited to
data sectors in `RawSectors`: a program that overwrites the directory through the
BIOS can break every property below, and this is the documented purpose of that
call.

`FileStore` is what a caller may count on: a function from names to sequences of
bytes, names and positions of open files, the write that is going on, and the same
function as a killed process leaves it. It has no directory, no sector numbers and
no allocation. `FileSystem` maps an image to the function (`Stored`) and has
`ImplementsStore`, that every step of `FileSystem` is a step of the store. Beyond
what the invariants say it fixes what each call returns when it succeeds, that the
space after a short last write is zeros, that a write stops early only in a full
file or when the blocks of all files together fill the disk, so that no order of
writes, deletes and kills loses a sector, and that a new process finds the files as
they were, or as they were one step before.

### OutputRing and OutputQueue

`OutputRing` is the array and its two indices, a slot always left empty.
`Contents` is the refinement mapping: the slots from `tail` up to `head`, around
the end. `call` is what the callers see, the last call with the character it gave
or returned; the queue and the ring must agree on it at every step.

### Bios and Kernel

`Kernel` is `kernel_run`: an action per case of its switch, and `Drain`, the
printing at the end of a tick, which the ticks that latch a call skip. `resume`
and `state` are its variables. A step of the CPU is a choice from `CpuStep`:
nothing when halted, the shell's next step while the shell is at `0x0100`, and
any step at all (another instruction, any call with any character, an OUT to
another port, HLT) while another program is. `KS_IDLE` is not there because no
assignment in the program enters it.

`Bios` gives each call's effect on what the kernel, the shell and other programs
can see: the number of characters in the ring, the filename buffer, the length
of every file, whether the input has ended, and what code is at `0x0100`. Calls
that touch only registers or the disk parameters are one call, `QUIET`. `run`
replaces the code at `0x0100` only if at least one byte was read, and asks for
the start in any case, as the code does. `run` of a file larger than the program
area cannot happen: an entry has 16 sectors of 256 bytes, the area is 16128.

A line is empty or not; what command a line is, is a choice. A string the shell
prints is one CONOUT: the ring is emptied between two characters of a string as
between two strings. What the shell is made of is taken from its C source.

### Commands

`Bios` says how `type`, `run`, `del` and `cc` come out; `Commands` says how they
get there. A call is a sequence of calls of `FileSystem`, whose actions it joins
with its own variable `cmd`: where the call is, its handle, how many bytes it has
read, and whether these are the bytes of the file from the first one on, without a
gap or a repetition (`same`). So every host failure and every kill of `FileSystem`
can happen in the middle of a command. The program that `cc` writes is of one byte
throughout, which tells it from the one it replaces; what it should be is
`Compiler`'s matter.

### Console and Terminal

`Console` is a library of operators for CONIN, CONOUT, READLINE, LINEGET and
LINELEN on a record of the input that is left, the output, and `g_shell_line`. A
backspace at the start of a line is dropped, elsewhere it takes a character back
and echoes three; a line that is too long is read to its end. `Terminal` runs a
program that makes these calls in any order and carries each character through
the ring of `OutputRing` and, when the call is over, out of it. `GetsWhatWasMeant`
compares the line with a definition that does not edit: a character stays if the
backspaces after it never outnumber the characters after it.

### Cpu

`cpu_step` is a disjunction of one action per group of opcodes, with the flags
computed as `cpu.c` does it. Opcodes that `cpu.c` does not implement skip one byte
(and not their operand). The memory is the function of the cells that were written,
all others being zero, and words wrap at 0xFFFF. `MCCpu` gives it machine programs
with operands from all corners of the byte and says what each must have computed:
sums and differences of words through the carry, decimal sums, shifts, comparisons
by way of the flags, the status saved and restored, nested calls of every kind of
entry and exit, on stacks that wrap.

### Lexer, Parser and MCFrontEnd

`Lexer` has one action per iteration of the loops of `cc_lex`. `Parser` follows
recursive descent by recursive operators on a record of tokens, position and nodes;
`Outcome` carries the -1 that every function hands up. `MCFrontEnd` runs the one on
the tokens of the other: every text of up to 5 characters over an alphabet with one
of each kind, texts around the size of the token array, programs written down from
their trees with as few or as many blanks as C allows and with no parentheses but
those that C needs, and every sequence of up to 6 tokens in the place of an
expression. What they are compared with does not read from the left: a text may be
cut (`Splits`) or a sequence derived (`Derives`) in any way at all.

### Codegen, Compiler, Language and Toolchain

`Codegen` makes the bytes `cc_codegen` makes, and `Compiler` joins it to `Parser`:
refused, a program, or the stub that prints nothing. The escapes of a string are decoded where
`puts` is generated, one after the other (`Decoded`); an escape that is not known
prints a backslash and loses its character. `Language` gives a C program
its meaning, a value and an output, by recursion over its tree, and knows nothing
of registers; for it an escaped character is one with an odd number of backslashes in a
row before it. `Toolchain` compiles, loads and steps: the memory `run` leaves is
executed by `Cpu` and its calls are served by `Console`. `ComputesMeaning` says
that the two agree when the program halts, from a memory that an earlier program
has used. Numbers are counted modulo 256 in both, as the compiler does; a run
below shows where C differs.

### Snapshot

Two processes. The kernel's ticks move between its states, and every `Interval`
ticks it truncates and writes the tape, in `Chunks` parts, and the META record, as
it does once more when it has left its loop; opening may fail. The visualizer reads
the tape, META and the program counter one after the other, part by part, and
keeps what it has if a file is too short; P pauses it. A part is labelled by the
time it was written. `TickMod` and `StepMod` stand for the 2^32 of the counters.

## Runs

| Run | Shows |
|---|---|
| `fs_core` | all operations of the file system, kills at any point, and that they are a store of files by name: 2 names, 2 entries, 2 handles, 2 slots per file, 3 data sectors, sectors of 2 bytes |
| `fs_errors` | host failures at any access: what the host file may lag behind by; one handle, two data sectors |
| `kernel_core` | the machine with files that are not empty and fit in the ring |
| `commands` | the file calls step by step, with kills: the whole file is taken, a compiled program is in the host file, every call ends |
| `commands_faults` | with failing hosts: no handle is left, no `.com` is part of two programs |
| `terminal` | line editing against what was typed, and the order of the output, through a ring that refines the queue |
| `cpu` | machine programs compute and branch as they should |
| `frontend` | the lexer and the parser against definitions of a text and of the grammar |
| `toolchain` | compiled programs do what the source means, or nothing |
| `snapshot` | what the visualizer shows is whole and in order, and in the end the last snapshot |
| `kernel_empty_com` | (counterexample) the shell that `run` of an empty file starts as a program |
| `toolchain_for` | (counterexample) the statement after a `for` runs in the place of its body |

The last two end in a counterexample; `findings` in `PROJECT.json` has the line of
the code and the documents that say otherwise.

### Further configurations

These show, each by one counterexample, where the code is not what its documents
say, or where a property above needs the condition it is run under.

| Configuration | Property | What happens |
|---|---|---|
| `fs_limit` | `WriteReadBack` | past the sector whose allocation byte wraps to zero (fs.c:426), a write is reported and cannot be read |
| `fs_persist_error` | `WriteReadBack` | the entry cannot be stored (fs.c:455); the bytes are reported as written |
| `fs_track0` | `TrackZeroReserved` | the allocator uses track 0 (fs.c:156), which `.cursor/spec.md:242` reserves |
| `kernel_long_type` | `NoneLost` | `type` of a file longer than the ring loses its end (bios.c:403) |
| `kernel_stale_name` | `ShellNamesItsFile` | a name left unfinished by a program is the beginning of the shell's (bios.c:150) |
| `kernel_halt` | `HaltCommandStops` | the shell's `halt` returns to itself instead of stopping the machine (`.cursor/spec.md:293`) |
| `commands_read` | `TakesWhole` | a sector that cannot be read ends a file for `run` and `type` (bios.c:177), and makes `cc` compile a part of it twice (fs.c:366) |
| `terminal_full` | `GetsFullLine` | of a line that just fills the buffer the last character is lost (bios.c:84; 128 characters in `.cursor/spec.md:300`) |
| `cpu_ldax` | `LdaxLoads` | LDAX is missing (cpu.c:669; `.cursor/spec.md:109` has all opcodes) |
| `toolchain_locals` | `Terminates` | a local of a function other than `main` lies over the return address (compiler.c:806) |
| `snapshot_torn` | `OneTime` | a tape that is shown may be of several snapshots (viz/tape_bridge.py:28) |
| `snapshot_dirty` | `DirtyTold` | the META area says pages are clean that the tick before wrote (kernel.c:42; `.cursor/spec.md:227`) |

`MCToolchain` has more such programs; each is run by naming it as `Programs` in
`toolchain_for.cfg`: `NestedPrograms` (`1 + 2 * 3`: an operation in the right operand
of another uses the register of its left one, compiler.c:931), `NestedLogicPrograms` (the two operands of `&&` share one
place, compiler.c:928), `LoopReturnPrograms` (in `toolchain_locals.cfg`: a `while` whose
body returns is never left, :1309), `GlobalValuePrograms` (the initial value of a global is dropped,
:1417), `WidePrograms` (with `IntMod` 65536: an `int` has 8 bits, :1084) and `CharPrograms` (a character
literal is 0, :281). `LongPrograms`, named in `toolchain.cfg`, goes on with its code
where the globals are, and violates `CodeIntact`: the globals start at 0x2000 (:1405)
and the compiler has room for 16384 bytes. No `.com` file gets there, as a file of the
disk has at most 4096 bytes; the output of the compiler driver may.

`SupportedPrograms`, which the run `toolchain` uses, keeps clear of all these, and says
so in its comment. It has no calls of the files, which `Toolchain` does not serve,
and no escapes but those C and the compiler both know (`.cursor/remember.md:238`).

### Bounds

They are all in the `.cfg` files.

- File system: a disk of 3 data sectors for 2 files of 2 slots makes allocation
  fail in the middle of a write, reuses the sectors of deleted files, and lets two
  files compete for one sector. Sectors of 2 bytes and writes of 3 give writes
  that start and end inside a sector. 2 handles on 2 entries give two handles on
  one file. `AllocMod` 4 in `fs_limit` makes the allocation byte wrap with
  few sectors, as 256 does with 2002.
- Commands: sources of 1 to 3 sectors with a limit between them (`SourceMax` 5)
  give one that fits, one that just does not, and one that takes several reads;
  programs of 1 and 4 bytes replace old ones of 0 to 2 sectors on a disk that may
  be too full for them. `SourceMax` 9 lets a failed read repeat a part before the
  limit ends it.
- Kernel: a ring of 8 slots holds the longest output of one call in `kernel_core`
  (a file of 6 with its newline, two erased characters, a listing of two names of
  3) and not two of them; the real numbers are 1023, at most 832 for a listing,
  4096 for a file. `MaxErase` bounds the characters erased in one line; the
  program has no such bound. Filenames of one character, a buffer of 3 and two
  files make complete, wrong, empty, concatenated and cut names.
- Terminal: a line of 3 and inputs of 6 give lines that are too long, edited back
  into length, and followed by others, and more output than a ring of 8 holds.
- Cpu: the operands are the corners of a byte (0, 1, 15, 127 to 129, 255), with
  all 256 of them on one side of the logic operations; decimal digits on both
  sides of every adjustment; stacks at both ends of the memory.
- Front end: 5 characters are the shortest with an escaped quote inside quotes
  and something after them; 6 tokens the shortest with a call of two arguments,
  or two parentheses and two operators. `MaxTokens` is 64 there, less than the
  longest texts; the parser's array is never full (it is in `toolchain`).
- Toolchain: loops and calls of up to `Fuel` turns, tables of 3 names and 3
  functions, 60 nodes and 320 bytes of code, which all supported programs fit in
  and one unsupported program for each table does not. The globals begin 147 bytes
  after the code does, as in the program they begin 7936 bytes after it with room for
  16384: the longest of `FullPrograms` takes every byte up to there, and writes the first
  global. Strings of up to 4 characters have every pair of escapes side by side,
  and one string has all of them.
- Snapshot: an `Interval` of 2 against a tick modulo 3 and steps modulo 4 makes
  both counters wrap at and between snapshots; 2 parts are the fewest that can be
  torn; `MaxTime` 5 is two snapshots and the final one.

### Fairness

Where a specification has fairness, the code never waits there:

- `Kernel!Spec` has weak fairness of `Tick`, the body of a loop that waits in
  `getchar` only, and `getchar` returns at once when the input has ended. No
  fairness is assumed of programs: `HaltsAtEof` speaks of behaviours in which no
  program runs for ever, and `ShellComesBack` of a program that has halted.
- `ToolchainSpec` has the same of its `Tick`, but not of compiling.
- `CommandSpec` has it of `CommandStep`: a call, once made, is not interrupted but
  by a kill, after which it is not running.
- `Snapshot!Spec` has it of `KernelStep` and of `Poll`, as each process runs on by
  itself. None is assumed of the P key.

The file system, the console, the CPU and the front end are checked for safety
only.

## Proofs

All constants are arbitrary, under the `ASSUME`s of the modules.

`FileSystemProofs`. The strengthening is `SafeInv`: the types, `AllocSafe`,
`NamesUnique`, and that the entry a write is changing keeps the name and the
activity of the entry on the disk (`JobKeepsName`). The last one is what makes
storing the entry at the end of a write keep names unique; `AllocSafe` of the
directory in memory (`JobDir`) is what makes storing it keep ownership.
Allocation is safe because the byte stored for the first free sector names that
sector, or zero when it wraps to zero, or, when it wraps further, cannot arise:
the sectors below would have to be all in use, and sectors past the wrap never
are, so the allocator never goes beyond the first sector whose byte is zero. From
`SafeInv` come `AllocationSafe` and `NamesStayUnique`. `FlushIsNeverSkipped`
is inductive with the types; `HandlesStayLive` assumes a host that does not
fail, as a failed flush may lose the entry a handle is on. `AddressesAgree` is the
round trip of sector addresses.

The host file. `HostFileLags` holds whatever fails: every access seeks, so the two
images differ, after it, in the one place it wrote. `HostFileIsConfined` and
`WrittenIsRead` assume a host that does not fail, on which every step leaves in the
host file what the disk was before it (`HostFollows`). The first rests on `Pending`,
that a sector in which the two images differ is a raw one, or belongs to no file
of the host file but the one being written; the second on `JobReads`, that the bytes a
running write has counted are in the sectors of its entry in memory, at the offsets
where a read looks for them. Its step is that a position in an earlier slot, or
earlier in the same one, is not touched by the sector write that follows
(`SectorReads`), because no other slot of any file has that sector (`AllocSafe`), and
because a sector just taken was in no slot. It speaks of behaviours in which no write
has to take a sector whose allocation byte wraps, `[]InReach`: while a file is
written, the first free sector, if there is one, is below `AllocMod - 1`. The disk
may be of any size. The program's has 2002 sectors for a byte of 8 bits, and is in
reach as long as its files have not taken all of the sectors 8 to 254, which the
allocator gives out first. `fs_limit` and `fs_persist_error` are the counterexamples
without the one condition and the other.

All of these are invariants of `Operation`, the next-state relation with buffers of
any length, so that they hold of every module whose steps are file calls.

`FileStoreProofs`. `StoreImplemented`: on a host that does not fail, every behaviour of
`FileSystem` that stays in reach (`[]InReach`, as above) is one of `FileStore`. `StoreInv` joins `SafeInv` and `HandlesLive` to three facts. Positions are
within their files (`PositionsIn`), without which a read could return less than
nothing. A running write has changed nothing of its entry on the disk but what
follows the old end (`JobExtends`): that is what makes the bytes within the file
appear at once and those past it only when the entry is stored. And no file of
either image, the one in memory and the one a kill leaves, has a hole, nor a
sector past its size (`Filled`). Each action is then one action of the store. A
sector written in place changes one slot of one file (`SectorChanged`), because
`AllocSafe` gives it to no other, and a new one changes none (`NotYetInFile`); an
entry stored adds, removes or changes one name (`FileAdded`, `FileRemoved`,
`FileChanged`), because of `NamesUnique`. That a write
stops early on a full store only is a count: the sectors of the files and the
blocks the store has in use correspond one to one (`Taken`, `InUse`), so that no
free sector means as many blocks as there are.

`CommandsProofs`. Every step of a command is an `Operation`, or leaves the files
alone, and what `FileSystemProofs` says of files carries over. `CommandInv` says
what a command holds: at most the one handle it names, no write but its own, and
the places it can be at. `CommandTypesHold` and `NoHandleIsLeft` follow, whatever
fails and whenever the process is killed.

`WholeIsTaken` and `CompiledIsSaved` assume a host that does not fail, `[]InReach`, and
that the machine starts on a disk without holes in its files (`ImageSound`, which
`MCCommands` checks of its disks). Under these no file ever has a
hole (`NoHoles`): a write that ends leaves a sector in every slot its size covers.
`fs_read` then gives bytes that follow those before them and none only at the end
(`ReadTakes`), so that a command that loops until it gets none has the whole file
(`TakingInv`); `commands_read` is the counterexample without the first condition.
For `cc`, the write that fills a new file starts at its first byte and comes to an
end only with every byte in its sectors (`EndsWhole`), where `JobReads` puts them;
closing and flushing leave the file as it is (`MakingInv`).

`NoneIsMixed` needs no such host. `MixedInv` says of the disk and of the host file
that a .com file has no hole in it and is of one program (`GoodImage`); that the
file `cc` opens is empty (`Blank`); and that while it is written its entry
on the disk still says it is empty, and the slots up to the position hold the one program
(`Growing`), so that the entry that ends the write gives a size the sectors bear
out. What fails, or a kill, only puts one of the two images in the place of the
other. It assumes `[]InReach`, as `fs_limit` is the counterexample without it,
and disks with no mixed file, which `MCCommands` checks
of its own.

`TerminalProofs`. For the ring, `Contents` of the next state is computed for each
action from the arithmetic of wrapped indices; `RingImplementsQueue` is a
step-by-step simulation under `TypeOK` (`RingTypes`). A step of a terminal is a step of the ring or none, so that the ring
is the queue here too. `PrintInv` counts what may still come: what is in the ring
and what a call has still to push are together no more than that call was to print,
so that, if this fits, no push finds the ring full and what is printed and what is
in the ring are the beginning of the output. For the line, the loop of READLINE is
a recursive function, and what holds of each of its values comes from the least
number for which it does not (`UpTo`). `Holds` is the invariant of the loop: the
line has the characters that stay, in order, and behind the k-th from the end
backspaces are k - 1 short of cancelling what follows; so a character taken makes
one more that stays, and a backspace takes back exactly the last (`HoldsMore`,
`HoldsFewer`, `HoldsNone`). That the characters which stay, counted in order
(`Meant`), are then the line is `NumbersCount`. `MeantIsGiven` assumes a buffer of at
most 255 characters, because LINELEN answers a byte; the program has 128.

`KernelProofs`. `LatchInv` joins the types, `RequestLatched`, and that something
is loaded after boot. `ModeInv` adds `ModeMatchesCode` and needs that no file is
empty and no read stops short; the run `kernel_empty_com` is the counterexample
without it. `AliveInv` adds that the CPU has not halted while a call is latched,
which gives `HaltedShellStops`. `PrintInv` adds that the ring is empty between
ticks: `OutputNeverLost` says that no character is lost if what one call prints
fits in the ring (`CallsFit`), and `kernel_long_type` that the condition is
needed.

`LexerProofs`. `TypeInv` adds to the types that a token being read began before the
position, and one between tokens begins at it (`Began`). Then a token never ends
before it starts, and every step either moves over a blank, stays in its token, or
ends a token where the next may begin, which `TokensTile` puts together.

`SnapshotProofs`. `TypeInv` adds to the types how far the files and the reader
are (`Progress`, `Writing`, `Reading`): what is being read is never longer than the
file it is for. `SnapsOften` rests on `Since`: between snapshots the ticks since
the last one are the tick modulo `Interval`, until the tick wraps, which
starts a snapshot early and never late. `TornInOrder` rests on `OlderInv`: the
parts in the tape, and those a reader has joined to those it may still read, never
get older towards the end, because a writer that overtakes a reader leaves it
newer parts only behind those it has. `MetaAgrees` is the agreement, for each
time, of all the parts in the files, in the reader and on the screen.

`CpuProofs`. `CpuTypeOK` says that registers and cells hold bytes, SP and PC words,
and that nothing but a flag is in the flags. `WidthsKept` goes through the
instructions: each is made of a few operators (`set_rp`, `write_reg`, `Alu`, `daa`,
`Rotate`, push and pop), and a lemma says of each of these that it keeps the widths
(`Sets`, `AluWidths`, `DaaWidths`, ...).

`ComputesRight` is about the programs of `MCCpu`, for all operands: sums and
differences of all words, sums of all numbers of four decimal digits, all pairs of
bytes and all words to shift. For each program there is a predicate (`SumRun`,
`DecimalRun`, ...) which has, for every value of PC on its way, what is in the registers
and in CY; `CourseInv` is that the CPU is where it says. A step from each place is
`Fetch`, which byte of the program is the opcode, `Decode`, which instruction that
is, and what the instruction does, for which the arithmetic is on its own:
`SumOfBytes` and `DiffOfBytes` for the carry between two bytes, `DaaAdjusts` for the
correction DAA makes to the sum of two packed bytes with or without a carry into
it, `HalfAdder` for the operations on bits (the or is the xor and the and put
together, and with the and once more it is the sum), `LeftRight` for a turn of a
byte and the turn back. `MCCpuAssumption` says what the run's operands are, so that
the theorem has nothing to assume; it limits `Bytes` to bytes and `Digits` to two
decimal digits.

`ControlFollowed` is about the other programs of `MCCpu`, which write to the memory
they lie in: all statuses, all pairs of bytes compared under each of the eight
conditions, all words, all ways to enter and to leave three nested routines, and
all places for the stack and for the words that `MCCpuAssumption` admits, which
are those clear of the programs: `Stacks` is below 9, where the stack goes round to
the end of the memory, or from 0x300. `ControlInv` says for each program where it can
be and what is there, in the registers and on the stack, in four parts:

- `Kept`: the memory from 8 to 749 is as it was placed, so that every fetch reads the
  program. What a push writes is below the stack's start by a bounded number of
  cells, and `CellsClear` says that none of these is in the program, also when the
  address wraps (`KeptPushed`); `Held` is the same for the program that keeps words.
- `Stacked(sp, m, s, f, n)`: SP is 2n cells below s and the words on the stack are
  f[1] to f[n]. `PushStep`, `PopStep`, `EnterStep` and `ReturnStep` are what every stack
  instruction does to it.
- For a comparison, `ResultFlags` and `OnesParity` say that the flags of CMP are what
  `Holds` asks of the bytes, `OnesParity` by counting the bits of a byte one at a time
  where the code folds it; `JumpAt`, `CallAt` and `ReturnAt` are the two ways from there.
  For a status byte, packing and unpacking are inverse but for the bits that
  are no flags.
- For nested routines, `Saved` is the nine words the stack holds when all are
  entered: for each routine the address to come back to and the two pairs of
  its caller. `Saving` and `Leaving` are the places within a routine, for any level,
  with BC, DE and how many of the words are on the stack; XTHL puts, for three
  instructions, an unknown word in place of the top one (`With`). `NestedStep` puts the
  levels together: from a site into its routine, from there to the next
  site or to the return, and back behind the site that called. `StackLies` says
  where each piece of code is in the memory that the task makes of its programs.

Model-checked only:

- the liveness properties `HaltsAtEof`, `ShellComesBack`, `Terminates`,
  `CommandEnds` and `LastIsShown`, which are out of the prover's reach;
- everything about the parser and the compiler, whose operators are recursive,
  as the grammar is, or fold over data, and of the lexer what its tokens are, which
  is compared with a recursive definition.

## Not modelled, and what could come next

Left out, with the reason:

- the drive, track, sector and DMA calls as registers (`FileSystem` has the sector
  reads and writes they lead to), and the stage files of `cc`, which are written
  for a person to look at: they are left out of `Commands` with what their failure
  prints;
- `Toolchain` serves the console calls only: a compiled program that works on
  files is `Commands`' and `Kernel`'s matter;
- lines and columns of tokens, which nothing uses; names of more than 15
  characters; numbers that do not fit an `int`, on which the parser's arithmetic is
  undefined;
- the spelling of 8.3 names, a constant function that is given as a table;
- drawing, clicks and saved pictures of the visualizer, the terminal's modes, the
  compiler driver, and the build.

What could come next: files in the programs that `Toolchain` runs, which would join the
compiler to `Commands` and `FileSystem`; and, with a prover for induction over
data, that the tokens of every text are what the language's definition says.
