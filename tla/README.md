# A verification of teos

teos is a small kernel for the i386: a multiboot image that sets up paging and
a pool of physical frames, handles exceptions, and contains a stub for remote
debugging with gdb over a serial line. This directory holds TLA+ models of its
core, TLC configurations that check them on small instances, and proofs for
TLAPS. Paths below are relative to the repository; `kernel/` abbreviates
`src/kernel/` and `libc/` abbreviates `src/libc/`. Line numbers are those of the commit the models were written
against; `PROJECT.json` maps every definition to its lines.

Contents: [the system](#1-the-system), [modules](#2-modules-and-the-code),
[runs](#3-what-the-runs-show), [proofs](#4-what-is-proved),
[findings](#5-where-the-code-differs-from-what-it-says),
[limits](#6-abstractions-and-limits), [plan](#7-plan).

## 1. The system

teos runs on one processor. Concurrency is between the kernel, the exceptions
it raises (its own breakpoints, single steps, page faults, and the `int3` of
`tassert`, which can occur inside an exception handler), the devices behind
the two 8259s, and the host on the serial line. Nothing in the tree sets the
interrupt flag yet: the code that takes interrupts is complete, its user, a
driver that registers a handler and executes `sti`, is an external client of
the model.

| Component | Code | State | Operations | Status |
|---|---|---|---|---|
| Boot | `kernel/arch/i386/boot.S`, `gdt.c`, `kernel/kernel.c` | page directory, GDT | long-jump to high half, `kernel_init`, `kernel_main` | partly: the tables it leaves, the order of its calls |
| Paging | `kernel/arch/i386/page.c` | directory, tables, self-map window | `page_init_self`, `page_make_tab`, `page_make` | modelled, proved |
| Memory initialisation | `kernel/memory/manager.c`, `phy_mem.c` | frame table, marks, user counts | `mm_init`, `mm_phy_init`, `mm_phy_mark`, `mm_phy_use`, `mm_phy_reserve` | modelled, proved in part |
| Frame pool | `kernel/memory/manager.c` | the free lists of two zones | `build_buddy` | modelled, proved |
| Interrupt dispatch | `kernel/interrupt/manager.c`, `kernel/arch/i386/interrupt.c`, `interrupt-entry.S`, `idt.c` | handler tables, IDT | `im_isr_register`, `im_irq_register`, `im_on_isr`, `irq_handler` | modelled, proved |
| 8259 PIC | `kernel/arch/i386/pic.c` | in-service registers | vectors, EOI, spurious check | modelled, proved |
| gdb stub, trap side | `kernel/gdb-stub/interface.c`, `gdbstub.c`, `kernel/interrupt/manager.c` | `gdb_lock`, `current_context`, `regs[]` | `gdb_handler`, `gdb_main`, the commands | modelled, proved |
| gdb stub, packets | `kernel/gdb-stub/gdbstub.c`, `interface.c` | `pkt_buf`, `data[]` | argument scanner, hex and binary fields, memory and register commands | modelled, proved |
| gdb stub, serial line | `kernel/gdb-stub/gdbstub.c`, `kernel/arch/i386/serial.c` | place in the packet | `gdb_recv_packet`, `gdb_send_packet`, `gdb_recv_ack` | modelled, proved |
| Terminal | `kernel/arch/i386/tty.c` | place, screen, cursor | `terminal_putchar`, scroll | modelled, proved |
| Formatted output | `libc/stdio/printf.c` | none | `printf`, `tprintf` | modelled, proved |
| Memory and strings | `libc/string/*.c` | none | `memcpy`, `memmove`, `memcmp`, `memset`, `strlen` | left out: loops of a few lines, of which the kernel uses two |
| Process functions | `libc/stdlib/abort.c`, `exit.c` | none | print and loop | left out: nothing to say |
| `strtol`, `sprintf` | `libc/stdlib/strtol.c`, `libc/stdio/sprintf.c` | none | | left out: not in the build |
| Context dump | `kernel/arch/i386/debug.c` | none | prints a context | left out: pure output |
| Multiboot structures | `kernel/include/multiboot.h` | the firmware's map | read by `mm_init` | as inputs |

How they interact. `boot.S` leaves a directory with the kernel's first 4 MB as
one large page, of which everything up to `MM_BOOT_END` is the boot image's.
`kernel_main()` then calls `idt_initialize()`, `pic_initialize()`, `im_init()`,
`gdb_init()` (which ends with an `int3`), `mm_init()` and an `int3`, and
returns into a halt.

`mm_init()` reads the firmware's memory map for the top of RAM
and calls `mm_phy_init()`, which sets up the self-map window of `page.c`, maps
as much of the frame table as lies beyond the boot mapping, marks and clears
the table; `mm_init()` then reads the map again to mark reserved frames, marks
the DMA zone and the boot image, and calls `build_buddy()`, which reads the
marks and fills the free lists.

A trap goes through `interrupt-entry.S` to
`im_on_isr()`, which calls the handler registered for the vector, or the
breakpoint's when there is none, and halts afterwards in that case. The
handler of vectors 1 and 3 is `gdb_handler()`. It moves the saved context to
`regs[]`, serves the host's commands in `gdb_main()`, and moves `regs[]` back.
A device's request goes through the 8259s and the same entry to
`irq_handler()`, which looks for a spurious one, calls the line's handler
through `im_on_irq()` and ends the interrupt.

`printf()` and `tprintf()` write through `terminal_putchar()`; `tprintf()` also
sends its characters down the first serial port. gdb uses the second, so the
two never mix.

What is hard in it:

- **Ordering** in `mm_init()`: marks are set by several loops, a clearing of
  the whole table lies among them, and one later loop relies on all of them.
- **Boundaries**: regions of the memory map begin and end anywhere, wrap at
  4 GB and come in any order; runs of frames may be longer than all block
  orders together; the frame table may outgrow its mapping.
- **Writing tables through tables**: every store of `page.c` goes through the
  window, so one wrong entry changes another table.
- **Nested interrupts**: a registered line has a trap gate, so interrupts are
  on from its handler's entry, also between the end of interrupt and `iret`;
  the end of interrupt does not name what it ends.
- **Spurious requests** of lines 7 and 15 look like real ones, and those of
  the slave still have to be ended at the master.
- **Registration**: the gate is opened before the handler is stored.
- **Re-entry**: the stub traps while it serves a command.
- **Partial failure**: commands decode in place and stop half way.
- **A shared buffer**: a packet leaves what is behind its end to the next, and
  the scanner computes what remains of it in unsigned arithmetic.
- **An unreliable line**: characters are lost or damaged; the stub has no
  timeout and sends nothing twice, the host has both.
- **Edges of the screen**: a full line is only left when the next character
  comes; tabs and scrolling have to agree with that.
- **Arguments out of step**: a conversion that takes too many or too few words
  makes every later one print another argument.

`hazards` in `PROJECT.json` lists these by line with the properties that cover
them, and says of each uncovered one why it is.

What makes the parts correct:

- *Frame pool*: free blocks hold only frames nobody uses, of one zone, do not
  overlap, and together hold every frame that is not in use.
- *Memory initialisation*: the frame table covers RAM, is mapped where it is
  touched, and no frame of a reserved region, of the boot image or of a page
  table gets on a free list.
- *Paging*: the window shows every table; mapping a page changes the
  translation of that page only.
- *Interrupts*: the end of interrupt ends the handler's own request; nothing
  stays in service; no handler is re-entered; spurious requests run none; every
  request is taken.
- *Trap side*: the lock follows the session; the program goes on with what the
  trap found, changed only by what the host wrote; step and continue are obeyed.
- *Packets*: a packet changes only what its own characters name, and a
  well-formed one gets the reply it asks for.
- *Line*: a command is executed when it is acknowledged, once if the line is
  clean; nothing else is executed, unless the line forges an acknowledgement;
  neither side waits for ever.
- *Console*: the screen shows the end of the text; the text is what the format
  means; every call returns.

## 2. Modules and the code

```
FramePool  <--implements--  BuildBuddy  <--INSTANCE--  MemoryInit --EXTENDS--> PageTables
                                ^                          ^                       ^
                         BuildBuddyProofs <--INSTANCE-- MemoryInitProofs           |
                                            AddressSpace <--implements--  Paging --+
                                                                            ^
                                                                       PagingProofs

IrqDispatch <-- IrqDispatchProofs     Terminal  <--EXTENDS--  Console  <-- ConsoleProofs

GdbTrap <-- GdbTrapProofs    GdbLink <-- GdbLinkProofs    GdbPacket <-- GdbPacketProofs
```

**`BuildBuddy`** models `build_buddy()` (`manager.c`), one action for each
branch of its two loops; the variables are the function's own
(`current_frame`, `last_frame`, `size`, `i`) with the frame table's flags and
the free lists. Frame pointers are frame numbers. `free[z][i]` is the linked
list of a zone and an order, oldest first.

**`FramePool`** is what that promises: blocks are given to the pool one at a
time, each legal when it is given, and the pool is handed over when nothing
usable is left out. `BuildBuddy!PoolSpec` states that `BuildBuddy` implements
it, with the lists' entries as the pool.

**`PageTables`** holds the functions of `page.c` as operators on memory that
contains tables: `Walk` is the MMU's walk (external), `Store` a store through
a virtual address, and `PageInitSelf`, `PageMakeTab` and `PageMake` are the
sequences of stores of the three functions. A table is not cleared when it is
installed, so its entries are `Junk` until written.

**`Paging`** lets any caller that keeps the contract of `page.c` use these
operators in any order; **`AddressSpace`** is what the caller sees.

**`MemoryInit`** is `mm_init()` with `mm_phy_init()`: a scan of the map, the
mapping loops, marking, clearing page by page, the second scan, the DMA and
boot marks, and `build_buddy()`, whose actions it takes from `BuildBuddy`.
Every step that touches the frame table names the pages it touches
(`TouchedPages`); a step on a page that is not mapped is not made, as a page
fault does not return. Page tables live in frames of the same memory, so the
clearing of the frame table can clear a page table.

**`IrqDispatch`** is a stack of handler frames. A frame goes through the steps
of `interrupt_handler()`: the look for a spurious request, the callback, the
ends of interrupt at slave and master, the return. Between any two of them
another frame may come on top, as far as the frame's gate leaves interrupts on
and the 8259s (external: fully nested, edge triggered) let a request through.
`kernel_main()` is the bottom of the stack and makes its calls one by one; the
client executes `sti` and registers handlers, gate and callback being two
steps. `real` and `called` of a frame and `fooled` are history for the
properties.

**`GdbTrap`** is a session of the stub seen from the processor: the running
program (external: any instruction may change any register or cell), traps of
it, the stub's commands, traps the stub raises itself, and the three ways out
(continue, step, a packet that cannot be received). `hostRegs` and `hostMem`
are history, the host's picture of the session: what the trap found; what the
host wrote, when the answer was `OK`; `Unsure` for everything a write names that
was answered with an error, for `E00` does not say how much of it was done; and
what the stub holds, once the host reads it. `cmd`, `ran` and `junk` are history
for the properties, too.

**`GdbPacket`** is what a session makes of packets once they have arrived,
character by character: `pkt_buf` keeps its contents from packet to packet and
from reply to packet, `gdb_strtol()`, `token_expect_integer_arg` and
`token_expect_seperator` scan it, `gdb_dec_hex()` and `gdb_dec_bin()` decode
its fields, and memory is written byte by byte within the bounds of
`gdb_sys_mem_writeb()`. The properties read the same characters by what they
mean (`Reads`, `Writes`, `Pokes`, `HexRead`, `IsBinaryOf`), without the scanner
and the decoders.

**`GdbLink`** is the line: the stub's place in `gdb_recv_packet()`,
`gdb_send_packet()` and `gdb_recv_ack()`, one character at a time, against a
host (external) that sends a command, waits for `+`, sends again on `-` or a
timeout, waits for the reply and acknowledges it. Noise loses or damages the
next character of either direction, into any other: towards the host a character
may turn into `+` or `-`, which the stub sends bare (`gdbstub.c:382,387`).
`forged` is history: noise has made a `+` or `-` of another character since the
host last asked on a quiet line.

**`Terminal`** is `tty.c`: the cells, the place of the next character, the
hardware cursor. **`Console`** prints on it with `printf()` and `tprintf()`:
one action for each thing the loop over a format may meet and one per character
written. `Characters` are what text, formats and digits are made of. What a call
means is given with it, apart from the code: its format as a sequence of pieces
(`IsPiece`: a character, `%%`, a directive, a single `%` where no directive
stands), each with the words its caller pushes and the text it stands for
(`IsText`, `IsNumeral`). The `-` that `putchar()` prints before a number is
`Sign`, apart from a `-` of the text. `paper` is a typewriter with paper that
never ends, the reference for the screen; `said` and `heard` record what went
to screen and line.

**`MCBuildBuddy`, `MCPaging`, `MCMemoryInit`, `MCConsole`, `MCGdbPacket`** give
the constants values that a configuration cannot spell: memory maps, calls as
pieces with their text, packets and their prefixes. The modules ending in
**`Proofs`** hold the theorems.

*Mutants.* Definitions under a comment `Mutant:` are not part of a model.
Each is a plausible slip in the definition that follows it (a dropped test, a
swapped index, a missing reset), with the same parameters. Putting it in that
definition's place must make the property named with it in `PROJECT.json`
fail; this shows that the property constrains the code.

## 3. What the runs show

Run a configuration with `tlc -config X.cfg M`.

| Run | Configuration | Result | What it shows |
|---|---|---|---|
| `buddy` | `MCBuildBuddy`, `BuildBuddy.cfg` | holds | pool construction, every reservation of a twelve-frame table |
| `paging` | `MCPaging`, `Paging.cfg` | holds | every sequence of installing tables and mapping pages |
| `mm_init` | `MCMemoryInit`, `MemoryInit.cfg` | holds | `mm_init()` on several dozen memory maps |
| `irq` | `IrqDispatch`, `IrqDispatch.cfg` | holds | requests and exceptions at every moment of the boot, the client and each other's handlers |
| `gdb_trap` | `MCGdbTrap`, `GdbTrap.cfg` | holds | any run of traps, commands and resumptions |
| `gdb_packet` | `MCGdbPacket`, `GdbPacket.cfg` | holds | any sequence of whole, cut and odd packets in one buffer |
| `gdb_link` | `GdbLink`, `GdbLink.cfg` | holds | the line with up to three characters lost or damaged |
| `console` | `MCConsole`, `Console.cfg` | holds | any sequence of calls on a small screen |
| `mm_init_large` | `MCMemoryInit`, `MemoryInitLarge.cfg` | violated | finding 1 |
| `mm_init_backing` | `MCMemoryInit`, `MemoryInitBacking.cfg` | violated | finding 2 |
| `gdb_trap_context` | `GdbTrap`, `GdbTrapContext.cfg` | violated | finding 3 |
| `gdb_packet_stale` | `MCGdbPacket`, `GdbPacketStale.cfg` | violated | finding 4 |

**buddy.** Three orders (blocks of 1, 2, 4), twelve frames of which the first is
the boot image's and the first three DMA, and every subset reserved. A run
longer than 1+2+4 frames needs a second round of the carving loop; the nine
normal frames hold runs of every length up to nine, and of two at the zone
boundary. `BlocksUsable`, `BlocksDisjoint`,
`NothingLost` say what the pool is; `LoopInvariant` is the inductive invariant
of the proof; `Termination` that the function returns; `PoolSpec` the
refinement.

**paging.** Six entries per table instead of 1024, the kernel at index 2 and
the window at 5, which leaves two indices for callers; three frames for
tables; the first, the kernel-index and the last page of each table mapped to
two frames. Two tables are enough for one to be corrupted by writes meant for
the other; the directory and the window's own table are the third and fourth.
`SelfMapCoherent` is about the window, `SpaceSpec` the refinement.

**mm_init.** Scaled, keeping the order of the sizes in the code: a table maps
8 pages (4 MB), a page holds 4 frame entries and counts two address units, so
that regions can begin and end inside a page; the address space has 128 units
(64 pages); the kernel image ends at page 2, `PAGE_IDENT_END` is page 1,
`MM_BOOT_END` page 8, `MM_DMA_END` page 10. RAM is 55 pages: the frame table
then takes 14 pages, the last one not full, runs beyond the boot mapping, and
is given two page tables.
The maps: none; all of RAM; a reserved region of 1 to 5 units at, across and
off page boundaries, below, at and above `MM_BOOT_END` and `MM_DMA_END`,
listed in order or before the memory it lies in; a hole between regions; a
firmware region that ends at the top of the address space; device windows
beginning at the end of RAM and beyond it. `TableCoversRam`,
`MappedBeforeUse`, `ReservedNeverFree` and `BootImageNeverFree` relate the map,
the table and the lists; `TypeOK` says among other things that no mark is
written behind the table (`stray`); `Returns` says `mm_init()` comes to its end.

**irq.** Lines 1 (of the master), 7 and 15 (those that can be spurious, one of
each controller; 15 also goes through the cascade); the page fault as the
exception nobody registered for. Three requests in all, spurious ones
included: what it takes for a request to nest in a handler that is nested
itself, and for one line to ask again while its first request is still in
service; one exception, after which the system mostly hangs. The properties
are about the 8259s, the frames and the tables together: every in-service bit
has the frame that will clear it (`InServiceIsOwed`), none is left when the
last handler has returned (`EndsWhatItBegan`), and so on for spurious
requests, re-entry and the order of the boot. `RequestsTaken` is the liveness
that a lost end of interrupt would break. A spurious request on line 7 or 15
that comes while a real one of that line is in service cannot be told from it
(`fooled`): then `InServiceIsOwed` and `HandlersNotReentered` say nothing, but
`EndsWhatItBegan` and `RequestsTaken` still hold.

**gdb_trap.** Two values for every register and cell; one general register
(the program counter) besides `esp`, `ps` and `ss`; a cell the stub may write
(`data`), one it may not (`bios`), and the word above the trap frame (`top`).
Writes of one and two cells cover the write that is refused half way. There is
no bound on the number of traps and commands; `ran` counts up to 2. The values
are symmetric (`MCGdbTrap`): none is special to the code, and the properties are
invariants and one about steps. `PictureCurrent` compares two histories of
different making: the stub's registers and memory, into which malformed and
refused writes go as far as they were decoded, and the host's picture, which they
only make unsure of what they name; a decoder that wrote a register beyond the
one it was asked for would show. What a write answered with an error leaves in what
it names, no property says.

**gdb_packet.** A buffer of 11 characters, two more than the longest packet;
`data[]` of two bytes, so that a length of three is one too many; two registers
of one byte; four cells, of which two may be written. A read, a hex write, a binary
write and the two commands for a single register come whole and cut after
every character; besides them digits that are none, too many and too few,
lengths above the limit, signs, a `0x` before a number and before none, digits in
capitals, escapes that are needed, not needed and at the end, addresses at both
bounds and a register that does not exist. As the session goes on without
bound, each packet is met with every rest of any other behind it. `WritesAsAsked`
and `RepliesAsAsked` compare each step with what the packet's own characters
say; `TypeOK` has the bound on replies.

**gdb_link.** Two commands with replies, one that resumes, and the empty
packet; a `pkt_buf` of two characters, where a command takes one, so that two
packets run together by a lost `#` fill it; three disturbances; at most three
characters on their way to the host. The properties about a clean line are
those with `noise = 0`. Three disturbances are what it takes to damage a
packet, its second transmission and an acknowledgement. `OnlyWhatIsAsked`,
`AcknowledgedIsDone` and `ReplyAnswersCommand` hold while `forged` is false
(section 6 says what happens else); `forged` becomes false again when the host sends a
command on a quiet line, wherever in a packet the stub then stands, so the
properties also say that nothing lasts longer. `TypeOK` and `HostIsHeard` hold
with forged acknowledgements.

**console.** A screen of four by two with tabs of two: a line filled exactly,
one over, a tab from the last column and scrolling each come after one or two
calls. The calls go on without bound from every screen they can leave. Their
formats are one or two plain pieces (a letter, newline, tab, return) or a
sequence of a conversion of each kind followed by two others, which would show
it if a word too many or too few had been taken; three directives that are not
implemented (`%f`, `%zd`, a `%` at the end) stand before, between and after
others. A word holds 16 values, two words 256; the numbers printed include a
value equal to the base and -1 and -2 as unsigned, in one word, in two, and
extended from one to two (`%tx`).

*Fairness.* `build_buddy()` and `mm_init()` are loops nothing preempts, so
weak fairness of their steps is what the processor does. In `IrqDispatch` the
processor executes the running frame's next step (`Handle`: callbacks are
assumed to return) and takes a request that stays deliverable (`Accept`, all
lines together: which one is up to the 8259s). In `Console` a call that can go
on goes on (`Work`). In `GdbLink` the stub
polls the UART and the host reads what arrives (weak fairness each), and the
host's timer runs out while nothing is under way. Traps, requests, new commands
and noise are under no fairness: the program need not trap, nor the host send.
`GdbTrap`, `GdbPacket` and `Paging` have only safety properties and no fairness.

*Deadlock* is checked in `buddy`, `paging`, `mm_init`, `gdb_trap` and
`console`. In `irq` the system really halts, at the end of `kernel_main()` or
in `im_on_isr()`; in `gdb_packet` the stub may fault and hang. In `gdb_link`
both sides may really wait:
the stub sends the signal packet of a trap once, and the host has no time
limit for it. `HostIsHeard` allows exactly this. Functions that return and
`hlt` with interrupts off are explicit stuttering actions in the others.

## 4. What is proved

For every value of the constants that the named assumption of the module
admits. The type invariants of `BuildBuddy`, `Paging`, `GdbTrap` and
`IrqDispatch` are proved and are not among the properties of a run.

`BuildBuddyProofs`, for every number of frames and orders and every marking
(`BuddyAssumption`: sizes are naturals, there is an order, and `Blk[0] = 1`,
`Blk[i+1] = 2 * Blk[i]`):

- `TypeCorrect`, `FreeBlocksUsable`, `FreeBlocksDisjoint`, `NoFrameLost`: the
  invariants of the run `buddy`;
- `LoopCorrect`: `LoopInvariant` is inductive;
- `ImplementsPool`: `Spec => PoolSpec`.

The four properties are not inductive. That a block is usable follows because
the carving loop only takes frames of the run between `last` and `current`,
which `ScanRun` and `CarveRun` describe; that a block does not run past
`current` follows because what is left of the run is a multiple of the order's
block size (`CarveOrder`: smaller orders have been carved off), so that `size`
never falls below zero. `BlocksBehind` puts all earlier blocks behind `last`,
which makes the new one disjoint from them, and `CoveredBehind` that nothing
usable behind `last` is left out. One lemma per action shows that it preserves
the parts it disturbs. `StartsAnywhere` and `EntersInvariant` say the same of a
call in the middle of another computation, for `MemoryInitProofs`.

`MemoryInitProofs`, for every memory map and every size of RAM, page and table
(`MemoryInitAssumption`: every map has an available region that ends where RAM
ends, to the page, none that ends above, and ends of available regions do not
wrap; what is kept does not wrap or begins above RAM):

- `TableCorrect`, `ReservedCorrect`, `BootImageCorrect`: the table covers RAM,
  and neither kept frames nor the boot image's are ever on a free list;
- `MappedCorrect`, `TypeCorrect`: `MappedBeforeUse` and `TypeOK`, for RAM that
  one page table is enough for (`Fits`: less than about 1 GB, the sizes in the
  order they have in the code).

`TopInv` follows the first scan to the highest end, `MarksInv` the marks from
the clearing of each page to the last loop, and `ListsInv` hands over to the
loop invariant of `BuildBuddyProofs`, with the flags of `MemoryInit`. The first
three theorems need no word about paging: a step on a page that is not mapped
is not made. `MemInv` says what the new page table holds while it is filled in
and that it stays so afterwards: the frames behind the frame table, which
clearing it writes to, are then not page tables. That is what fails with a
second table (finding 1), and why `Fits` is there; between the two lie the
sizes of the run `mm_init`, which are model-checked only.

`PagingProofs`, for every table size, place of the kernel and of the window,
set of frames and pages (`PageTablesAssumption`: the kernel's place comes before
the window's; `PagingAssumption`: frames are numbers, the boot's two tables are
not among those callers give, and callers map pages of their own indices):

- `TypeCorrect`; `WindowCorrect`: the run's `SelfMapCoherent`;
- `ImplementsSpace`: `Spec => SpaceSpec`, every step of the window's stores is
  the installation of a table, the mapping of one page, or no change.

`WindowInv` is the reason: the window's own table and the directory have the
same entries, no two indices have the same table, so that a store through the
window changes one entry of one table.

`IrqDispatchProofs`, for all lines, exceptions and numbers of requests
(`IrqDispatchAssumption`: lines other than the cascade, exceptions below 32):

- `TypeCorrect`, `EndsCorrect`, `OwedCorrect`, `SpuriousCorrect`,
  `ReentryCorrect`, `TablesCorrect`: every invariant of the run `irq`.

The end of interrupt clears the bit of highest priority. `BitsNested` says that
the frame which owes such a bit lies above every frame that owes one of lower
priority, because the 8259 lets nothing else through; so the running frame,
which is the highest that owes anything, clears its own. It holds also when a
spurious request was taken for a real one, which is why nothing is left in
service even then; `ExactInv` adds what is true only otherwise: each bit is owed
once, and what is owed is in service.

`GdbTrapProofs`, for all sets of registers, values and cells
(`GdbTrapAssumption`: the cells the stub may write are among the cells, the
special registers and cells have names of their own, registers and cells have
different names, and `Unsure` is no value):

- `TypeCorrect`, `LockCorrect`, `PictureCorrect`, `ContextCorrect` and
  `ResumeCorrect` prove the invariants, `PictureResumes` the action property,
  of the run `gdb_trap`.

`SessionInv` ties the mode to the lock, the frame and the host's picture, and
is inductive by itself: a write answered `OK` changes what it names in both the
stub and the picture, and one answered with an error changes in the stub at most
what it makes unsure in the picture. `PictureResumes` follows from it for the step
that ends a session. `StepInv` adds what the trap flag of the frame and of
the program have to do with the last command, and needs it.

`GdbLinkProofs`, for all commands, buffer sizes and amounts of traffic
(`GdbLinkAssumption`: queries, resuming commands and the two special packets
are different):

- `OnceCorrect`, `StoppedCorrect`: on a line without noise each command is
  executed exactly once and the program runs only when it was told to;
- `TypeCorrect`: with any noise, `pkt_buf` and the two digits of the checksum
  are never overrun;
- `AcknowledgedCorrect`, `ReplyCorrect`, `AskedCorrect`: with any noise, and
  unless it forged an acknowledgement since the host last asked on a quiet line,
  an acknowledged command has been executed, the reply the host takes is that of
  its command, and nothing is executed but what the host asked for.

Without noise a conversation goes through a few phases (the program runs, a
packet is on its way with what of it is read, its `+` or its reply is on the
way), which `Clean` lists with the contents of both directions in each; one
lemma per phase says to which others a step leads.

With noise there is no such list, as any part of what was sent may be under way.
`NoisyInv` counts instead: `Distance` is the number of characters the stub
still has to read before it can answer. Each character brings it at most one
closer, whether it is read, damaged or lost on the way, and an answer takes it
back to the start. While the host waits for its `+`, what is under way to the
stub is less than a packet more than that (`UnderWay`), so that it is never
enough for two answers; once an answer is under way it is not enough for
another (`Refused`, `Done`). So a `+` is never a stray one of an earlier
command. `Waiting` and `Resting` say the little that can be under way while the
host waits for a reply or for nothing. A forged acknowledgement breaks all of
this, and `LinkInv` claims it only while there is none; that a command sent on
a quiet line restores it (`FreshStep`) needs nothing of the stub but that it has
no digits of a checksum before it has the data.

`ConsoleProofs`, for every size of the screen and tabs, every format and
argument, from `TerminalAssumption` and `ConsoleAssumption`: strings and digits
are of `Characters`, the blank of a tab and the sign are not among them, and a
call is a sequence of pieces, that is, a caller pushes what its format takes:

- `TypeCorrect`: row, column and cursor keep to the screen, the place in a
  format and its arguments to the call;
- `ScreenCorrect`: the screen shows the last lines of the text, through wraps,
  tabs at the edge and scrolling, and between calls the cursor stands where
  the text goes on;
- `ArgumentsCorrect`: every `va_arg` finds what was pushed for it;
- `MeaningCorrect`: a call that returns has printed the text of its pieces, and
  sent it down the line but for the signs;
- `FormatsHavePieces`: every text over `Characters` is the format of some
  sequence of pieces, so that the two above leave no format out;
- `NumeralMeans`, `NumeralLength`, `NumeralsDiffer`: `convert_integer()` writes
  the one text that denotes the number and has no digit too many; it has as many
  digits as its size takes, so that `output[]` holds it; and different numbers
  are printed differently.

The paper is written a piece at a time and the screen a character at a time: in
the middle of a tab the paper is ahead by the blanks still to come. `ScreenInv`
says by how many (`OwedNow`), and that in between nothing but blanks is
missing; a full line is compared with the screen as it will be when the next
character has left it (`WrapCells`).

What is printed must be followed from piece to piece, as `PrintsWhatIsMeant`
speaks of the end only. By `MeantInv` the place in the format is always that
behind some number of pieces (`Reached`), the words taken are theirs unless one
of them was a single `%`, which is when the code has rejected one, and what was
said with what is still to write is their text (`Saying`). One `tprint` of plain
text may read many pieces, each a character (`RunPieces`); a directive is one.
That the code sees the directive which the piece is, with the longest modifier
and no other conversion, is `ModifierStands` and `UnderstoodStands`: no
conversion's character is in a modifier.

`GdbPacketProofs`, for every size of the buffers, every packet and every
contents of the stack (`GdbPacketAssumption`: packets fit `pkt_buf`, which has
room for the longest data in hex and is less than half of the address space;
memory that may be written is mapped):

- `TypeCorrect`: no reply overruns its buffer, and what the parser makes of
  any characters are words and places;
- `WritesCorrect`: a packet changes only what its own characters name;
- `RepliesCorrect`: a well-formed packet gets the reply it asks for, and when
  that is `OK` its data is in place.

For `WritesCorrect` the parser is followed from its result back to the
characters: a number that ends within the packet is the one they stand for
(`FieldIs`). One that does not was read from what an earlier packet left; then
the place of the data lies behind the packet, what remains wraps to more than
the buffer (`RemainingIs`), and neither can hex data be as long (`HexFitsIs`)
nor can the bytes of a binary field fill it (`BinFitsIs`). For `RepliesCorrect`
the same is shown in the other direction: what stands for a number, and does
not go on, is read to its end (`NumberEnds`), hex data decodes as a whole
exactly when it is digits (`HexMeans`), a binary field exactly when it is bytes
and escapes (`BinaryMeans`, `BinaryDecodes`).

Both modules need induction over numbers: that numerals, digits, the pieces of a
format and the places of a binary field, which are recursive functions, are what
they should be. It is done without the library's induction theorems: a set of numbers that is not
empty has a least element (`LeastNat`), so that a set closed under the successor
holds all numbers (`AllNat`), and a function may be defined by recursion
(`Recursion`).

Model-checked only:

- liveness (`Termination`, `Returns`, `RequestsTaken`, `HostIsHeard`,
  `CallsReturn`), which needs fairness and is beyond the prover;
- `MappedBeforeUse` and `TypeOK` of `MemoryInit` with more than one page table.

## 5. Where the code differs from what it says

1. `phy_mem.c:67` says that what of the frame table exceeds the first 4 MB is
   mapped. Page tables are given frames 4 MB apart (`:76`), pages of the frame
   table 4 KB apart (`:85`), from one region. When a second page table is
   needed, one of the pages of the frame table is given its frame; and when
   the frame table reaches into the range of that page table (RAM of about
   1.7 GB), clearing the frame table wipes the page table that is in use. In
   the scaled model this is 57 pages of RAM; 56 still work (`mm_init_large`).
2. `phy_mem.c:91,93` mark the frames of the page tables and of the mapped part
   of the frame table as occupied. The marks go into the table that
   `teos_zeros()` clears at `:97`; the frames end up on a free list
   (`mm_init_backing`).
3. `interface.c:133` says the lock prevents multiple interrupts, but
   `current_context` is moved before the lock is looked at (`:131`). After a
   malformed packet the stub's own `int3` leaves it pointing at a popped
   context, and a later `s` or `c` does not reach the program
   (`gdb_trap_context`). `ContextKept` and `ResumeObeyed` are the properties
   that hold: everything is in order until a packet is malformed.
4. `gdbstub.c:651` and `:661` say that a missing separator or number goes to
   the error. `token_expect_seperator` looks at the character behind the packet
   without asking whether there is one, and what then remains of the packet is
   below zero, which as a `size_t` is huge. A read that is cut before its
   separator takes separator and length from a longer packet before it and is
   answered (`gdb_packet_stale`). Writes are not affected (`WritesAsAsked`):
   `gdb_dec_hex()` wants the lengths equal.

Others came up and have no run:

- A trap in ring 0 pushes no `ss`; `context->ss` is the word of the program's
  stack above the frame. It is saved at the trap and written back at
  `interface.c:170`, which undoes a memory write of the host to that word.
  `HostPictureResumes` states this: the word is what the host takes for `ss`,
  whatever it wrote to memory there.
- A `G`, `P`, `M` or `X` that is answered with an error may have been done in part
  (`gdbstub.c:214`, `:607`), and the program goes on with that part.
- `gdbstub.c:380` asks for the packet again and then leaves `gdb_main()`
  (`:632`), which resumes the program.
- The comments at `gdbstub.c:806,814` give `c` and `s` an address, which the
  code does not look at.
- `PAGE_IDENT_END` (`page.h:24`) is not the end of the 4 MB that are mapped, so
  pages that need no mapping get one; this is harmless.
- `tprintf()` prints the sign of a number with `putchar()`, so it is missing
  from the copy on the serial line; `%p` prints in base 10; `written` does not
  count what conversions print.
- The unsigned conversions with `t` take a `ptrdiff_t` and extend its sign
  (`printf.c:192`), so that `%tx` of -1 prints 16 digits where C has 8; `%h` and
  `%hh` print the whole `int`. No format in the tree uses these.
- From a directive that is not implemented on, the rest of the format is printed
  as it stands (but for `%%`); the formats `%0x` at `kernel.c:96` and `%2x` at
  `gdbstub.c:300` are such.
- `gdb_strtol()` takes a `0x` for a prefix when anything follows it: a number
  `0` with an `x` and no digit behind it is no number, where `strtol()` would
  find the 0.
- An `X` packet with fewer bytes than its length is answered `OK`, and what the
  stack holds is written for the rest.

## 6. Abstractions and limits

- *Interrupts.* The client is external, as nothing in the tree enables
  interrupts; it may register any line at any time and again. Devices do not
  take requests back but through `Spurious`. Requests between the opening of a
  gate and the storing of its handler are ended unhandled, which no property
  forbids. After its end of interrupt and before `iret` a line may interrupt
  again; nothing in the code bounds this nesting on the 16 KiB stack, and the
  model bounds the requests, not the depth. The masks, which `pic_initialize()`
  clears for good, and `pic_read_irr()`, which has no caller, are left out.
- *Screen.* Colours, which nothing changes, and characters from 128 on, whose
  sign `vga.h:34` extends into the colour, are left out. A cell knows ink and
  blank; which character it is, the text (`said`) knows.
- *Formats.* Widths and precisions are not implemented by the code and count
  among the directives it rejects. Interrupts during a call are not modelled:
  no handler prints in the tree but the stub's, on the same screen.
- *Packets in `GdbPacket`*: lengths are scaled (11 for 256, 2 for 64, registers
  of one byte for four). Characters after the last field of `m`, `p` are not looked
  at by the code, and the properties allow them if they do not go on with its
  number.
- *Packets in `GdbLink`.* A command's characters are one character of the model
  and its checksum is taken to tell it from every other packet; that an
  eight-bit sum may collide is left out.
- *Forged acknowledgements.* `+` and `-` are single characters without a
  checksum. When the line makes a `+` of another character (of the `-` with which
  the stub refused a damaged packet, say), the host waits for the reply of a
  command that was never executed; the stub has left `gdb_main()`, and the signal
  packet of the next trap is what the host takes for the reply. A forged `-` makes
  the host send again what was executed, and then an older command may be executed
  while the host asks for the next one. In the model these follow; the three
  properties about noise leave such a conversation out until the line has been quiet.
- *Time.* The host's timeout is longer than the line and the stub take: it
  expires only when nothing is under way. An earlier timeout, like a lost
  `+`, makes the host send again what was executed, and the stub, which sees
  no packet numbers, executes it again. `ExecutedOnce` is therefore about a
  clean line.
- *Page faults* in `MemoryInit` are the step that is not made; in `GdbTrap`
  they are traps of vector 14, after which `im_on_isr()` halts.
- *Memory maps* have 32-bit addresses and at least the DMA zone of memory.
  With less the DMA marks would be written behind the frame table. No map has
  available memory up to the very end of 4 GB.
- *Where the boot loader puts its data* is not in the repository: the memory
  map is kept apart from the frame table that is cleared before the map is
  read the second time.
- *`page_make()` without a table* and for the kernel's own index are outside
  the callers' contract: the assertion prints and goes on.
- *Flag bits* of page table entries, and registers by name, are left out.
- *External*: the MMU, the 8259s and the devices behind them, the UART and the
  host, and the interrupted program.

Not modelled: the memory and string functions of `libc/` (short loops over one
argument; the kernel uses `memset()` and `strlen()`, whose effect is part of
the actions that call them), `abort()` and `exit()` (print and loop),
`strtol()` and `sprintf()` (not in the build), the context dump (pure output),
the GDT and the printing of the boot information (straight-line code).

## 7. Plan

Done: the frame pool, paging, and memory initialisation, which composes the
two; the stub's trap side, its packets and the line; interrupt dispatch with
the 8259s; the console. All of them have proofs.

What is left:

1. the session and the line composed: `GdbTrap`'s and `GdbPacket`'s commands as
   what `GdbLink!Execute` does, which multiplies their states;
2. `MemoryInit` between one page table and the size at which finding 1 bites.
