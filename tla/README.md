# bbnOS in TLA+

bbnOS is a small x86 kernel with two lives: a 64-bit kernel started by a UEFI
boot loader (`src/boot/uefi/gnu-efi/bootloader`, `src/kernel/uefi`,
`src/lib/uefi`), which is the one being developed, and an older 32-bit kernel
started from a FAT12 floppy (`src/boot/legacy`, `src/kernel/legacy`,
`src/lib/legacy`). This directory holds TLA+ modules of the parts whose state
and ordering can go wrong, TLC configurations that check them on small
instances, and TLAPS proofs of the properties that matter most for every value
of the constants.

Contents: [Components](#components) · [Modules](#modules) ·
[Runs and bounds](#runs-and-bounds) · [Fairness](#fairness) ·
[Proofs](#proofs) · [Where code and comments disagree](#where-code-and-comments-disagree) ·
[Limits](#limits) · [Plan](#plan)

## Components

### How the UEFI kernel runs

The firmware runs `efi_main`, which loads the kernel and a font, takes the
memory map, leaves boot services and jumps to `kmain` with a `BootInfo`.
`kmain` is one thread of control with interrupts off until the end of
`prepareInterrupts`: it measures the memory map, builds the bitmap of page
frames, reserves what the firmware keeps, locks its own image, builds identity
page tables out of requested pages, locks and maps the frame buffer, loads CR3,
programs the interrupt controllers and the mouse, prints a message, and stays
in a loop that calls `ProcessMousePacket`. From `sti` on the handlers of IRQ 1
and IRQ 12 run between any two instructions of that code, with interrupts off
themselves. Everything they share with the main thread (the cursor, the mouse
packet) is plain static data with no lock.

### How the legacy kernel runs

The boot sector finds `LOADER.BIN` on a FAT12 floppy, reads it along its
cluster chain and jumps to it. The loader asks the BIOS for the memory map,
finds and reads `KERNEL.BIN` in the same way, enters protected mode, takes the
size of memory from the map, maps all of it to itself, copies the segments of
the kernel to their places and jumps there. `kmain` sets up the 8259s, registers
two handlers and enters the first of its tasks through `restart`. From then on
tasks run with interrupts enabled, and so do handlers: `save` pushes the
registers, counts the depth and chooses the stack; the clock's handler moves
`p_proc_ready` on; the outermost handler ends in `restart`, which enters the
task that points to, the others in `restart_reenter`. All of them print through
one `fb_putchar` with one cursor.

### Inventory

| component | source | state | operations | what is hard | what makes it correct |
|---|---|---|---|---|---|
| bitmap | `lib/uefi/bitmap.c` | buffer, size in bytes | `bitmapGetVal`, `bitmapSetVal` | the bounds test lets one byte too many through | a call changes the bit it names and no other |
| page allocator | `kernel/uefi/mem.c` | bitmap, free/used/reserved counters, measured size | `readEFIMemoryMap`, `lockPages`, `freePages`, `ReservePages`, `requestPage` | overlapping ranges; counters against bits; the bitmap lives in the memory it describes; loops that may not end | no page has two owners; nothing the firmware or the bitmap occupies is handed out; counters and bits agree |
| page tables, `kmain` | `kernel/uefi/mem.c`, `kernel/uefi/kernel.c` | four-level tables, CR3, IDT page | `pageTableManagerMapMemory`, `kmain` | tables come from the pool being mapped; order of locks and requests; NULL from `requestPage` unchecked | identity mapping of all memory in use; tables are a tree of exclusive pages |
| interrupt set-up and dispatch | `kernel/uefi/idt.c`, `interrupts.c`, `io.c` | IDT, 8259 masks/requests/in-service, 8042 buffer | `prepareInterrupts`, `remapPIC`, `irqSetMask`, `irqClearMask`, `picSendEOI`, the two device handlers | devices raise requests at every step of set-up; polling leaves requests behind; wait loops give up | no interrupt without a handler; every interrupt ended; every byte read |
| mouse driver | `lib/uefi/mouse.c` | packet, cycle, ready flag, position | `PS2MouseInit`, `handlePS2Mouse`, `ProcessMousePacket` | the packet is shared between handler and main loop and rewritten in place; bytes dropped while it waits; unsigned position | each packet processed exactly once as captured; pointer on the screen |
| text console | `lib/uefi/fb.c` | cursor, wrap count, screen | `fb_putchar`, `fbClearChar`, `fbSetCursor`... | re-entered by the keyboard handler; wrapping and clearing | cursor and glyphs on screen; text not overprinted |
| keyboard driver | `lib/uefi/keycode.c` | shift states, prefix flag | `keyboardHandle` | state carried from one interrupt to the next | shift state is the key's; prefix and code stay paired |
| UEFI boot loader | `boot/uefi/gnu-efi/bootloader/uefi_main.c` | loaded segments, memory map and key | `LoadFile`, `LoadPSF1Font`, `InitializeGOP`, `efi_main` | unchecked results; a map key that goes stale; a retry loop whose allocation changes what it measures | kernel entered with all segments in place, in a map that reserves them; the loader itself never outdates the map |
| legacy boot sector | `boot/legacy/boot.asm` | directory count, sector, cluster, FAT sector buffer | directory search, FAT12 chain, `ReadSector`, `GetFATEntry` | 12-bit entries straddle sectors; reads retried for ever; a 16-bit offset that wraps | the loader is read whole, in chain order |
| legacy loader | `boot/legacy/loader.asm` | the same for the kernel; E820 buffer, memory size, page tables | `DetectMemory`, chain walk, `PrintMemInfo`, `SetupPaging`, `InitKernel` | fixed buffers, 32-bit sums, remainders, overlapping segments | all usable memory mapped to itself, all of the kernel in place before the jump |
| legacy interrupts and tasks | `kernel/legacy/kernel.asm`, `irq.asm`, `irq.c`, `kmain.c` | depth counter, `p_proc_ready`, `tss.sp0`, register frames, masks | `save`, `restart`, `hwint_master`, `sys_call`, `clock_handler` | handlers nest and switch stacks; a pointer past the table between two statements | a task goes on with its own frame, in its turn; no handler re-entered; calls answered |
| legacy console | `lib/legacy/fb.c` | software cursor, text memory, hardware cursor | `fb_putchar`, `fb_move_cursor` | every task and handler prints at once, and is interrupted between an increment and its wrap | the cursor comes back to the screen; the guard against a cursor outside does not trip |
| descriptor tables | `kernel/uefi/gdt.c`, `gdt.asm`, `kernel/legacy/dt.c` | constant tables | load | none | none worth checking |
| panic, exceptions | `kernel/uefi/kmisc.c`, `interrupts.c:1-49` | none | print and stop | none: nothing follows | none worth checking |
| printing, strings | `lib/*/printf.c`, `string.c`, `memop.c` | none | third-party formatter, loops | none here | out of scope |
| firmware library, build | `boot/uefi/gnu-efi`, `Makefile`, `scripts` | | vendored code, build rules | | out of scope |

Paths in this table are relative to `src/`. `PROJECT.json` lists the same
components with their status, and the hazards of each at the line where they
bite.

## Modules

| module | stands for | used by |
|---|---|---|
| `UefiLoader` | `efi_main` and boot services, up to the entry of the kernel | `UefiLoader_proofs` |
| `Bitmap` | the two accessors with their bounds test | `PageFrames` |
| `PageFrames` | the page allocator and its clients | `KernelBoot`, `KernelBoot_proofs` |
| `FramePool` | abstract: a pool that lends page frames | refined by `PageFrames` |
| `KernelBoot` | `kmain` up to its main loop, with the page tables; extends `PageFrames` | `KernelBoot_proofs` |
| `Interrupts` | `prepareInterrupts`, the 8259s, the 8042, both handlers | `Interrupts_proofs` |
| `StrayRequests` | abstract: requests whose byte something else has read | `Mouse`, `Keyboard`; refined by `Interrupts` |
| `Mouse` | `handlePS2Mouse` and `ProcessMousePacket` | `Mouse_proofs` |
| `PointerMailbox` | abstract: a one-place mailbox of packets | refined by `Mouse` |
| `Console` | `fb_putchar`, `fbClearChar`, and `kmain` printing | `Keyboard` |
| `Keyboard` | `keyboardHandle` under IRQ 1, echoing on `Console` | `Keyboard_proofs` |
| `Fat12` | the floppy's layout and the arithmetic of `ReadSector` and `GetFATEntry` | `LegacyLoader` |
| `LegacyLoader` | `boot.asm` and `loader.asm`, up to the entry of the kernel | `LegacyLoader_proofs` |
| `LegacyTasks` | `save`, `restart`, the handlers, `kmain` and the tasks | `LegacyTasks_proofs` |
| `RoundRobin` | abstract: tasks that take turns | refined by `LegacyTasks` |
| `LegacyConsole` | `fb_putchar` of the legacy kernel, under nested handlers | `LegacyConsole_proofs` |
| `MC...` | instances for TLC | |
| `..._proofs` | theorems | |

Operators whose comment begins with `Mutant:` are plausible slips of the
definition that follows; each shows that some property would notice.

### `UefiLoader`

`pc` is the call `efi_main` makes next; `FirmwareActs` may come between any two
of them, because events of the firmware run until boot services end, and takes
or releases any page the loader does not own. `memory` is the firmware's book
of owners; a memory map is a copy of it, with one descriptor per run of pages
of one owner, which is what `MapSize` counts. Of the map key only its validity
is kept (`current`). `content` says which segment of the kernel is in a page.

A block of the pool fits a page: it is a new page, or room in a page with
blocks. Segments start on page boundaries, as `uefi.ld` aligns them. Files are
read in full. `Kernel == NULL` and a failed block for program headers or font
are dereferenced by the code; `pc = "wild"` ends the model there. The block for
the file information is allocated and never used, so its failure changes
nothing; but `uefi_main.c:212` writes the information from the address of the
*pointer* on, over whatever locals of `efi_main` the compiler put there. The
model lets the loader go on or go wild after it (`ReadHeader`). The `ASSERT`s of the loader compile to nothing. A result that
the code ignores (`AllocatePages`, `AllocatePool` in the map loop,
`ExitBootServices`) is ignored in the model, and `refused`, `starved` and
`stirred` remember it for the properties. The map is the one that
`readEFIMemoryMap` of `PageFrames` reads later: `KernelReserved` here is what
makes `FirmwareNotInPool` there protect the kernel, its font and the map.

### `Bitmap`, `PageFrames`, `FramePool`

Addresses are page numbers, since the allocator divides every address by 4096
first. `bits` is a function on the bits the accessors can reach, which is one
byte more than the buffer has: the accessors return early only for
`byte_index > size`. `PGinitBitMap` zeroes the buffer and leaves the byte
behind it with arbitrary contents. Each loop of `lockPages`, `ReservePages` and
`freePages` is one step per page (`LockLoop`, `ReserveLoop`, `FreeLoop`), with
the call in progress in `loop`; `phase` and `desc` are the position of
`readEFIMemoryMap`. `_descAddMemSize` has no action for an unknown descriptor
type, because the code loops for ever on one. Page 0 and NULL are the same
pointer in the code, and are the same number here. The counters are kept as
unbounded integers and cut to the machine word where the getters read them,
which is what unsigned arithmetic computes.

`freePages` has no caller in the tree. Its precondition in the model is the
contract its accounting supposes: nobody frees a page of the bitmap or of the
firmware, because it debits `used_memory` for every page it frees. The second
call of `readEFIMemoryMap` returns at once and is not an action. Memory-mapped
I/O and pages no descriptor covers stay in the pool, as in the code. The last
bits of the bitmap stand for no memory at all and are handed out as well once
everything below is gone; `LiveMemoryMapped` says what follows from that.

`FramePool` forgets bitmap, counters and loops: frames are kept for good, lent
lowest first, given back. `ImplementsPool` is the refinement.

### `KernelBoot`

`kpc` is where `kmain` is, `t` its mapping loop's page, `level` and `table` the
walk of `pageTableManagerMapMemory` through `getNextPageTable`, `tables` the
memory of the frames that became tables. Each call of `requestPage` or
`lockPages` is the allocator's own action conjoined with `kmain`'s step, so that
the allocator's theorems carry over. Where `requestPage` returns
NULL, the code goes on with page 0; `kpc = "wild"` stands for whatever then
happens. `KernelPages` and `FbPages` are what the image and the frame buffer
really touch, in bytes, while the locked and mapped ranges are computed as the
code computes them. `Shifted` is the successive shifts of `initPageMapIndexer`:
what is left of a page's number after 0, 1, 2 or 3 levels selects the entry, and
after all four nothing may be left. `ReachAssumption` says so of the measured
memory and of the frame buffer: the firmware that reports them runs on
four-level tables that map every page onto itself. `LiveMemoryMapped` supposes
`BitmapFits`: the kernel puts the bitmap into the largest conventional segment
without asking whether there is room, and a machine on which there is not (a
large range of device memory with little RAM behind it) is among the instances.
`fbInit` and the GDT are left out: no other step of boot
reads them.

### `Interrupts`

`pc` runs through `prepareInterrupts`, then `"loop"`. `gates` are the lines
whose vector has a gate in the loaded table, `imr`, `irr`, `isr` the registers of both 8259s
as sets of lines, `full` and `from` the 8042's output buffer, `answers` what
the mouse still owes. Devices act at every step. ICW1 clears the requests; a
masked line's request is latched. `late` allows the mouse to answer after the
100000 polls of a wait loop have run out. `orphan` marks a request whose byte
was polled away. The configuration byte raises IRQ 1 like a byte of the
keyboard. Lines 0 and 8 stand for all other devices. Exceptions, spurious IRQ
7/15 and withdrawn requests are not modelled; the firmware is assumed to leave
the mouse silent until command `F4`, and the keyboard's interrupt enabled in the
8042, which the kernel never does (`mouse.c:64` adds the mouse's bit only).

### `StrayRequests`

A handler reads port 0x60 whatever it was called for. Once polling or the other
handler has read the byte of a request, its own handler reads the last byte over
again, or the next byte of the other device, whose request is then the one
without a byte. `Mouse` and `Keyboard` model one device each and take this small
machine for the other: `Settle` ends a stray request, `Pass` moves it to the
other device, and nothing makes a second one. `Interrupts` implements it from
`sti` on (`StraysNeverMultiply`).

### `Mouse`, `PointerMailbox`

The handler runs behind an interrupt gate and is one step. The main loop is one
statement on shared state per step, which the kernel's unoptimised build
justifies (the four tests of the first byte, from the test of the ready flag on,
are two steps: the handler writes nothing meanwhile); the handler may come between any two. `mousePosX` and `mousePosY`
are modulo `WordSize`. Five variables are history the properties need: `heard`
(the last bytes of the line), `captured` (the packet as completed), `settled`
(the position the last processed packet led to), `sent` and `lost`. `sent` may
start at 1, because the last `inb` of `PS2MouseInit` may swallow the first byte
of a packet. A stray request makes the handler take any of `StrayBytes`
(`StrayInterrupt`), the keyboard's may take a byte of the mouse (`StolenByte`),
and an acknowledgement later than the wait for it counts as a stray byte.

`PointerMailbox` is a mailbox that takes the last three bytes of the line when
it is empty and moves the pointer by exactly that packet when it is emptied.
`ImplementsMailbox` says that tearing, overwriting and double processing never
happen although nothing is locked.

### `Console`, `Keyboard`

Positions are pixels. The screen is `ink`: how many glyphs were drawn at a
place since it was cleared, capped at 2. `clear` is capped at 2 because it is
only compared with 1. Characters are classes (glyph, space, newline, return,
tab, backspace). `kmain`'s own `fb_putchar` is split where it touches shared
state: copy X, copy Y, work, store X, store Y; the handler's runs in one step.
Only the message of `kernel.c:77` is printed with interrupts enabled; it is
scaled down to a glyph and a newline, and so is the line printed for a prefixed
key. Both are constants of any length whose characters move forward (`Forward`):
what `kmain` and `keyboardHandle` print holds no backspace and no return.
`KeysAssumption` bounds the scan codes to those of a keyboard: make codes below
0x80 other than 0x60, whose break code would be the prefix. `held` is the state
of the left shift key itself, `prefixSent` says that the keyboard is between a
prefix and its code. Both may be true at the start: `PS2MouseInit` polls a byte
away after it has enabled the keyboard again (`mouse.c:79-81`), and that byte may
be the prefix. `StrayInterrupt` and `StolenByte` are as in `Mouse`. `unsure` says
that a byte was missed or misread and none of the keyboard's handled since,
`missed` that the left shift key has not moved since then. Glyphs of the mouse
pointer are not part of `ink`.

### `Fat12`, `LegacyLoader`

A sector's number stands for its data, so that a file in memory is the sequence
of sectors in the slots of its 64 KiB segment (`window`), and the page tables,
the kernel's cells and the addresses of the memory map are counted in pages or
cells. The table of the disk is packed into bytes and read back through two
sectors, as the code does, because that arithmetic is what can go wrong; the
rest of the disk is a function. The boot sector and the loader run the same
search and the same chain walk, each from its own variables: `prog` says which,
and the lines in `PROJECT.json` are the loader's unless only the boot sector has
them. `wrapped` remembers that a file ran over its segment, `usable` what the
BIOS reported; the programs keep neither.

A read that the drive cannot serve has no action: `.GoOnReading` repeats it for
ever. One that fails for other reasons succeeds in the end. `pc = "wild"` stands
for what follows a 26th record over the variables behind the buffer, a loader
that overwrote its own start, a list of no records (the loop of `PrintMemInfo`
counts down from 0), no memory to map, or no program headers. The slots of the
boot sector begin 0x100 bytes into their segment, so that its last one lies
across a boundary of 64 KiB that the BIOS refuses to cross: `Refused`, and the
read is repeated for ever. `InitKernel` supposes what `loader.asm` does not test:
that the kernel's segments lie apart from the window, the loader and the page
tables, and that what they name of the file lies within the window. Descriptors,
A20, the drive motor and all printing are left out.

### `LegacyTasks`, `RoundRobin`

`setup` is the call of `kmain` under way; then `stack` holds the handlers on the
kernel's stack, each with the place it is at, the exit `save` pushed for it and
the frame `esi` points to. Code with interrupts off is one step. `depth` is the
counter of the code, which the invariant relates to the stack. `pcb` are the
register frames of `proc_table`; `sp0` says whose frame the processor pushes
to next, and `cpu` is what runs. Of a task's registers its identity, its place
in its loop and what `eax` holds are kept, so that a frame resumed for the wrong
task or at the wrong place shows. The master's lines in use are a constant; the
slave's stay masked, and their handlers halt. A request made at or below the
line being served waits for the end of interrupt, which is given before the
handler runs. `p_proc_ready` may point behind the table (`PastEnd`) between two
statements of `clock_handler`.

`kmain.c:115` comments out the line that enables the clock, so that tasks B and
C never run; its comment says "enable clock IRQ". The set of lines that
`kmain` enables is therefore chosen at the start, with and without the clock.

`RoundRobin` knows only whose turn it is and where each task is in its loop.
`ImplementsRoundRobin` says that interrupts, nesting and the stacks are
invisible to it.

### `LegacyConsole`

One step is one access to the cursor, as the unoptimised build makes them, so
that the guard reads `x_pos` and `y_pos` in two, and a newline stores the row
and reads it again: `reg` is what a printer has read and not yet stored. A printer is a task or a
handler; `stack` holds the handlers, and any enabled line may interrupt at any
step, unless its handler is on the stack: that none nests within itself, that
the system call comes from a task alone and that tasks are switched only by the
outermost clock handler is what `LegacyTasks` shows. Only the place that is
written is kept of the text. A printer whose guard trips (`"bug"`) goes no
further: `fb_writer` prints a warning through `printf`, which comes to the same
guard again. The hardware cursor, `fb_print_color` and `fb_writer`, which have
cursors of their own, are left out.

## Runs and bounds

| run | shows | bounds |
|---|---|---|
| `uefi_loader` | kernel in place and reserved, map current, no write to memory of others, inductive invariant, end of the map loop | five pages of two bytes; memory empty and partly in use; a kernel of two segments (one with a part page, one with zeroed data) and one whose segments overlap; the firmware may act at every step. The premises `~refused`, `~starved` and `~stirred` except what the code does not handle |
| `pageframes` | counters, exclusivity, inductive invariant and refinement under any order of client calls | twelve memory maps: contiguous, with holes, degenerate, one with an unknown type; pages of a few bytes, bytes of 2 bits, so that a handful of pages needs a bitmap of several pages and its end falls before, on and behind a page boundary; ranges that cross owners, the end of the bitmap and beyond |
| `holes` | see below | maps with holes |
| `kernelboot` | page tables, order of locks, enough memory, end of boot | machines from no memory to plenty, with holes, the frame buffer above, inside and at the end of memory; tables of 3 entries, so 81 pages and several tables per level |
| `interrupts` | no stray interrupt, own byte, polling, no more requests without a byte, inductive invariant, service | all states the firmware may leave; both devices, two other lines |
| `mouse` | mailbox refinement, inductive invariant, framing, progress | screen 17 x 33, three bytes that cover both signs, overflow, bit 3 clear and set; a stray byte that looks like the first of a packet, as the acknowledgement does; word 65536 |
| `mouse_edges` | see below | the same |
| `keyboard` | cursor, overprinting, shift and prefix state | screen of two used columns and two used rows, so that every wrap happens within a few keys; one key of every kind, the fake shifts; a shift, a prefix and an acknowledgement as what is read twice; `kmain` prints one glyph, a prefixed key a glyph and a newline |
| `console_race` | see below | the same |
| `legacy_loader` | files whole, kernel in place, inductive invariant, end of boot | seven floppies with scattered and backward chains, a kernel that fills its segment, one that overruns it, a loader that comes to the slot the BIOS refuses, one with another end mark, no kernel, no loader; sectors of 4 bytes, so that every other entry straddles two; every list of reports up to one more than fits; 32-bit addresses of eight pages |
| `legacy_tasks` | inductive invariant, no re-entry, answers, refinement, keys read, all tasks run | three tasks, the second of which calls the kernel; clock, keyboard and a line that stays masked; clock enabled or not |
| `legacy_console` | inductive invariant; the guard trips only for three nested printers | a screen of two by two, two tasks, of which one calls the kernel; clock and keyboard, or keyboard alone |

The type invariants, the parts of the inductive invariants and the properties
they imply are checked as parts of `IInv`, `MappingInv`, `TablesSafe`,
`MouseInv`, `DriverInv`, `ControllersInv`, `LoaderInv`, `LegacyInv`, `TaskInv`
and `ConsoleInv`.

What matters to the bounds: the allocator's arithmetic changes only at byte
and page boundaries and at the end of the map, and all three are crossed; the
page tables need two tables at each level; the mouse's states are a packet's
three bytes against the nine positions of `ProcessMousePacket`; the console's
are the wrap of a row, of a page, and of the second page; five pages let the
loader run out of memory at each of its allocations, and let the map grow a
descriptor at each turn of its loop. In the legacy boot, entries of both
parities lie within a sector and across two; three lines are enough for every
nesting of a higher line over a lower and of both over a system call; four
printers (task, system call, keyboard, clock) nest in the console.

Deadlock is checked except in `kernelboot`, whose model ends in
the main loop, in `wild` or on an unknown descriptor, `pageframes`, where the
unknown descriptor stops the kernel, `uefi_loader`, which ends with the
kernel entered, the loader aborted or in `wild`, `legacy_loader`, which ends
in the same ways or at a message, and `legacy_console`, where the tripped guard
recurses and never comes back.

## Fairness

- `UefiLoader`: weak fairness of `efi_main`: every call of the firmware returns.
  The firmware is not obliged to do anything of its own, and may at every turn.
- `KernelBoot`: weak fairness of the code's own steps. With
  interrupts off there is one thread, and nothing can keep it from its next
  statement.
- `Mouse`: weak fairness of `ProcessMousePacket`. The main loop is never left
  and every handler returns to it. The mouse is not obliged to send.
- `Interrupts`: weak fairness of the processor, and of a device that has been
  asked for an answer. Interrupts are not obliged to come.
- `LegacyLoader`: weak fairness of the boot: a readable sector is read in the
  end, and the list of the BIOS has a last report.
- `LegacyTasks`: weak fairness of the processor; strong fairness of a handler
  other than the clock's, since the clock may interrupt it at every step, but
  ticks are apart. `KeyRead` supposes that the clock is not at every moment
  waiting or served, `AllTasksRun` that it ticks infinitely often while a task
  runs; both premises are part of the property.
- `PageFrames`, `Keyboard`, `LegacyConsole`: safety only.

## Proofs

All proofs hold for every value of the constants that satisfies the named
assumptions (`KernelsAssumption`, `PageBytesAssumption`, `MemoryMapsAssumption`,
`GeometryAssumption`, `TasksAssumption`, `ScreenAssumption`...), each as weak
as the code allows.

`UefiLoader_proofs`. `LoaderInv` adds to the types: the segments loaded so far
are in pages of the image and hold what was read, and the pages of the one being
loaded are none of theirs (`Loading`); the map's buffer is the loader's from its
allocation on (`Fetching`); the key is that of the map until the firmware acts
(`Leaving`). `PageOfByte` is the arithmetic: rounding the size up to pages
leaves room for each byte, without which a part page at the end of a segment
would be lost. One lemma per kind of action, then `LoaderInvariance`,
`KernelIsInPlace`, `KernelIsReserved` and `MapIsCurrent`.

`KernelBoot_proofs`, the allocator. The safety properties are not inductive.
`IInv` adds four things to them: `Stages` (what phase, loop and size say of each
other), `FreesOnlyClients`, `BitmapLeaving` and `FirmwareLeaving` (a page of the
bitmap or of a visited descriptor has left the pool *or* lies in the rest of the
loop in progress), and `Ledger` (the free counter plus the number of set bits
differs from the measured size by at most the arbitrary byte behind the
buffer). Lemmas give the effect of one `_LockPage`, `_ReservePage`, `_FreePage`
on bits, counters and cardinalities; one lemma per action follows; then
`Invariance`, and from it `TypeCorrect`, `Conserved`, `Exclusive`,
`FirmwareSafe`, `BitmapSafe`, `CounterFollowsBits`, `PoolCounted`, and
`Refinement`, in which each step maps to a step of `FramePool` or a stutter.
`free_memory` is *not* the number of clear bits of the measured memory:
`CounterFollowsBits` says exactly that it moves with the bits, step by step, and
`PoolCounted` in what window it stays of what `requestPage` can still deliver.

`KernelBoot_proofs`, `kmain`. By its definition every step of `kmain` is a step
of `PageFrames` or leaves it alone, so what is proved of the allocator holds
during boot (`BootPagesExclusive`). For the page tables `BootInv` adds

- `TreeInv`: each table has a level and a prefix, the upper part of the page
  numbers whose walk comes through it. No two tables have the same; an entry
  leads to the table of the next level with one more digit, and in the last level
  to the page whose digits the walk has used up (`IsTree`); every prefix is that
  of a page to be mapped (`Wanted`); `getNextPageTable` is at the table of the
  current page (`AtTable`). The labels are not in the program: the invariant says
  that some exist, and `RootTree`, `GrownTree`, `LeafTree` find the next ones.
- `PageInv`: the pages taken are `kmain`'s, none of the kernel's, and all below
  every page still to be had, because `requestPage` takes the first.
- `DoneInv`: the pages the loop has been at are mapped. Tables only grow
  (`Grows`), so what is mapped stays mapped (`GrowingWalk`).
- `FullInv`, for the end in `wild`, and `StageInv`, how far `kmain` is.

`WalkTree` then gives `MappingCorrect`: a walk ends at its own page or nowhere.
`LinksOfTree` counts the entries that lead to tables, and `TablesAreSafe`
follows. Different tables have different prefixes, and at the end each prefix
has its table, which counts them (`WithinBudget`, `MappingIsFrugal`). `FirstFit`
counts as well: were one page taken above a bound, all those of the pool below
it would be taken too, and be as many as all tables and the IDT together. It
keeps the tables off the frame buffer and within mapped memory
(`LiveMemoryStays`).

`Keyboard_proofs`. `Good` says of a screen that the cursor lies on the grid that
`fb_putchar` prints on, with room for a glyph, and that the glyphs are whole. The
screen in front of the user is always `Good`, and `kmain`'s copies of the cursor
are on the grid as well, wherever the handler comes in between (`ConsoleInv`,
`CursorStaysOnScreen`). `Fresh` says where glyphs may be: until the screen has
wrapped twice nothing is overprinted and the cursor's row is blank ahead of it;
in the first pass the rows below are blank too. As long as no handler has come
in between, `kmain` works on a true copy of the cursor, and the screen is `Fresh`
for the cursor its stores will leave (`UnracedInv`, `Pending`);
`NothingOverprinted` follows. That theorem is stated for screens a whole number
of glyphs wide. On others it is false: rows then wrap a few pixels short of the
edge, and a backspace from the start of a row, which goes back to `Width - 8`,
leaves the cursor on another grid, from which typing wraps into a row that still
holds glyphs. `DriverFollowsKeyboard` says what is left of driver and keyboard
agreeing when bytes are polled away, stolen or read twice. A byte that the
keyboard sends and the driver handles puts the prefix right whatever either of
them had before: a prefix sets it on both sides, every other byte clears it on
both. After that a code of the left shift key is seen as one. Hence the two
stages `unsure` and `missed`, of which the first implies the second.

`Mouse_proofs`. `MouseInv` says at each statement of `ProcessMousePacket` which
part of its work is done on the captured packet, and that no handler writes the
packet between completion and release. `MouseInvariance` is by cases on the
actions; `OnScreenAlways`, `Framed` and `MailboxRefinement` follow. Stray and
stolen bytes cost the framing and nothing else: the mailbox takes the last three
bytes that were read, whoever sent them.

`Interrupts_proofs`. `ControllersInv` adds what makes the three properties
inductive: what has been set up by each place (`Prepared`), what is in service
at each place of a handler (`InService`), that a request that is no orphan has
its byte (`Owned`), and how far the conversation with 8042 and mouse has come
(`Conversation`), and that from the first command to the mouse on a byte in the
buffer has a request that is pending or served (`Backed`). Each action has a
step, and under it one for each of the parts. `StraysBounded` is by cases on what
is in the buffer when a handler reads it.

`LegacyTasks_proofs`. The heart of `TaskInv` is `Nesting` (the counter is the
depth of the stack, the outermost handler and no other ends in `restart`, only
the innermost can be unmasked) and `Masking` (a line is masked exactly while its
handler is on the stack, which gives `NoReentry`). `OwnFrames` relates
`p_proc_ready`, `tss.sp0` and the frames: they differ only between
`clock_handler` and the return of the outermost handler. `TasksTakeTurns`, the
refinement, maps the step of `p_proc_ready` to the switch, reading a pointer
behind the table as the first task, and every other step of a handler to a
stutter.

`LegacyLoader_proofs`. First the arithmetic: `SectorsInPlace` and
`EntryReadBack` show for every geometry that the right sector is read and the
right entry found, on both sides of a sector border. With them `LegacyInv` is
inductive: the slots up to `bx` hold the chain so far, which the cluster in `ax`
continues (`ChainSoFar`), the directory entries passed over are not the file's
(`Searched`). `FilesArriveWhole`, `MemorySizedAlways` and `MemoryMappedAlways`
follow, and `KernelArrivesWhole`, for which the loop over the program headers
keeps that each cell written so far is that of the last segment over it.

`LegacyConsole_proofs`. `OneBeyondEach` is inductive only together with what
holds at each statement of the printer that runs (`Where`) and of what
interrupted printers have read and will store (`Kept`), each relative to the
number of printers that are in the middle of a character below it. A handler
that leaves has brought the cursor back to the screen, so that one more place
per waiting printer is the most. `GuardTripsOnlyNested` follows: the guard needs
two places beyond, thus two waiting printers.

Recursive functions (`Measured`, `printf`) are reasoned about through
`SetInduction`: a set of naturals that holds 0 and with each number the next
holds them all, which the pigeonhole principle for finite sets gives without an
induction theorem.

Every invariant and every refinement the runs check is thus a theorem.
Only model-checked are the liveness properties: `BootEnds`, `PacketProcessed`,
`ByteServed`, `LoaderEnds`, `KeyRead`, `AllTasksRun` and `BootEndsSomewhere`.

## Where code and comments disagree

Each of these is a run that TLC ends with a counterexample; `PROJECT.json`
quotes the lines.

- `holes`: measured memory is a sum of sizes, so holes leave the highest
  memory untracked, though the comment says they do not.
- `mouse_edges`: the clamp at zero tests an unsigned value; the pointer leaves
  at the left edge and comes back at the right.
- `console_race`: a key echoed while `kmain` is inside `fb_putchar` is
  overprinted.

Also seen, without a run:

- The bounds test of the bitmap accessors admits the byte behind the buffer
  (`bitmap.c:27`, against `bitmap.c:15`), and a firmware segment just past the
  tracked pages sets bits there. The byte lies in the bitmap's last locked page
  (`BitmapNotInPool` covers it), so nothing else is damaged.
- The bitmap goes to the start of the largest conventional segment, whose length
  is not compared with the bitmap's (`mem.c:194`): with much device memory and
  little RAM it reaches past the segment, into what its own bits then protect,
  and past the memory that is mapped.
- Press and release of the right shift key both store false (`keycode.c:107`),
  so that the right half of `lshift | rshift` (`keycode.c:126`) never counts.
- Rows are cleared before printing on the second page only, because a counter is
  compared with 1 (`fb.c:156`, against `fb.c:106`).
- Rows wrap at `Width - 8` but a backspace goes back to `Width - 8`, so it
  erases an empty place instead of the last glyph of the row (`fb.c:138`,
  `fb.c:181`); `fb.c:98` itself says that the implementation seems to have bugs.
- The boot loader reports a kernel of a bad format and loads it all the same
  (`uefi_main.c:220`), and does not zero the part of a segment that is not in
  the file (`uefi_main.c:264`); the legacy loader does not either
  (`loader.asm:400`).
- Legacy `kmain.c:111` says "enable clock IRQ" and `kmain.c:115` has the call
  commented out; `irq.c:34` says "clock only" of a mask that disables all lines.
- Legacy `fb.c:31` says of its guard "This Shouldn't happen (BUG)". With the
  clock enabled it does: a handler in the middle of a character of a handler in
  the middle of a character of a task finds the cursor two places beyond the
  screen. `TripsOnlyNested` says that it takes no less, so that it never
  happens with the keyboard as the only line.
- In the legacy boot, `0xFFF` alone ends a file, although FAT12 has eight such
  marks; a memory map of one report is taken for a failure (`loader.asm:303`);
  a list of no usable records, no memory, or no program headers sends a loop
  below zero; directory entries beyond the tables in use are never cleared.

## Limits

Liveness under fairness and `ENABLED` are out of the prover's reach.
Cache and TLB effects, exceptions, spurious interrupts, timing other than
"a wait loop may run out", pixels below glyph size, colours, the hardware cursor
and the wording of messages are not modelled.  Most of the tree is code that is
carried along: GNU-EFI (its headers, its library and the runtime of its loader),
the third-party formatter, fonts and images. It is used through a handful of
calls, which `UefiLoader` models as the firmware's, and is not modelled itself;
what remains without a model of bbnOS's own code is constant tables, panic
screens and one-line string loops. Undefined or wild continuations (page 0 used as a
table) end the model.

## Plan

1. Done: both boot loaders, the allocator and the page tables, interrupts of
   both kernels, mouse, keyboard, both consoles, the tasks; proofs of all
   invariants and refinements.
2. `Handover`: `UefiLoader` composed with `PageFrames` through the memory map,
   so that one theorem says of the machine that no page of the kernel image, the
   font or the map is ever handed out.
3. The hardware cursor of the legacy console, whose index and data writes are
   interleaved by nested handlers; `LegacyConsole` composed with `LegacyTasks`,
   instead of taking over what that shows of nesting.
