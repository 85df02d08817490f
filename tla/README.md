# A TLA+ verification of viceOS

viceOS is a small x86-64 kernel in Rust (`src/kernel/src`), booted by a
Multiboot2 loader on one processor. This directory holds TLA+ models of its
parts, TLC configurations that check them on small instances, and TLAPS proofs
for all instances, about every part that is modelled. `PROJECT.json` lists
components, runs, mutants, the correspondence of definitions and source lines,
findings, hazards and theorems.

## 1. The system

| component | source | state | operations |
|---|---|---|---|
| frame allocator | `mem/phys.rs` | `FRAME_ALLOCATOR`: bitmap, search hint, high-water mark, free counter, under a spin lock | `init`, `alloc_frame(s)`, `free_frame(s)`, `stats` |
| page tables | `arch/x86_64/paging.rs` | `KPML4`, `KPDPT`, `KPD[4]` in the kernel image, further tables in allocated frames; the TLB | `init`, `map_page`, `unmap_page`, `translate` |
| kernel heap | `mem/heap.rs` | `heap_end` and the inner `linked_list_allocator`, each under a spin lock | `init`, `alloc` (with `try_extend`), `dealloc` |
| keyboard | `drivers/keyboard.rs` | `KEYBOARD_BUF`, `MODIFIERS`, `EXTENDED_KEY`, each under a spin lock | `handle_interrupt`; `read_key`, `read_char`, `get_char` |
| interrupts | `arch/x86_64/idt.rs`, `arch/x86_64/mod.rs`, `arch/mod.rs` | IDT, the 8259A pair, the interrupt flag, `TIMER_TICKS` | gates, IRQ and exception handlers, end of interrupt |
| boot information | `bootinfo.rs` | `MEMORY_MAP_BUFFER`, `MEMORY_MAP_COUNT`, frame buffer | the walk over the tags |
| memory statistics | `mem/mod.rs` | `MEMORY_STATS` | `parse_mem_map`, `init` |
| process manager | `proc/manager.rs` | processes, pid bitmap | `create_process`, `get_process` |
| entry, panic | `lib.rs` | | `_start64`, `kernel_main`, `panic`, `alloc_error_handler` |
| logging, serial port | `logging.rs`, `arch/x86_64/serial.rs` | the log level, `SERIAL` under a spin lock, the registers of COM1 | `log`, `init` with a loopback self-test, `write_string`, `read_byte` |
| screen | `drivers/screen.rs` | `SCREEN` under a spin lock, a back buffer in the heap | `init`, `write`, `sync` |
| segments | `arch/x86_64/gdt.rs` | GDT, TSS, the stacks it names; the segment and task registers | `init`, and what the processor reads on an interrupt |
| boot stub | `asm/boot_stub.asm` | the descriptor table, segments and stack it leaves | straight-line code |
| APIC, region constants, thread types | `apic.rs`, `mem/virt.rs`, `proc/*` | none in use | |

How they interact. The boot information feeds the statistics and the frame
allocator. The heap takes frames from the allocator and passes them to
`map_page`, which takes further frames for tables; tables, frames and heap all
lie in the same physical memory. Everything logs, and so takes `SERIAL`. The
main flow (boot, then a drawing loop) is interrupted by the timer and the
keyboard, whose handlers log and allocate, i.e. take the locks the interrupted
code may hold.

What is hard here: interrupts at any instruction meeting spin locks; the order
of initialisation, with interrupts on before the heap exists; failure half way
through `map_page` and `try_extend`; counters and hints kept incrementally next
to the bitmap they describe; the huge pages of the identity mapping, which
`map_page` does not know; translations cached by the processor; a keyboard
protocol with prefixes and invented modifiers; walks by offset and size; a
device that transmits at its own speed; assembly, Rust types and the processor
having to agree on the layout of a stack frame.
`hazards` in `PROJECT.json` gives each with its line and the properties on it.

What makes each part correct:

* frames: no page is handed out twice; the counter is the number of clear bits;
  every free page is found;
* page tables: `map_page` changes one page, a failed one none, no frame leaks,
  the TLB shows what the tables say;
* heap: range, mapped pages and frames agree; the cap holds; a block's memory is
  its user's; `alloc` returns;
* keyboard: an event has the modifiers of the moment its key was struck; no
  modifier sticks; the buffer is a queue; every byte is handled;
* interrupts: no code path waits for itself; handlers do not nest; every
  interrupt is answered; the kernel starts and keeps running;
* boot information: the map is that of the last tag, and the statistics cover
  what the frame allocator hands out;
* processes: no pid twice, none forgotten;
* screen: `sync` writes inside the frame buffer and covers it;
* serial port and log: every line reaches the far end whole and in order, input
  is what the far end sent, lines end;
* segments and entry code: every vector ends in its handler, on the stack meant
  for it, and returns to exactly what it interrupted;
* entry: a machine with what the kernel needs ends up drawing, any other in a
  panic.

## 2. Modules

```
Frames ─┬─ FrameAllocator ──(refines)── FramePool
        ├─ FrameLoops                (literal loops = closed forms)
        ├─ PageTables ─┬─ Paging ──(refines)── AddressSpace
        │              └─ Heap
        └─ BootInfo ─┐
Screen ──────────────┼─ Kernel
ProcessManager ──────┘
KeyTables ── Keyboard      Uart ── Serial      Interrupts      Segments

FramesProofs ─┬─ FrameAllocatorProofs
              ├─ PagingProofs
              ├─ HeapProofs
              └─ KernelProofs
KeyboardProofs     InterruptsProofs     SerialProofs
```

A module `XProofs` extends `X`. `FramesProofs` holds lemmas about the operators of
`Frames` and `PageTables`, which the others cite. `KernelProofs` also extends
`Segments` and holds the theorems about it.

**Frames** has the methods of `struct FrameAllocator` as operators from an
allocator value and arguments to the value they leave and their answer. It is
shared: `FrameAllocator`, `Paging`, `Heap` and `BootInfo` apply these operators
to their own variable. A set bit is `TRUE`. Loops over pages appear in closed
form. Addresses wrap modulo `U64`, as in the release build.

**FrameLoops** runs the loops of `phys.rs` one iteration per step and compares
the outcome with `Frames`. A behaviour is one call.

**FrameAllocator** is the static with the functions around it. Each function
holds the lock throughout and is one action. Callers may pass anything. `held`,
`answer`, `singly` (no run was taken so far) and `tidy` (nobody has freed what
he does not hold so far) are history variables. **FramePool** is what an
allocator promises, with a pool and a set of held frames only; it promises
nothing once a caller has broken the rules.

**PageTables** has `paging.rs` as operators on memory (frames of `E` words, a
word read as an entry) and an allocator value. The four levels are kept, a table
has `E` entries instead of 512, and the identity mapping has `G` directories
instead of 4. Tables are ordinary frames, so that an entry written through a huge
page lands in the memory it maps, as on the machine. **Paging** is the state
machine: initialisation, a client that takes frames, writes into them, maps,
unmaps and returns them, and a processor that caches any translation at any time.
`map_page` and `unmap_page` are split at every write to a table, because the page
walker sees each: a level follows its entry (`Follow`), links a new table
(`LinkTable`) and zeroes it afterwards (`ZeroTheTable`), or fails (`NoFrame`);
then come the entry of the page (`WritePageEntry`) and `invlpg` (`Flush`). `raw` is
the table that is linked and not zeroed yet, and `wild` remembers what the walker
read from such a table. The client maps anywhere, the identity mapping included,
and the memory map may offer any frame, those of the kernel's tables included.
Both can overwrite a table: the client fills a frame that is one, or an entry is
written through a huge page whose first frame is one. `intact` is true until then,
and after it the machine is not modelled. **AddressSpace** is a function from
addresses to translations, which may be lost for good (`Lose`). In `Heap` the call
is the one operator `map_page`: the heap lies in the identity mapping, where no
table is made.

**Heap** composes `Frames` and `PageTables` below `AutoExtendHeap`. Two contexts
allocate: the main flow and an interrupt handler, which may interrupt between any
two actions and runs to its end. `try_extend` is split at its lock, at each round
of its loop and at its end. An attempt at the inner allocator is one action;
that a handler may meet its lock is in `Interrupts`.

**KeyTables** has the scan code and character tables in full, **Keyboard** the
keyboard, the wire, the interrupt handler and a reader. What the keyboard sends
is external (scan code set 1, with PrintScreen and Pause). A byte on the wire and
an event in the buffer carry the keys that were down when the byte was sent, for
the properties; the driver does not see them.

**Interrupts** has a stack of contexts of which the top runs, each with the list
of operations still to do: locks, unlocks, instructions, calls. A call is
replaced by one of the ways it can go. All locks of the kernel are there, in the
order the code takes them. What happens to the data under a lock is left to the
other modules.

**BootInfo** walks the tags by offset, fills the buffer, then runs
`parse_mem_map` and `FrameAllocator::init` on the result. A tag carries the
offset at which the loader put it; `LaidOut` is what Multiboot2 says of these
offsets, and `InfosAssumption` that the loader obeys it. The walk computes its
own offsets and reads whatever tag lies there. **Screen** has the sizes of back
buffer, pixmap and frame buffer, **ProcessManager** the pid bitmap. **Kernel**
composes the three along `_start64` and `kernel_main`: one frame allocator feeds
one heap, the heap feeds the screen's buffer, the processes and the drawing loop,
and everything that can fail ends in the panic handler. The heap is its size and
the bytes in use, because this flow returns nothing but what a round of drawing
took. It lies at `HEAP_START` in physical memory, through the identity mapping,
whatever frames were taken for it; where the boot loader vouches for no memory
there, anything may happen (`Astray`). `ProcessCounts` and `DataLens` stand for
more processes and for the writers of the screen the kernel has an interface for
and no code yet; the kernel's own flow is the case of one process and no writer.

**Uart** is the 16550 as the driver meets it: divisor latch, FIFOs, shift
register, loopback. It is external. **Serial** runs the driver, the logger and a
handler that logs against it, one register access per step, with the port
transmitting and the far end sending at any time in between. The main flow and
the handler are programs, sequences of operations (`Main`, `Irq`), and `at` has
the position of each. A line takes the lock (`LogLine`), goes out byte by byte
(`write_byte`) and gives the lock back (`LogEnd`). `lost` collects the bytes of
early lines that `serial::init` clears from the FIFO, and those that are shifted
out after a change of speed or format or into the loopback.

**Segments** has the bytes and fields of GDT, TSS and IDT as `gdt.rs` and
`idt.rs` build them, and a processor that decodes them again: an address is split
into the digits of a descriptor on one side and put together on the other. The
radix of a digit is a constant, and `next` is the position of the main flow in
`arch_init`. The entry code (`push_regs!`, the inner functions, `pop_regs!`,
`iretq`) runs on a memory of stack words. `StackInUse` is the stack handlers are
on, of which the boot stub's has `BOOT_STACK_LEN` bytes below what the main flow
uses. Events arrive at any instruction, before, during and after the set-up.
`EnterUser` starts a program in ring 3, for which the kernel has segments and a
gate and no code yet. `Segments` knows no PIC priorities and no locks;
`Interrupts` knows no tables and no registers.

The `MC*` modules hold the values of constants for TLC. Definitions whose
comment says *Mutant* are plausible mistakes; with one of them in place of the
definition it varies, TLC refutes the property `PROJECT.json` pairs it with.

## 3. Runs

| run | distinct states | what it shows |
|---|---|---|
| `frames` | 19 924 | Whatever callers pass: `CountMatchesBitmap`, `SearchCoversFree`, `AllocSucceedsWhileFree`, and `NoFreeBelowHint` until the first `alloc_frames`. Until a caller frees what it does not hold: `PoolSpec` (the allocator implements `FramePool`), `UsedDoesNotUnderflow`. |
| `frame_loops` | 25 000 | `ClosedFormsAgree`. |
| `paging` | 237 646 | Until a table is overwritten: `FramesAccounted`, `MapPageMaps`, `TlbCoherent`, `SpaceSpec` (the tables implement `AddressSpace`). |
| `heap` | 26 911 | `HeapMatchesFrames`, `CapRespected`, `LiveDataIntact`, `RetryFailsWithReason`, `AllocReturns`. |
| `keyboard` | 257 388 | `TypedAsStruck`, `NoStuckModifier`, `BufferIsQueue`, `BytesAreHandled`; `EveryKeyHasOneCode` for every key of the tables. |
| `interrupts` | 971 928 | `NoSelfDeadlock`, `PicDrained` (with handlers that do not nest), `HandlerReturns`, `KernelRuns`. |
| `kernel` | 50 278 | `MapIsLastTag`, `StatsCoverFrames`, `PidsAccounted`, `SyncCoversScreen`, `BootOutcome`. |
| `serial` | 56 623 | `LinesIntact`, `InitLosesTwoBytes`, `InputIsTheirs`, `LinesEnd`. |
| `segments` | 79 912 | `HandledAfterSetup`, `FramesInStacks`, `ReportIsTrue`, `Resumes`. |
| `frames_no_map` | violation | See finding 1. |
| `heap_clobber` | violation | See finding 2. |
| `serial_self_test` | violation | See finding 3. |

### Bounds

* Frames: five pages of two units, all addresses up to one page past the end,
  counts 0 to 3, and maps that are empty, unaligned, overlapping, too long or
  wrapping. Five pages leave room for a run on either side of a hole. The proofs
  remove these bounds. The loops run on every well-formed value of four pages.
* Paging: three entries a table, one directory: the least with an entry in the
  first, last and another place of the root. Five frames, of which the client
  holds at most `MaxHeld` = 2, run out within `map_page` at each of the three
  levels; the last of them is the kernel's page directory. One huge page of the
  identity mapping begins with an ordinary frame, another with the root table.
  Words of unused RAM may look like entries, and so may what the client writes.
* Heap: 18 frames, an initial heap of one huge page (three frames), a cap of
  eight frames, which cuts the second extension short. One memory map allows the
  largest heap, the other runs out during the second extension.
  `MaxLive` = 3 blocks, `MaxIrqs` = 2 handlers.
* Keyboard: a buffer of two events, which overflows at once, and up to six bytes
  on the wire, as many as the longest sequence (Pause) has.
* Interrupts: the timer, the keyboard and the last line of each controller;
  `MaxIrqs` = 2 requests, one exception, one system call. Two requests suffice
  for one interrupt to arrive while another is handled. `LOG_EVERY` = 2 makes the
  timer's handler log and not log.
* Kernel: all sequences of up to three of ten tags, a buffer of two map entries,
  so that a map of three does not fit, and ten pages of two bytes with a heap
  that may grow to eight, at `HEAP_START`. Some maps have memory there and others
  have as many frames elsewhere. That is enough to lack frames for the initial
  heap, for the back buffer, or for a process, and to meet the cap. A pid bitmap
  of three words of two bits and one or six processes, one more than there are
  pids.
* Serial: FIFOs of two bytes, five lines of the main flow, one of them above the
  level, `MaxIrqs` = 2 handlers of a line each, two bytes of input, `Level` = 4.
  A FIFO of one byte would hide the difference between "empty" and "has room".
* Segments: digits of radix 4 instead of 256 and addresses whose digits all
  differ, stacks of 1024 bytes, which hold five entries, one layout with an
  unaligned kernel stack and one with an unaligned exception stack; `MaxEvents` =
  3, which lets an interrupt come into a system call and an exception into that.

Deadlock is checked except where the program ends: one call (`FrameLoops`), and
a machine that was reset or halts in an exception's handler (`Segments`).
Waiting for a lock and being halted are stuttering actions of their own
elsewhere (`Spin`, `Idle`, `Halted`).

### Fairness

* `Kernel`: weak fairness of `MainFlow`. Sequential code that runs; the other users
  of the screen need not do anything.
* `Serial`: weak fairness of `Step`, the processor, and of `Device`, the port's
  transmitter. The far end need not send and interrupts need not come. A
  context that spins has no step.
* `Heap`: weak fairness of each context's steps; a handler always ends before the
  main flow goes on, and `MaxIrqs` bounds the handlers. An attempt to take a lock
  that is held is a step that changes nothing, so that fairness does not free it.
* `Interrupts`: weak fairness of `Step`, the processor running the context on
  top. Devices need not raise anything.
* `Keyboard`: a pending interrupt is delivered and the reader runs. The reader of
  the kernel runs with interrupts on.

Liveness is stated up to what the code cannot exclude: `Wedged`, a handler
spinning on a lock of the context it interrupted, and a panic or halt. Both are
reachable in the models. So `HandlerReturns` says that nothing *else* keeps a
handler from returning, not that the kernel never hangs. `LinesEnd` names the
same two cases: a handler's line inside another line, and the self-test.
`BytesAreHandled` says that the handler runs again and again unless from some time
on the wire is empty or the handler waits for a reader it interrupted.
`KernelRuns` speaks of causes instead: the kernel goes round its loop for ever
unless an exception happened, frames, heap or self-test fell short
(`used.short`), or an interrupt was delivered while a lock its handler takes was
held, or a key before `heap::init` (`used.clash`). An interrupt at any other moment
cannot hang it.

## 4. Findings

1. `phys.rs:46-50`. Without a memory map "we have to assume all memory is
   available", but all bits of the bitmap stay set: the counter says `MAX_PAGES`
   and no page can be allocated. `mem/mod.rs:77-80` says that its fallback "allows
   the kernel to function even without a memory map"; it sets the statistics only,
   and `heap::init` panics. `BootOutcome` has such a machine among those that panic.
2. `heap.rs:89`. The heap lies inside the identity mapping. `map_page` takes the
   huge page for a page table and writes its entry into the first frame of that
   huge page. An extension that begins at a huge page writes into memory of its
   own; one that does not (a request that is not a multiple of 2 MiB, or an
   extension that stopped early) overwrites allocated blocks. The run `heap` uses
   layouts for which every extension begins at a huge page, which is the
   condition `LiveDataIntact` needs.
3. `serial.rs:58`. "Panics if the loopback self-test fails": `serial::init` runs
   the test with `SERIAL` locked, and the panic handler's log line waits for it.
   `Serial` shows how the test fails on a port that works: the byte is read back
   before it has gone through the shift register, or behind a byte the far end
   sent after the FIFOs were reset.

Seen while modelling, and not runs of their own:

* `alloc_contiguous` searches from the hint only, so that `None` does not mean
  "No contiguous block of free pages found" (`phys.rs:178`). `FramePool`
  therefore lets a request for a run be refused at any time.
* For a count above `total_pages` and not above `free_pages` (only without a
  memory map) `phys.rs:159` subtracts below zero, and in a release build the loop
  runs past the bitmap. The models do not make that call, and no code does.
* `init` frees every page the map calls available; a loader usually reports the
  memory the kernel was loaded into as such, and `bootinfo.rs:160-166` makes no
  entry of type `Kernel`. `Paging` has such a map: the frames of the tables are
  handed out, and all is well until someone writes into one.
* `map_page` makes a new table present before it zeroes it (`paging.rs:216-220`,
  `229-233`, `242-246`). In between the page walker can read the words the frame
  held as entries and cache them, for addresses nobody mapped. `TlbCoherent` says
  that this is the only stale translation, and that it goes when the address is
  mapped.
* The heap lies at `HEAP_START` (`heap.rs:7`) whatever frames the allocator gave:
  a machine with enough frames and no memory at 32 MiB passes every check of
  `heap::init` (`BootOutcome` is about machines whose heap lies in memory).
* Inside the identity mapping `map_page` answers `Ok` and maps nothing
  (`paging.rs:207`, "Map virt -> phys"). `MapPageMaps` is about the rest.
* `try_extend` may extend by less than `min_bytes` (`heap.rs:56`, "at least"),
  because of the cap or a lack of frames, and still answers true.
* `read_key` returns `None` at once (`keyboard.rs:693`, "blocking").
* `idt.rs:13-14` has interrupt and trap gates the wrong way round; the code uses
  them as the processor does.
* Two root entries share `KPDPT`; `invlpg` of one address leaves its second
  address cached. `TlbCoherent` excludes these addresses.
* Releasing one of two shift keys clears the flag while the other is down.
  `TypedAsStruck` claims the flag only where one key of a pair is in use.
* Without a frame buffer tag the kernel assumes text mode with 16 bits a pixel
  and `PixmapMut::from_bytes(..).unwrap()` panics (`lib.rs`); so does every frame
  buffer that has not 32 bits a pixel. `BootOutcome` has it as a requirement.
* `sync` copies rows without padding to a frame buffer that may have it
  (`screen.rs:81-89`), which shears the picture. It stays inside the buffer.
* `kernel_main` keeps `SCREEN` locked for ever, so that `screen::write` and
  `screen::sync` never return afterwards.
* `serial::init` does not wait for the transmitter. It may throw away the byte of
  an earlier line in the FIFO and spoil the one being shifted; two bytes are lost
  at most (`InitLosesTwoBytes`).
* The stack pointers in the TSS are addresses of last bytes. The processor aligns
  them down, so that every byte of a frame lies inside (`FramesInStacks`).
* Handlers with an error code `call` their inner function with the stack 8 off
  the alignment `boot_stub.asm:168` calls required. The target has no SSE, so
  that no instruction depends on it; the model has no alignment.
* The boot stub says it maps 4 GB and maps 1 GB; `paging::init` replaces it.
* `apic.rs`, which nothing calls, reads the wrong register to enable the APIC.

## 5. Proofs

What is proved holds for every value of the constants: any number of pages and of
entries in a table, any memory map, any sequence of calls and interrupts.

| module | theorem | states |
|---|---|---|
| `FrameAllocatorProofs` | `TypeCorrect` | `Spec => []TypeOK` |
| | `CountCorrect` | `Spec => []CountMatchesBitmap` |
| | `SearchCorrect` | `Spec => []SearchCoversFree` |
| | `AllocCorrect` | `Spec => []AllocSucceedsWhileFree` |
| | `HintCorrect` | `Spec => []NoFreeBelowHint` |
| | `UsedCorrect` | `Spec => []UsedDoesNotUnderflow` |
| | `PoolCorrect` | `Spec => PoolSpec`, the refinement of `FramePool` |
| `PagingProofs` | `TlbCorrect` | `Spec => []TlbCoherent` |
| | `MapPageCorrect` | `Spec => []MapPageMaps` |
| | `AccountCorrect` | `Spec => []FramesAccounted` |
| | `SpaceCorrect` | `Spec => SpaceSpec`, the refinement of `AddressSpace` |
| `HeapProofs` | `CapCorrect` | `Spec => []CapRespected` |
| | `FramesCorrect` | `Spec => []HeapMatchesFrames` |
| | `RetryCorrect` | `Spec => RetryFailsWithReason`, if `PageAligned` |
| | `DataCorrect` | `Spec => LiveDataIntact`, if `WholeBlocks` |
| `InterruptsProofs` | `PicCorrect` | `Spec => []PicDrained` |
| | `LocksCorrect` | `Spec => []NoSelfDeadlock`, if the self-test passes |
| `KeyboardProofs` | `QueueCorrect` | `Spec => BufferIsQueue` |
| | `CodesCorrect` | `Spec => []EveryKeyHasOneCode` |
| | `ModifiersCorrect` | `Spec => []NoStuckModifier` |
| | `EventsCorrect` | `Spec => []TypedAsStruck` |
| `KernelProofs` | `PidsCorrect` | `Spec => []PidsAccounted` |
| | `MapCorrect` | `Spec => []MapIsLastTag` |
| | `SyncCorrect` | `Spec => []SyncCoversScreen` |
| | `SegmentsInvariant` | `SegmentsSpec => []SegmentsInv` |
| | `Delivered` | `SegmentsSpec => []HandledAfterSetup` |
| | `Resuming` | `SegmentsSpec => Resumes` |
| | `StacksHold` | `SegmentsSpec => []FramesInStacks` |
| | `Reported` | `SegmentsSpec => []ReportIsTrue` |
| `SerialProofs` | `InitLoses` | `PortSpec => []InitLosesTwoBytes` |
| | `InputTheirs` | `PortSpec => []InputIsTheirs`, if `TestByteNotSent` |
| | `LinesWhole` | `PortSpec => []LinesIntact`, if `TestByteNotSent` |

Each module has an inductive invariant, the lemma that it holds at the start, one
lemma per action that keeps it, and the theorems.

### Assumptions

The named assumptions of the modules, which TLC evaluates in every run: numbers
are numbers of the right sign; `None` is no address; the kernel's tables are
different frames and the identity mapping covers what the bitmap covers; the heap
lies in it, past the kernel, and begins and is capped at page boundaries; layouts
have a size and an alignment; the keys in use are keys; the tags are laid out as
Multiboot2 says; what the kernel logs before `serial::init` does not contain the
byte of the self-test, 0xAE, being ASCII; stacks, tables and handlers lie in the
address space. Nothing is assumed of memory maps or of the callers of `map_page`,
and nothing of stacks being aligned or apart.

Five theorems have a hypothesis of their own. Each is met by the run that checks
the property, and each says where the property ends.

* `PageAligned`: alignments divide the page size. With a larger alignment an
  extension of the requested size may hold no aligned block, and the retry fails
  for a reason the property does not name.
* `WholeBlocks`: the heap starts and grows in whole huge pages, as the constants
  of `heap.rs` do, and no request exceeds the chunk. The run `heap_clobber` shows
  that `LiveDataIntact` fails without it (finding 2).
* `SelfTestFails = {FALSE}`: `NoSelfDeadlock` fails otherwise (finding 3).
* `TestByteNotSent` (`InputTheirs`, `LinesWhole`): the far end does not send 0xAE.
  If it does, the self-test may read that byte and pass while its own is still in
  the transmitter, to be received as input or sent in front of the first line.

The four properties of `Paging` say "until a table is overwritten", and
`FramesInStacks` "as many handlers inside each other as the stack has room for":
183 bytes each at most (a frame with an error code, 15 registers and the
alignment), which lets 179 into `KERNEL_STACK` and 89 into `IST_STACK0` whatever
the number of events. These are part of the properties and not hypotheses of the
theorems. What the Rust functions called by the entry code push is not in the
model.

### Frame allocator

The inductive invariant `IInv` says that the allocator is the static initial
value until `init` has run, and from then on well formed: the hint is at most the
high-water mark, no free page lies at or above that mark, and the counter is the
number of clear bits plus `Extra` (`MAX_PAGES` without a memory map). None of
these is inductive alone. That `alloc` does not make the counter negative needs
the counter to be at least the number of clear bits. That the hint stays below
the mark after a run was taken needs the run to lie below it. And the initial
value, with all bits clear and a counter of 0, has to be set apart: calls before
`init` change nothing (`NewIsInert`).

The argument goes through the lemmas of `FramesProofs`: what marking a set of
pages does to the free pages and the counter (`MarkFreeAll`, `MarkAllocatedAll`),
that taking a run removes exactly that run (`TakeRunKeepsShape`), that `alloc`
either finds nothing because there is nothing or takes a free page
(`AllocTakesOne`), and so on; then one lemma per action, shared by the invariants
and the refinement. `HintInv` adds to `IInv` that no free page is below the hint
until a run is taken. `HeldInv` adds that while callers are tidy held pages are
not free, which is what makes giving back a step of the pool, and that without a
map nothing is ever handed out.

### Page tables

`Tree(m, lv)` says that memory `m` holds a tree of tables: `lv` gives every frame
a level, 4 to the root and 0 to frames that are no table; a link leads one level
down (`Leads`), every table is linked (`Parents`), none twice except from the two
ends of the root (`Once`), and huge pages are found in the kernel's directories
only (`HugeOnly`). The levels are the strengthening: that two addresses of
different pages do not share an entry, and that a new table is not already in use,
are statements about the whole tree. `Accounted` ties it to the allocator: a frame
that was available and is not free has a level or is held.

From these: a walk outside the identity mapping meets tables of the right levels
(`WalkTables`); what `translate` answers (`TranslateWalks`, `TranslateFixed`); two
addresses reach the same entry exactly if they are of one page, the two ends of
the root counted as one (`SamePageWalks`, `WalksSamePage`); a zeroed frame linked
at an absent entry keeps the tree and every translation (`GrowTree`,
`GrowTranslates`); a write to a frame that is no table changes nothing
(`ElsewhereKeeps`), and a write to the lowest level changes one page
(`WriteTranslates`).

`TablesInv` says that while `intact` holds, `Settled`, the memory as it will be
once `raw` is zeroed, is a tree that is accounted for, that the call under way
stands at a table of its own walk (`Calling`, with `OnWalk`), and what the TLB may
show (`Cached`). The step of `LinkTable` already makes the grown tree of `Settled`
and `ZeroTheTable` changes memory only; `RawWalk` compares a walk of the memory as
it is with one of `Settled`: they differ only where `Settled` has no translation,
which is what lets `Walk` cache an entry of a raw table without more harm than
`TlbCoherent` admits. One lemma per action (`InitPagingStep` to `WalkStep`) keeps
`TablesInv` and says what happens to the translations, and `IntactStep` collects
them for the invariants and for the refinement. That `invlpg` reaches the only
cached address of a changed page, unless it is visible twice, is `OneName`. For the
count in `FramesAccounted`, the links but the last of the root are in bijection
with the tables (`LinkCount`).

### Heap

`HeapInv`: where each context is (`Stages`), that `heap_end` and the pages of a
mapping loop stay below the cap (`Extent`), that the kernel's tables are whole and
as many frames are gone as pages were mapped (`Backed`), and that blocks lie in
the heap (`Placed`). The middle two depend on each other: `map_page` in the
identity mapping takes no further frame only as long as the tables are whole, and
they stay whole only as long as the entry it writes lies past the kernel.
`RoomLeft` adds that a context about to retry without an excuse has room, `Blocks`
that the heap ends with a whole block until frames or cap run out.

### Interrupts

`PicInv` describes the stack of contexts: what each kind still has to do, that at
most one is an interrupt handler, and that what is in service is what its end of
interrupt will take out (`Serviced`). `LockInv` judges the lists of operations:
`Safe(s, H, K)` says that `s`, run with the locks `H` held, takes no lock twice
and ends with `K`. Every list of the model is judged once, piece by piece.

### Keyboard

`WireSettles` says, of each modifier, what its flag will be when the bytes on the
wire have been handled: each byte carries the keys that were down, and the last
byte of the pair decides. It is about all bytes still to come, which is why it
needs `WholeKeys`, that no prefix waits for a byte. `Buffered` says the same of
the events. The prefixed shifts of PrintScreen and the bytes of Pause are cases of
their own.

### Kernel

`PidInv`: a bit is set exactly for pid 0 and the pids given away. `WalkInv`: the
walk stands at the offset of some tag, and the buffer holds the map of the last
memory map tag before it, or the first entries of the one it is in. `ScreenInv`:
screen and frame buffer agree on the geometry from the initialisation of the
screen on.

### Serial port

`Typed` says who can run and have the lock where (`LockFits`) and what is in the
registers at each position of `serial::init` (`PortFits`). The transmitter never
holds more than a byte behind the one being shifted, because `write_byte` waits
for it to be empty. `LossFits` counts what was lost together with what can be lost
yet: both bytes up to the reset of the FIFOs, later the one in the shift register
as long as it is in a wrong format or may be looped back (`Owed`). The sum is at
most two at every step.

`TestFits` is about the self-test. Until it, no byte in the port is the test
byte. Between the write and the read of the test byte the port is `Foul`, when
the first byte to be read back is another, or `Clean`, when it holds the test
byte and nothing else; a test that passes leaves it empty. Neither later property
is inductive without this: an early line still in the transmitter when loopback
begins would come back as input. `HeardFits` then says that what was read and
what waits is the end of what was heard. `OutputFits` says that what was said is
the text that went out followed by the rest of the line being written (`Spoken`),
that a CR was the last byte out where `cr` is set, and that what is on its way
out has the right format; with the lock this covers lines of handlers, which
find the lock free or wait. The positions of the concatenated programs
(`MainOps`, `Where`) are lemmas of their own, as are the effects of each register
write (`OutEffects`).

### Descriptor tables and entry code

`SegmentsInv` has two parts. `TablesFit` gives tables and table registers at each
position of `arch_init`. `HandlersFit` describes the innermost handler
(`Inside`): it runs at the address its gate was built from, the frame of what it
interrupted lies where `Low` says, the registers are saved below it or still
unchanged, its frame ends below the top meant for it and begins within 183 bytes
per handler of that top (`Stacked`). The handlers of exceptions never return, so
that only two shapes are left where a return is ahead (`Returns`): one handler
entered from outside, or one interrupt inside the handler of a system call. In
the second the frame of the outer handler must survive the inner one, which is
why the invariant says that the inner one stays below it.

From these: an address cut into the fields of a gate or of the TSS descriptor and
joined again is the same address, in every radix (`OffsetJoined`, `BaseJoined`);
the gates the processor finds open (`GatesOpen`) and so the vector it takes, the
meant one, or none (`TakenAsMeant`, `NoneTaken`); what pushing words leaves and
keeps (`Pushed`, `Keeps`, `InsideKept`); entering a handler (`Arrival`); one
lemma per action of the entry code; and for `StacksHold` how long a frame is at
each instruction of a handler (`FrameLength`) and that the top is that of the
stack in use (`TopInUse`).

### Only model-checked

* Liveness, under fairness: `AllocReturns`, `BytesAreHandled`, `HandlerReturns`,
  `KernelRuns`, `BootOutcome`, `LinesEnd`.
* `ClosedFormsAgree`, that the closed forms of `Frames` are the loops of
  `phys.rs`, and `StatsCoverFrames`, a sum over the memory map: induction over
  iterations and entries, which the provers cannot do.

## 6. What is not modelled

* Pixels and colours, the colour shifts and masks of a frame buffer, wording,
  colours and padding of log lines.
* The local APIC (`apic.rs`): nothing calls it, interrupts go through the PIC.
* `mem/virt.rs` (constants), the declarations of threads and contexts and the
  empty scheduler (`proc/*`): no behaviour yet.
* Most of the boot stub: straight-line assembly that enters long mode with page
  tables the kernel replaces. What it leaves behind is the initial state of
  `Segments`.
* The wrappers of single instructions in `arch/x86_64/mod.rs` (MSRs, control
  registers, `cpuid`, ports) except where a model takes the instruction.
* `linked_list_allocator`, `spin`, `tiny_skia`, the processor, the PIC, the
  keyboard and the UART are external: first fit over the blocks in use, a flag,
  the one length check of a pixmap, and what the code relies on of the devices.
  The inner allocator's list nodes are left out, and so its overhead and that it
  refuses a hole whose rest would be too small for a node.
* What the machine does once a page table is overwritten, or the heap lies where
  there is no memory.

## 7. Plan

The order was: frames, page tables, heap (memory safety rests on them), then
interrupts and keyboard, boot information and processes; then the composition in
`Kernel`, the serial port, and the descriptor tables with the entry code. With
these every part of the kernel that has behaviour is modelled, and every safety
property that needs no induction over data is proved. What could be added: `Heap`
with the inner lock and a handler at every lock operation, so that the wedge shown
in `Interrupts` is also shown on heap data; threads and the scheduler, once there is
code.
