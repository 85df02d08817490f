------------------------------- MODULE Kernel -------------------------------
(***************************************************************************)
(* The main flow from the boot loader's tags to the drawing loop:          *)
(* _start64 and kernel_main of kernel/src/lib.rs.  BootInfo, Screen and    *)
(* ProcessManager are composed on one frame allocator and one heap.        *)
(*                                                                         *)
(* The heap is seen from its only user here: nothing is given back except  *)
(* what a round of drawing takes, so that its state is its size and how    *)
(* much of it is in use.  Its place is the physical memory at HEAP_START,  *)
(* through the identity mapping, whatever frames it was given.  (Heap has  *)
(* the blocks, the tables and handlers that allocate; Interrupts has the   *)
(* locks.)                                                                 *)
(***************************************************************************)
EXTENDS BootInfo, Screen, ProcessManager

CONSTANTS
  HEAP_START, INITIAL_HEAP_SIZE, EXTEND_CHUNK_SIZE, MAX_HEAP_SIZE,  \* of mem/heap.rs
  PROCESS_SIZE,   \* bytes a new process takes
  ROUND_SIZE,     \* bytes one round of the drawing loop takes and gives back
  ProcessCounts,  \* how many processes kernel_main makes, {1} in the code
  DataLens        \* lengths of the data others pass to screen::write

ASSUME KernelAssumption ==
  /\ {INITIAL_HEAP_SIZE, EXTEND_CHUNK_SIZE, MAX_HEAP_SIZE} \subseteq Nat \ {0}
  /\ {PROCESS_SIZE, ROUND_SIZE} \subseteq Nat
  /\ ProcessCounts \subseteq Nat \ {0} /\ DataLens \subseteq Nat
  /\ HEAP_START \in Nat /\ HEAP_START % PAGE_SIZE = 0 /\ MAX_HEAP_SIZE % PAGE_SIZE = 0

VARIABLES
  heap,      \* size and used, in bytes
  screen,    \* SCREEN
  video,     \* history: offsets of the frame buffer sync has written to
  wanted     \* processes kernel_main makes

vars == <<bootVars, managerVars, heap, screen, video, wanted>>
drivers == <<screen, video>>
tags    == <<info, parser, MEMORY_STATS>>

Init ==
  /\ BootInit
  /\ ManagerInit
  /\ heap = [size |-> 0, used |-> 0]
  /\ screen = NewScreen
  /\ video = {}
  /\ wanted \in ProcessCounts

----------------------------------------------------------------------------
(* The heap.                                                               *)

PagesFor(bytes) == (bytes + PAGE_SIZE - 1) \div PAGE_SIZE

\* alloc_frame called n times: the frame allocator, and how often it answered.
\* Nothing below the hint is free (NoFreeBelowHint), so each call takes the
\* lowest free page.
TakeFrames(f, n) ==
  LET candidates == Allocatable(f)
      taken == {p \in candidates : Cardinality({q \in candidates : q < p}) < n}
  IN  [fa  |-> IF taken = {} THEN f
               ELSE [mark_allocated_all(f, taken) EXCEPT !.first_free = Max(taken) + 1],
       got |-> Cardinality(taken)]

\* AutoExtendHeap::try_extend: at least a chunk, at most up to the cap, and
\* no more than there are frames.
try_extend(bytes) ==
  LET capped == Min({Max({bytes, EXTEND_CHUNK_SIZE}), MAX_HEAP_SIZE - heap.size})
      r      == TakeFrames(fa, PagesFor(capped))
  IN  [fa |-> r.fa, size |-> heap.size + r.got * PAGE_SIZE]

\* AutoExtendHeap::alloc: the heap and the frame allocator it leaves, and
\* whether there was room in the end.
heap_alloc(bytes) ==
  LET r == IF heap.used + bytes <= heap.size THEN [fa |-> fa, size |-> heap.size]
           ELSE try_extend(bytes)
  IN  [fa   |-> r.fa,
       ok   |-> heap.used + bytes <= r.size,
       heap |-> [size |-> r.size, used |-> heap.used + bytes]]

\* The pages of memory the heap lies in.
HeapPages ==
  {(HEAP_START \div PAGE_SIZE) + i : i \in 0 .. (heap.size \div PAGE_SIZE) - 1}

\* The pages the first n entries of the last memory map call available.
Vouched(n) ==
  LET entries == IF MapTags = {} THEN << >> ELSE info[Max(MapTags)].entries
  IN  AvailablePages([i \in 1 .. Min({n, Len(entries)}) |->
        [base |-> entries[i].base, length |-> entries[i].length,
         mem_type |-> IF entries[i].mb_type = 1 THEN "Available" ELSE "Reserved"]])

\* The memory of the machine, as far as the boot loader vouches for it, in the
\* entries the kernel has no room for too.
MachineMemory ==
  IF MapTags = {} THEN {} ELSE Vouched(Len(info[Max(MapTags)].entries))

InMemory == HeapPages \subseteq MachineMemory

----------------------------------------------------------------------------
(* kernel_main.                                                            *)

\* The kernel stops in the panic handler.
panic == pc' = "panicked"

\* heap::init; "Failed to allocate frame for initial heap"
InitHeap ==
  /\ pc = "frames"
  /\ LET r == TakeFrames(fa, PagesFor(INITIAL_HEAP_SIZE))
     IN  /\ fa' = r.fa
         /\ IF r.got = PagesFor(INITIAL_HEAP_SIZE)
            THEN pc' = "drivers" /\ heap' = [size |-> r.got * PAGE_SIZE, used |-> 0]
            ELSE panic /\ UNCHANGED heap
  /\ UNCHANGED <<tags, managerVars, drivers, wanted>>

\* drivers::init: the screen's buffer is allocated, or alloc_error_handler
\* panics.
InitDrivers ==
  /\ pc = "drivers"
  /\ LET r == heap_alloc(buffer_size(framebuffer))
     IN  /\ fa' = r.fa
         /\ heap' = r.heap
         /\ IF r.ok THEN pc' = "process" /\ screen' = InitScreen(framebuffer)
            ELSE panic /\ UNCHANGED screen
  /\ UNCHANGED <<tags, managerVars, video, wanted>>

\* create_process, then get_process(pid).unwrap()
CreateProcess ==
  /\ pc = "process" /\ Len(processes) < wanted
  /\ create_process
  /\ \E pid \in {Min(FreePids)}, r \in {heap_alloc(PROCESS_SIZE)} :
       /\ fa' = r.fa
       /\ heap' = r.heap
       /\ IF r.ok /\ get_process(pid)' # 0 THEN UNCHANGED pc ELSE panic
  /\ UNCHANGED <<tags, drivers, wanted>>

\* "No more PIDs available"
NoMorePids ==
  /\ pc = "process" /\ Len(processes) < wanted
  /\ FreePids = {}
  /\ panic
  /\ UNCHANGED <<tags, fa, managerVars, heap, drivers, wanted>>

\* Another caller of screen::write or screen::sync, before kernel_main takes
\* SCREEN for good.
OtherWrite(n) ==
  /\ pc = "process"
  /\ screen' = write(screen, n)
  /\ UNCHANGED <<bootVars, managerVars, heap, video, wanted>>

OtherSync ==
  /\ pc = "process"
  /\ video' = video \cup sync(screen)
  /\ UNCHANGED <<bootVars, managerVars, heap, screen, wanted>>

\* kernel_main locks SCREEN and keeps it.
EnterLoop ==
  /\ pc = "process" /\ Len(processes) = wanted
  /\ pc' = "loop"
  /\ UNCHANGED <<tags, fa, managerVars, heap, drivers, wanted>>

\* A round of the drawing loop up to sync: the pixmap over the back buffer,
\* or a panic in unwrap; paths and paint come from the heap and go back.
Draw ==
  /\ pc = "loop"
  /\ LET r == heap_alloc(ROUND_SIZE)
     IN  IF from_bytes(screen)
         THEN /\ fa' = r.fa
              /\ heap' = [r.heap EXCEPT !.used = heap.used]
              /\ screen' = paint(screen)
              /\ IF r.ok THEN pc' = "drawn" ELSE panic
         ELSE panic /\ UNCHANGED <<fa, heap, screen>>
  /\ UNCHANGED <<tags, managerVars, video, wanted>>

Sync ==
  /\ pc = "drawn"
  /\ video' = video \cup sync(screen)
  /\ pc' = "loop"
  /\ UNCHANGED <<tags, fa, managerVars, heap, screen, wanted>>

\* A heap where the machine may have no memory does not keep the inner
\* allocator's list, nor what was allocated: from there on anything can happen,
\* going on as if nothing was wrong included.
Astray ==
  /\ ~ InMemory /\ pc \in {"drivers", "process", "loop", "drawn"}
  /\ pc' = "lost"
  /\ UNCHANGED <<tags, fa, managerVars, heap, drivers, wanted>>

\* The panic handler: hlt, for ever; or the end of what is modelled.
Halted == pc \in {"panicked", "lost"} /\ UNCHANGED vars

MainFlow ==
  \/ BootNext /\ UNCHANGED <<managerVars, heap, drivers, wanted>>
  \/ InitHeap \/ InitDrivers \/ CreateProcess \/ NoMorePids \/ EnterLoop
  \/ Draw \/ Sync

Next ==
  \/ MainFlow \/ Halted \/ Astray
  \/ OtherSync \/ \E n \in DataLens : OtherWrite(n)

\* The main flow goes on by itself.
Spec == Init /\ [][Next]_vars /\ WF_vars(MainFlow)

----------------------------------------------------------------------------
(* Properties.                                                             *)

\* sync writes inside the frame buffer only, whatever geometry the tag has,
\* and where rows have no padding a round of the loop covers all of it.
\* (Padded rows are sheared: sync does not know the stride.)
SyncCoversScreen ==
  LET bytes == 0 .. framebuffer.pitch * framebuffer.height - 1
  IN  /\ video \subseteq bytes
      /\ pc = "drawn" /\ framebuffer.pitch = 4 * framebuffer.width
           => screen.filled = screen.len /\ sync(screen) = bytes

\* What a machine needs, read off the tags: the last frame buffer has 32 bits
\* a pixel and none has colours other than RGB, and the last memory map has
\* frames for the initial heap and for all that is allocated.
FramebufferTags == {i \in DOMAIN info : info[i].type = "framebuffer"}

HasScreen ==
  /\ FramebufferTags # {}
  /\ \A i \in FramebufferTags : info[i].fb_type = 1
  /\ LET fb == info[Max(FramebufferTags)]
     IN  fb.bpp = 32 /\ fb.width > 0 /\ fb.height > 0

AvailableFrames == Vouched(CAP)

HasMemory ==
  LET fb   == info[Max(FramebufferTags)]
      need == 4 * fb.width * fb.height + wanted * PROCESS_SIZE + ROUND_SIZE
      most == Max({PagesFor(INITIAL_HEAP_SIZE) * PAGE_SIZE,
                   Min({MAX_HEAP_SIZE, Cardinality(AvailableFrames) * PAGE_SIZE})})
  IN  /\ Cardinality(AvailableFrames) >= PagesFor(INITIAL_HEAP_SIZE)
      /\ need <= most

Fit == HasScreen /\ HasMemory /\ wanted < MAX_PROCESSES

\* As long as the heap lies in the machine's memory: a machine that has what it
\* takes ends in the drawing loop and stays there; any other ends in a panic,
\* rather than in a loop of the walk or of the heap, or drawing over memory it
\* does not have.  A machine without a memory map is one of the others: the
\* frame allocator has nothing for heap::init.  (mem/mod.rs:77-80 says that its
\* fallback "allows the kernel to function even without a memory map"; it sets
\* statistics only.)
BootOutcome ==
  []InMemory =>
    /\ Fit => <>[](pc \in {"loop", "drawn"})
    /\ ~ Fit => <>[](pc = "panicked")
=============================================================================
