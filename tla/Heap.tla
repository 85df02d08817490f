-------------------------------- MODULE Heap --------------------------------
(***************************************************************************)
(* The self-extending kernel heap of kernel/src/mem/heap.rs on top of the  *)
(* frame allocator and the page tables.                                    *)
(*                                                                         *)
(* Two contexts allocate: the kernel's main flow and interrupt handlers    *)
(* (the keyboard handler's buffer grows on the heap).  An interrupt        *)
(* handler runs to its end before the main flow continues.  alloc holds    *)
(* the lock of the inner allocator for one attempt, lets it go, and holds  *)
(* heap_end for the whole of try_extend; an interrupt can arrive between   *)
(* these sections and between the pages try_extend maps.  (Interrupts      *)
(* that hit a section of the inner lock are the subject of Interrupts.)    *)
(*                                                                         *)
(* The inner linked_list_allocator is external: a first-fit allocator over *)
(* one range of addresses.  Sizes and addresses are in words.              *)
(***************************************************************************)
EXTENDS PageTables

CONSTANTS
  MemoryMaps,   \* boot memory maps
  HEAP_START, INITIAL_HEAP_SIZE, EXTEND_CHUNK_SIZE, MAX_HEAP_SIZE,
  Layouts,      \* layouts the main flow asks for, as [size, align]
  IrqLayouts,   \* layouts interrupt handlers ask for
  MaxLive,      \* bound: blocks allocated at a time
  MaxIrqs       \* bound: interrupts that allocate

Contexts == {"main", "irq"}

ASSUME HeapAssumption ==
  /\ HEAP_START \in Nat /\ HEAP_START % PAGE_SIZE = 0
  /\ INITIAL_HEAP_SIZE \in Nat \ {0} /\ EXTEND_CHUNK_SIZE \in Nat \ {0}
  /\ MAX_HEAP_SIZE \in Nat /\ MAX_HEAP_SIZE % PAGE_SIZE = 0
  /\ INITIAL_HEAP_SIZE <= MAX_HEAP_SIZE
  /\ HEAP_START + MAX_HEAP_SIZE <= MAX_PAGES * PAGE_SIZE

\* The heap lies past the kernel: no huge page of it begins with one of the
\* kernel's tables.
ASSUME PastKernelAssumption ==
  \A w \in HEAP_START .. HEAP_START + MAX_HEAP_SIZE - 1 :
    ((w \div E) \div E) * E \notin KernelTables

\* core::alloc::Layout; GlobalAlloc is never asked for nothing.
ASSUME LayoutAssumption ==
  /\ Layouts \subseteq [size : Nat \ {0}, align : Nat \ {0}]
  /\ IrqLayouts \subseteq [size : Nat \ {0}, align : Nat \ {0}]

\* None is none of the values it stands beside.
ASSUME OptionAssumption ==
  None \notin Contexts /\ None \notin Layouts /\ None \notin IrqLayouts

Other(c) == IF c = "main" THEN "irq" ELSE "main"

VARIABLES
  map,        \* the memory map the kernel was booted with
  mem, fa,    \* physical memory and FRAME_ALLOCATOR
  heap_end,   \* the address under the heap_end mutex
  lock,       \* who holds that mutex: a context or None
  inner,      \* the size of the inner allocator, None while it is empty()
  live,       \* the allocated blocks, as [at, size]
  pc,         \* where each context is in alloc (or init)
  req,        \* the layout it asked for
  job,        \* try_extend or init: pages to map, pages mapped
  excuse,     \* history: why an attempt after an extension may fail
  irqs,       \* history: interrupts so far
  panicked    \* the kernel stopped

vars == <<map, mem, fa, heap_end, lock, inner, live, pc, req, job, excuse, irqs,
          panicked>>

NoJob == [pages |-> 0, done |-> 0]

\* The identity mapping is set up and interrupts are on (arch::init) before
\* mem::init fills the frame allocator and calls heap::init.
Init ==
  /\ mem = paging_init([f \in Pages |-> ZeroTable])
  /\ map \in MemoryMaps
  /\ fa = init(new, map)
  /\ heap_end = HEAP_START
  /\ lock = None
  /\ inner = None
  /\ live = {}
  /\ pc = [main |-> "boot", irq |-> "idle"]
  /\ req = [c \in Contexts |-> None]
  /\ job = NoJob
  /\ excuse = [c \in Contexts |-> FALSE]
  /\ irqs = 0
  /\ panicked = FALSE

\* The main flow stands still while an interrupt handler runs.
Runs(c) == ~ panicked /\ (c = "main" => pc["irq"] = "idle")

----------------------------------------------------------------------------
(* The inner allocator.                                                    *)

WordsOf(block) == block.at .. block.at + block.size - 1

\* The addresses at which a block of this layout fits.
Fits(layout) ==
  IF inner = None THEN {}
  ELSE {at \in HEAP_START .. HEAP_START + inner - layout.size :
          /\ at % layout.align = 0
          /\ \A b \in live :
               WordsOf(b) \cap WordsOf([at |-> at, size |-> layout.size]) = {}}

\* allocate_first_fit succeeds for context c.  (What the block's user then
\* writes into it is left out: no step of the heap reads it.)
TakeFirstFit(c, layout) ==
  LET block == [at |-> Min(Fits(layout)), size |-> layout.size]
  IN  /\ Fits(layout) # {}
      /\ live' = live \cup {block}
      /\ excuse' = [excuse EXCEPT ![c] = FALSE, ![Other(c)] = pc[Other(c)] # "idle"]

\* alloc (or init) of context c returns; a lock it holds is dropped.
Return(c) ==
  /\ pc' = [pc EXCEPT ![c] = "idle"]
  /\ req' = [req EXCEPT ![c] = None]

----------------------------------------------------------------------------
\* Pages that hold so many words.
PagesFor(words) == (words + PAGE_SIZE - 1) \div PAGE_SIZE

\* init: heap_end is locked and the loop over the initial pages begins.
InitHeap ==
  /\ Runs("main") /\ pc["main"] = "boot"
  /\ lock = None
  /\ lock' = "main"
  /\ job' = [pages |-> PagesFor(INITIAL_HEAP_SIZE), done |-> 0]
  /\ pc' = [pc EXCEPT !["main"] = "mapping"]
  /\ UNCHANGED <<map, mem, fa, heap_end, inner, live, req, excuse, irqs, panicked>>

\* alloc, first attempt; a failure leads to try_extend.
Alloc(c, layout) ==
  /\ Runs(c) /\ pc[c] = "idle"
  /\ Cardinality(live) < MaxLive
  /\ c = "irq" => irqs < MaxIrqs
  /\ irqs' = IF c = "irq" THEN irqs + 1 ELSE irqs
  /\ \/ TakeFirstFit(c, layout) /\ UNCHANGED <<pc, req>>
     \/ /\ Fits(layout) = {}
        /\ pc' = [pc EXCEPT ![c] = "extend"]
        /\ req' = [req EXCEPT ![c] = layout]
        /\ excuse' = [excuse EXCEPT ![c] = FALSE]
        /\ UNCHANGED live
  /\ UNCHANGED <<map, mem, fa, heap_end, lock, inner, job, panicked>>

\* Mutant: no hard cap.
ExtensionPages_uncapped(min_bytes) ==
  PagesFor(Max({min_bytes, EXTEND_CHUNK_SIZE}))

\* How many pages try_extend sets out to map.
ExtensionPages(min_bytes) ==
  LET want == Max({min_bytes, EXTEND_CHUNK_SIZE})
      room == MAX_HEAP_SIZE - (heap_end - HEAP_START)
  IN  PagesFor(Min({want, room}))

\* try_extend: heap_end is locked; at the hard cap alloc answers null.
Extend(c) ==
  /\ Runs(c) /\ pc[c] = "extend"
  /\ lock = None
  /\ IF heap_end - HEAP_START >= MAX_HEAP_SIZE
     THEN /\ Return(c)
          /\ excuse' = [excuse EXCEPT ![c] = FALSE]
          /\ UNCHANGED <<lock, job>>
     ELSE /\ lock' = c
          /\ job' = [pages |-> ExtensionPages(req[c].size), done |-> 0]
          /\ pc' = [pc EXCEPT ![c] = "mapping"]
          /\ UNCHANGED <<req, excuse>>
  /\ UNCHANGED <<map, mem, fa, heap_end, inner, live, irqs, panicked>>

\* A spinning lock(): nothing happens while someone else holds heap_end.
Spin(c) ==
  /\ Runs(c) /\ pc[c] = "extend"
  /\ lock # None
  /\ UNCHANGED vars

\* Mutant: every loop maps from the start of the heap, as that of init does.
NextVirt_from_start == HEAP_START + job.done * PAGE_SIZE

\* The address the loop of init or try_extend maps next.
NextVirt == heap_end + job.done * PAGE_SIZE

\* What the loop's map_page does with a frame from alloc, if there is one.
MappedNext(frame) ==
  IF frame.ret = None THEN [ok |-> FALSE, mem |-> mem, fa |-> fa]
  ELSE map_page(mem, frame.fa, NextVirt, frame.ret, {"PRESENT", "WRITABLE"})

\* Mutant: every round takes two frames.
MapOne_double(c) ==
  /\ Runs(c) /\ pc[c] = "mapping" /\ job.done < job.pages
  /\ \E frame \in {alloc(alloc(fa).fa)} : \E mapped \in {MappedNext(frame)} :
       /\ frame.ret # None
       /\ mapped.ok
       /\ mem' = mapped.mem
       /\ fa' = mapped.fa
       /\ job' = [job EXCEPT !.done = @ + 1]
  /\ UNCHANGED <<map, heap_end, lock, inner, live, pc, req, excuse, irqs, panicked>>

\* One round of the loop: a frame is allocated and mapped.  (The quantifiers
\* over one value name the results.)
MapOne(c) ==
  /\ Runs(c) /\ pc[c] = "mapping" /\ job.done < job.pages
  /\ \E frame \in {alloc(fa)} : \E mapped \in {MappedNext(frame)} :
       /\ frame.ret # None
       /\ mapped.ok
       /\ mem' = mapped.mem
       /\ fa' = mapped.fa
       /\ job' = [job EXCEPT !.done = @ + 1]
  /\ UNCHANGED <<map, heap_end, lock, inner, live, pc, req, excuse, irqs, panicked>>

\* No frame, or no frame for a table: init panics on expect, try_extend gives
\* the frame back and stops early with the pages it has.
MapStops(c) ==
  /\ Runs(c) /\ pc[c] = "mapping" /\ job.done < job.pages
  /\ \E frame \in {alloc(fa)} : \E mapped \in {MappedNext(frame)} :
       /\ ~ mapped.ok
       /\ mem' = mapped.mem
       /\ fa' = IF frame.ret = None THEN fa ELSE free(mapped.fa, frame.ret)
  /\ IF req[c] = None THEN panicked' = TRUE /\ UNCHANGED job
     ELSE job' = [job EXCEPT !.pages = job.done] /\ UNCHANGED panicked
  /\ UNCHANGED <<map, heap_end, lock, inner, live, pc, req, excuse, irqs>>

\* init: the inner allocator takes over the initial pages.
InitDone ==
  /\ Runs("main") /\ pc["main"] = "mapping" /\ req["main"] = None
  /\ job.done = job.pages
  /\ heap_end' = HEAP_START + job.done * PAGE_SIZE
  /\ inner' = job.done * PAGE_SIZE
  /\ lock' = None
  /\ job' = NoJob
  /\ Return("main")
  /\ UNCHANGED <<map, mem, fa, live, excuse, irqs, panicked>>

\* Mutant: the inner allocator is not told of the new pages.
Extended_untold(added) == inner

\* The size of the inner allocator's range after extend.
Extended(added) == inner + added

\* Mutant: the lock is still held when alloc tries again and returns.
ExtendDone_keeps_lock(c) ==
  /\ Runs(c) /\ pc[c] = "mapping" /\ req[c] # None
  /\ job.done = job.pages /\ job.done > 0 /\ inner # None
  /\ inner' = Extended(job.done * PAGE_SIZE)
  /\ heap_end' = heap_end + job.done * PAGE_SIZE
  /\ pc' = [pc EXCEPT ![c] = "retry"]
  /\ job' = NoJob
  /\ excuse' = [excuse EXCEPT ![c] = @ \/ job.done * PAGE_SIZE < req[c].size]
  /\ UNCHANGED <<map, mem, fa, lock, live, req, irqs, panicked>>

\* try_extend: without a page alloc answers null; otherwise the inner
\* allocator is told (it panics if it was never initialised) and alloc
\* tries again.
ExtendDone(c) ==
  /\ Runs(c) /\ pc[c] = "mapping" /\ req[c] # None
  /\ job.done = job.pages
  /\ LET added == job.done * PAGE_SIZE
     IN  \/ /\ job.done = 0
            /\ lock' = None
            /\ Return(c)
            /\ excuse' = [excuse EXCEPT ![c] = FALSE]
            /\ UNCHANGED <<heap_end, inner, panicked>>
         \/ /\ job.done > 0 /\ inner = None
            /\ panicked' = TRUE
            /\ UNCHANGED <<heap_end, inner, lock, pc, req, excuse>>
         \/ /\ job.done > 0 /\ inner # None
            /\ inner' = Extended(added)
            /\ heap_end' = heap_end + added
            /\ lock' = None
            /\ pc' = [pc EXCEPT ![c] = "retry"]
            /\ excuse' = [excuse EXCEPT ![c] = @ \/ added < req[c].size]
            /\ UNCHANGED <<req, panicked>>
  /\ job' = NoJob
  /\ UNCHANGED <<map, mem, fa, live, irqs>>

\* alloc, second and last attempt.
Retry(c) ==
  /\ Runs(c) /\ pc[c] = "retry"
  /\ \/ TakeFirstFit(c, req[c])
     \/ /\ Fits(req[c]) = {}
        /\ excuse' = [excuse EXCEPT ![c] = FALSE]
        /\ UNCHANGED live
  /\ Return(c)
  /\ UNCHANGED <<map, mem, fa, heap_end, lock, inner, job, irqs, panicked>>

Dealloc(c, block) ==
  /\ Runs(c) /\ pc[c] = "idle"
  /\ block \in live
  /\ live' = live \ {block}
  /\ UNCHANGED <<map, mem, fa, heap_end, lock, inner, pc, req, job, excuse, irqs,
                 panicked>>

\* After a panic the kernel halts.
Halted == panicked /\ UNCHANGED vars

Step(c) ==
  \/ Extend(c) \/ Spin(c) \/ MapOne(c) \/ MapStops(c)
  \/ ExtendDone(c) \/ Retry(c)

Next ==
  \/ InitHeap \/ InitDone
  \/ \E layout \in Layouts : Alloc("main", layout)
  \/ \E layout \in IrqLayouts : Alloc("irq", layout)
  \/ \E c \in Contexts : Step(c)
  \/ \E block \in live : Dealloc("main", block)
  \/ Halted

\* A context that can run keeps running.
Fairness == \A c \in Contexts : WF_vars(Step(c)) /\ WF_vars(InitDone)

Spec == Init /\ [][Next]_vars /\ Fairness

----------------------------------------------------------------------------
(* Properties.                                                             *)

\* Whenever heap_end is not locked the inner allocator's range is exactly the
\* range whose pages were mapped, and every page of it cost one frame: an
\* extension that stops early neither leaks a frame nor announces memory it
\* did not map.
HeapMatchesFrames ==
  ~ panicked =>
    LET taken == AvailablePages(map) \ FreePages(fa)
        size  == IF inner = None THEN 0 ELSE inner
    IN  IF lock = None
        THEN /\ heap_end = HEAP_START + size
             /\ Cardinality(taken) * PAGE_SIZE = size
        ELSE Cardinality(taken) * PAGE_SIZE = size + job.done * PAGE_SIZE

\* The hard cap holds, also in the middle of an extension.
CapRespected ==
  lock # None => NextVirt - HEAP_START <= MAX_HEAP_SIZE

\* The words of an allocated block are its user's: no step of the heap,
\* mapping more pages included, writes into one.
LiveDataIntact ==
  [][\A b \in live : \A w \in WordsOf(b) :
       mem'[w \div PAGE_SIZE][w % PAGE_SIZE] = mem[w \div PAGE_SIZE][w % PAGE_SIZE]]_vars

\* After a successful try_extend the second attempt of alloc fails only if
\* the extension fell short of the request or the other context took memory
\* meanwhile.
RetryFailsWithReason ==
  [][\A c \in Contexts :
       pc[c] = "retry" /\ pc'[c] = "idle" /\ live' = live => excuse[c]]_vars

\* An interrupt handler that needs more heap while the main flow is inside
\* init or try_extend waits for a lock that is never released.
Wedged == pc["irq"] = "extend" /\ lock = "main"

\* alloc returns, unless the kernel panics or is wedged in that way.
AllocReturns ==
  \A c \in Contexts :
    pc[c] \in {"extend", "mapping", "retry"}
      ~> (pc[c] = "idle" \/ panicked \/ Wedged)
=============================================================================
