--------------------------- MODULE FrameAllocator ---------------------------
(***************************************************************************)
(* The frame allocator as the rest of the kernel sees it: the static       *)
(* FRAME_ALLOCATOR of kernel/src/mem/phys.rs and the functions around it.  *)
(* Each of them holds the allocator's mutex from its first to its last     *)
(* access, so each call is one step.                                       *)
(*                                                                         *)
(* Callers pass any address and any count, including addresses out of      *)
(* range, never allocated or already freed.  What the allocator promises   *)
(* only to callers that give back what they hold is stated with the        *)
(* history variable tidy.                                                  *)
(***************************************************************************)
EXTENDS Frames

CONSTANTS
  MemoryMaps,  \* the boot memory maps considered
  Addresses,   \* the addresses callers pass to the free functions
  Counts       \* the counts callers pass to alloc_frames and free_frames

ASSUME AddressesAssumption == Addresses \subseteq Nat
ASSUME CountsAssumption    == Counts \subseteq Nat

VARIABLES
  fa,     \* FRAME_ALLOCATOR
  boot,   \* "new" until init ran, then "map" or "nomap"
  held,   \* history: pages handed out and not given back
  answer, \* history: the last allocation request and its result
  singly, \* history: alloc_frames was not called so far
  tidy    \* history: so far callers gave back only pages they held

vars == <<fa, boot, held, answer, singly, tidy>>

TypeOK ==
  /\ fa \in FrameAllocatorType
  /\ boot \in {"new", "map", "nomap"}
  /\ held \in SUBSET Pages
  /\ answer \in {"one", "run"} \X (Nat \cup {None})
  /\ singly \in BOOLEAN
  /\ tidy \in BOOLEAN

Init ==
  /\ fa = new
  /\ boot = "new"
  /\ held = {}
  /\ answer = <<"one", None>>
  /\ singly = TRUE
  /\ tidy = TRUE

----------------------------------------------------------------------------
\* phys::init, called once from mem::init.
Boot(map) ==
  /\ boot = "new"
  /\ fa' = init(fa, map)
  /\ boot' = IF map = << >> THEN "nomap" ELSE "map"
  /\ UNCHANGED <<held, answer, singly, tidy>>

\* The n pages from the one addr points into.
RunAt(addr, n) == (addr \div PAGE_SIZE) .. (addr \div PAGE_SIZE) + n - 1

\* The pages a request for n pages hands out.
Granted(r, n) == IF r.ret = None THEN {} ELSE RunAt(r.ret, n)

\* phys::alloc_frame
AllocFrame ==
  LET r == alloc(fa)
  IN  /\ fa' = r.fa
      /\ held' = held \cup Granted(r, 1)
      /\ answer' = <<"one", r.ret>>
      /\ UNCHANGED <<boot, singly, tidy>>

\* phys::alloc_frames.  A call whose search runs through the whole u64 range
\* (free_pages above total_pages, and n between the two) does not come back.
AllocFrames(n) ==
  LET r == alloc_contiguous(fa, n)
  IN  /\ n <= fa.total_pages \/ n > fa.free_pages
      /\ fa' = r.fa
      /\ held' = held \cup Granted(r, n)
      /\ answer' = <<"run", r.ret>>
      /\ singly' = FALSE
      /\ UNCHANGED <<boot, tidy>>

\* phys::free_frame
FreeFrame(addr) ==
  /\ fa' = free(fa, addr)
  /\ held' = held \ RunAt(addr, 1)
  /\ tidy' = (tidy /\ RunAt(addr, 1) \subseteq held)
  /\ UNCHANGED <<boot, answer, singly>>

\* phys::free_frames
FreeFrames(addr, n) ==
  /\ fa' = free_contiguous(fa, addr, n)
  /\ held' = held \ RunAt(addr, n)
  /\ tidy' = (tidy /\ RunAt(addr, n) \subseteq held)
  /\ UNCHANGED <<boot, answer, singly>>

Next ==
  \/ \E map \in MemoryMaps : Boot(map)
  \/ AllocFrame
  \/ \E n \in Counts : AllocFrames(n)
  \/ \E addr \in Addresses : FreeFrame(addr)
  \/ \E addr \in Addresses, n \in Counts : FreeFrames(addr, n)

Spec == Init /\ [][Next]_vars

----------------------------------------------------------------------------
(* Properties.                                                             *)

\* The counter free_pages, kept by increments in mark_free and decrements in
\* mark_allocated, is the number of clear bits, whatever addresses and counts
\* callers pass (freeing twice, freeing what was never allocated, overlapping
\* memory map entries).  Without a memory map init adds MAX_PAGES to it
\* without clearing a bit, and the difference stays for ever.
CountMatchesBitmap ==
  boot # "new" =>
    fa.free_pages = Cardinality(FreePages(fa))
                      + (IF boot = "nomap" THEN MAX_PAGES ELSE 0)

\* Both passes of alloc together look at every free page: the hint is within
\* the searched range and no free page lies at or above total_pages.
SearchCoversFree ==
  /\ fa.first_free <= fa.total_pages
  /\ boot # "new" => FreePages(fa) \subseteq 0 .. fa.total_pages - 1

\* "Returns None if no free pages are available" (phys.rs:126), and only
\* then: while the counter says a page is free, the next alloc finds one,
\* wherever earlier calls left the hint.
AllocSucceedsWhileFree ==
  boot = "map" /\ fa.free_pages > 0 => alloc(fa).ret # None

\* The subtraction total - free in stats() does not go below zero (it would
\* wrap to a huge number of used pages) as long as callers free what they
\* hold.
UsedDoesNotUnderflow == tidy => stats(fa)[2] >= 0

\* As long as no run was allocated no page below the hint is free, whatever
\* is freed, so the second pass of alloc never finds anything: "it prevents
\* wraparounds in the alloc function" (phys.rs:188).
NoFreeBelowHint ==
  singly => \A p \in Pages : p < fa.first_free => fa.bitmap[p] \/ boot = "new"

\* The allocator implements FramePool until a caller gives back a page it
\* does not hold: no page is handed out twice, a run consists of free pages, and
\* alloc_frame refuses only when no page can be handed out.
Pool == INSTANCE FramePool
          WITH Frame   <- Pages,
               NoFrame <- None,
               pool    <- Allocatable(fa),
               held    <- held,
               kept    <- tidy,
               answer  <- <<answer[1], IF answer[2] = None THEN None
                                       ELSE answer[2] \div PAGE_SIZE>>
PoolSpec == Pool!Spec

\* What phys.rs:46 says of a boot without a memory map: "we have to assume
\* all memory is available".  (Not what the code does: every bit stays set.)
NoMapMeansAllAvailable ==
  boot = "nomap" /\ held = {} => alloc(fa).ret # None
=============================================================================
