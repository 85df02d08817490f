----------------------------- MODULE FrameLoops -----------------------------
(***************************************************************************)
(* The loops of kernel/src/mem/phys.rs, one step per iteration: init over  *)
(* the memory map, the two passes of alloc, the nested loops of            *)
(* alloc_contiguous, and free_contiguous.  A behaviour is one call on one  *)
(* allocator value.  Its purpose is to show that the operators of Frames,  *)
(* which the other modules use, compute what the loops compute.            *)
(***************************************************************************)
EXTENDS Frames

CONSTANTS
  MemoryMaps,  \* memory maps passed to init
  Starts,      \* start pages passed to free_contiguous
  Counts       \* counts passed to alloc_contiguous and free_contiguous

VARIABLES
  before,  \* the allocator when the call starts
  call,    \* the method and its arguments
  fa,      \* the allocator now
  outer,   \* position in an outer loop: entry index, start_page
  page,    \* position in the innermost loop
  ret,     \* what the call returned
  pc       \* the loop the call is in, or "done"

vars == <<before, call, fa, outer, page, ret, pc>>

\* Mutant: a page that is already free is counted again.
mark_free_again(f, p) ==
  IF p >= MAX_PAGES THEN f
  ELSE [f EXCEPT !.bitmap[p] = FALSE,
                 !.free_pages   = @ + 1,
                 !.total_pages  = IF p + 1 > @ THEN p + 1 ELSE @]

\* One page, as in mark_free and mark_allocated.
mark_free(f, p) ==
  IF ~ is_allocated(f, p) \/ p >= MAX_PAGES THEN f
  ELSE [f EXCEPT !.bitmap[p] = FALSE,
                 !.free_pages   = @ + 1,
                 !.total_pages  = IF p + 1 > @ THEN p + 1 ELSE @]

mark_allocated(f, p) ==
  IF is_allocated(f, p) \/ p >= MAX_PAGES THEN f
  ELSE [f EXCEPT !.bitmap[p] = TRUE,
                 !.free_pages   = @ - 1]

\* The values a call can start from: the invariants of FrameAllocator.
Allocators ==
  {f \in [bitmap      : [Pages -> BOOLEAN],
          first_free  : 0 .. MAX_PAGES,
          total_pages : 0 .. MAX_PAGES,
          free_pages  : 0 .. MAX_PAGES] :
     /\ f.first_free <= f.total_pages
     /\ FreePages(f) \subseteq 0 .. f.total_pages - 1
     /\ f.free_pages = Cardinality(FreePages(f))}

Calls ==
  {<<"alloc">>} \cup ({"alloc_contiguous"} \X Counts)
    \cup ({"free_contiguous"} \X Starts \X Counts)

\* Each method up to its first loop.
Init ==
  /\ \/ /\ before \in Allocators
        /\ call \in Calls
        /\ CASE call[1] = "alloc" ->
                  /\ outer = 0 /\ page = before.first_free
                  /\ pc = "ahead"
             [] call[1] = "alloc_contiguous" ->
                  /\ outer = before.first_free /\ page = before.first_free
                  /\ pc = IF call[2] = 0 \/ call[2] > before.free_pages
                          THEN "done" ELSE "runs"
             [] call[1] = "free_contiguous" ->
                  outer = 0 /\ page = 0 /\ pc = "give"
     \/ /\ before = new
        /\ call \in {"init"} \X MemoryMaps
        /\ outer = 0 /\ page = 0
        /\ pc = "set"
  /\ fa = before
  /\ ret = None

Return(r) == ret' = r /\ pc' = "done"

----------------------------------------------------------------------------
\* init: the loop that sets every byte of the bitmap, then the early return.
SetAll ==
  /\ pc = "set"
  /\ IF page < MAX_PAGES
     THEN /\ fa' = [fa EXCEPT !.bitmap[page] = TRUE]
          /\ page' = page + 1
          /\ UNCHANGED <<outer, ret, pc>>
     ELSE IF call[2] = << >>
     THEN /\ fa' = [fa EXCEPT !.total_pages = MAX_PAGES,
                              !.free_pages  = MAX_PAGES]
          /\ Return(None)
          /\ UNCHANGED <<outer, page>>
     ELSE /\ outer' = 1 /\ page' = EntryStart(call[2][1])
          /\ pc' = "entries"
          /\ UNCHANGED <<fa, ret>>
  /\ UNCHANGED <<before, call>>

\* init: the pages of the entry number outer.
FreeEntry ==
  /\ pc = "entries"
  /\ LET map   == call[2]
         entry == map[outer]
         more  == /\ entry.mem_type = "Available"
                  /\ page < EntryEnd(entry)
     IN  \/ /\ more
            /\ fa' = mark_free(fa, page)
            /\ page' = page + 1
            /\ UNCHANGED <<outer, ret, pc>>
         \/ /\ ~ more
            /\ outer < Len(map)
            /\ outer' = outer + 1
            /\ page' = EntryStart(map[outer + 1])
            /\ UNCHANGED <<fa, ret, pc>>
         \/ /\ ~ more
            /\ outer = Len(map)
            /\ Return(None)
            /\ UNCHANGED <<fa, outer, page>>
  /\ UNCHANGED <<before, call>>

\* The body shared by both passes of alloc.
TakePage ==
  /\ ~ is_allocated(fa, page)
  /\ fa' = [mark_allocated(fa, page) EXCEPT !.first_free = page + 1]
  /\ Return(page * PAGE_SIZE)
  /\ UNCHANGED <<outer, page>>

\* alloc: first_free .. total_pages.
Ahead ==
  /\ pc = "ahead"
  /\ \/ page < fa.total_pages /\ TakePage
     \/ /\ page < fa.total_pages
        /\ is_allocated(fa, page)
        /\ page' = page + 1
        /\ UNCHANGED <<fa, outer, ret, pc>>
     \/ /\ page >= fa.total_pages
        /\ page' = 0
        /\ pc' = "behind"
        /\ UNCHANGED <<fa, outer, ret>>
  /\ UNCHANGED <<before, call>>

\* alloc: 0 .. first_free, then None.
Behind ==
  /\ pc = "behind"
  /\ \/ page < fa.first_free /\ TakePage
     \/ /\ page < fa.first_free
        /\ is_allocated(fa, page)
        /\ page' = page + 1
        /\ UNCHANGED <<fa, outer, ret, pc>>
     \/ /\ page >= fa.first_free
        /\ Return(None)
        /\ UNCHANGED <<fa, outer, page>>
  /\ UNCHANGED <<before, call>>

\* alloc_contiguous: start_page = outer; the test has reached page.
Runs ==
  /\ pc = "runs"
  /\ LET n == call[2]
     IN  \/ /\ outer > fa.total_pages - n
            /\ Return(None)
            /\ UNCHANGED <<fa, outer, page>>
         \/ /\ outer <= fa.total_pages - n
            /\ page < outer + n
            /\ IF is_allocated(fa, page)
               THEN outer' = outer + 1 /\ page' = outer + 1
               ELSE page' = page + 1 /\ UNCHANGED outer
            /\ UNCHANGED <<fa, ret, pc>>
         \/ /\ outer <= fa.total_pages - n
            /\ page = outer + n
            /\ page' = outer
            /\ pc' = "mark"
            /\ UNCHANGED <<fa, outer, ret>>
  /\ UNCHANGED <<before, call>>

\* alloc_contiguous: marking the run that was found.
MarkRun ==
  /\ pc = "mark"
  /\ IF page < outer + call[2]
     THEN /\ fa' = mark_allocated(fa, page)
          /\ page' = page + 1
          /\ UNCHANGED <<outer, ret, pc>>
     ELSE /\ fa' = [fa EXCEPT !.first_free = outer + call[2]]
          /\ Return(outer * PAGE_SIZE)
          /\ UNCHANGED <<outer, page>>
  /\ UNCHANGED <<before, call>>

\* free_contiguous: i = page counts from 0.
Give ==
  /\ pc = "give"
  /\ LET start == call[2]
     IN  IF page < call[3]
         THEN /\ fa' = mark_free(fa, start + page)
              /\ page' = page + 1
              /\ UNCHANGED <<outer, ret, pc>>
         ELSE /\ fa' = IF start < fa.first_free
                       THEN [fa EXCEPT !.first_free = start] ELSE fa
              /\ Return(None)
              /\ UNCHANGED <<outer, page>>
  /\ UNCHANGED <<before, call>>

Next == SetAll \/ FreeEntry \/ Ahead \/ Behind \/ Runs \/ MarkRun \/ Give

\* A call runs to completion under the allocator's mutex.
Spec == Init /\ [][Next]_vars

----------------------------------------------------------------------------
\* The operators of Frames say what the loops of phys.rs leave and return.
ClosedFormsAgree ==
  pc = "done" =>
    CASE call[1] = "init"  -> fa = init(before, call[2])
      [] call[1] = "alloc" -> [fa |-> fa, ret |-> ret] = alloc(before)
      [] call[1] = "alloc_contiguous" ->
           [fa |-> fa, ret |-> ret] = alloc_contiguous(before, call[2])
      [] call[1] = "free_contiguous" ->
           fa = free_contiguous(before, call[2] * PAGE_SIZE, call[3])
=============================================================================
