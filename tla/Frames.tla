------------------------------- MODULE Frames -------------------------------
(***************************************************************************)
(* The physical frame allocator of kernel/src/mem/phys.rs as operators on  *)
(* a value: struct FrameAllocator is the record                            *)
(*    [bitmap, first_free, total_pages, free_pages]                        *)
(* and every method is an operator from a record (and its arguments) to    *)
(* the record it leaves, paired with the answer when it has one.  The      *)
(* state machines that own an allocator (FrameAllocator, Paging, Heap)     *)
(* apply these operators to a variable.                                    *)
(*                                                                         *)
(* bitmap[p] = TRUE stands for a set bit, i.e. page p is not free.  The    *)
(* loops over pages are written in closed form; FrameLoops checks the      *)
(* closed forms against the literal loops.                                 *)
(***************************************************************************)
EXTENDS Integers, FiniteSets, FiniteSetsExt, Sequences

CONSTANTS
  MAX_PAGES,   \* number of pages the bitmap covers
  PAGE_SIZE,   \* size of a page, in the unit addresses are counted in
  U64,         \* number of values of a u64 (2^64 in the code)
  None         \* Option::None

ASSUME MaxPagesAssumption == MAX_PAGES \in Nat \ {0}
ASSUME PageSizeAssumption == PAGE_SIZE \in Nat \ {0}
ASSUME U64Assumption      == U64 \in Nat \ {0}
ASSUME NoneAssumption     == None \notin Nat

Pages == 0 .. MAX_PAGES - 1

\* The type of struct FrameAllocator.  free_pages is not bounded by the
\* number of pages: without a memory map, init sets it independently of the
\* bitmap.
FrameAllocatorType ==
  [bitmap      : [Pages -> BOOLEAN],
   first_free  : 0 .. MAX_PAGES,
   total_pages : 0 .. MAX_PAGES,
   free_pages  : Nat]

----------------------------------------------------------------------------
(* Addresses.  The release build (the Makefile's default) wraps on         *)
(* overflow, hence the reductions modulo U64.                              *)

page_align_down(addr) == addr - (addr % PAGE_SIZE)

page_align_up(addr) == page_align_down((addr + PAGE_SIZE - 1) % U64)

\* The pages start .. end - 1 that init visits for a memory map entry: the
\* pages that lie wholly inside [base, base + length).
EntryStart(entry) == page_align_up(entry.base) \div PAGE_SIZE

EntryEnd(entry) ==
  page_align_down((entry.base + entry.length) % U64) \div PAGE_SIZE

EntryPages(entry) == EntryStart(entry) .. EntryEnd(entry) - 1

\* The pages below MAX_PAGES of the Available entries of a memory map.
AvailablePages(map) ==
  {p \in Pages : \E i \in DOMAIN map : /\ map[i].mem_type = "Available"
                                       /\ p \in EntryPages(map[i])}

----------------------------------------------------------------------------
(* FrameAllocator::new: the static initial value.  Every bit is clear, but *)
(* total_pages is 0, so nothing can be allocated.                          *)
new ==
  [bitmap      |-> [p \in Pages |-> FALSE],
   first_free  |-> 0,
   total_pages |-> 0,
   free_pages  |-> 0]

is_allocated(fa, page) ==
  IF page \in Pages THEN fa.bitmap[page] ELSE TRUE

\* Mutants.
mark_free_all_recounted(fa, pages) ==
  LET inside == pages \cap Pages
  IN  [fa EXCEPT !.bitmap      = [p \in Pages |-> @[p] /\ p \notin pages],
                 !.free_pages  = @ + Cardinality(inside),
                 !.total_pages = Max({@} \cup {p + 1 : p \in inside})]

mark_free_all_short_total(fa, pages) ==
  LET freed == {p \in pages \cap Pages : fa.bitmap[p]}
  IN  [fa EXCEPT !.bitmap      = [p \in Pages |-> @[p] /\ p \notin pages],
                 !.free_pages  = @ + Cardinality(freed),
                 !.total_pages = Max({@} \cup freed)]

\* mark_free called once for every page of a set, in any order.
mark_free_all(fa, pages) ==
  LET freed == {p \in pages \cap Pages : fa.bitmap[p]}
  IN  [fa EXCEPT !.bitmap      = [p \in Pages |-> @[p] /\ p \notin pages],
                 !.free_pages  = @ + Cardinality(freed),
                 !.total_pages = Max({@} \cup {p + 1 : p \in freed})]

\* mark_allocated called once for every page of a set, in any order.
mark_allocated_all(fa, pages) ==
  LET taken == {p \in pages \cap Pages : ~ fa.bitmap[p]}
  IN  [fa EXCEPT !.bitmap     = [p \in Pages |-> @[p] \/ p \in pages],
                 !.free_pages = @ - Cardinality(taken)]

\* init: everything allocated, then the Available pages freed.  With no
\* memory map only the two counters are set.
init(fa, map) ==
  LET full == [p \in Pages |-> TRUE]
  IN  IF map = << >>
      THEN [bitmap      |-> full,
            first_free  |-> fa.first_free,
            total_pages |-> MAX_PAGES,
            free_pages  |-> MAX_PAGES]
      ELSE mark_free_all([fa EXCEPT !.bitmap = full], AvailablePages(map))

\* The free pages of lo .. hi - 1.
FreeIn(fa, lo, hi) == {p \in lo .. hi - 1 : ~ is_allocated(fa, p)}

\* Mutants.
TakeRun_skips_one(fa, start, n) ==
  [fa  |-> [mark_allocated_all(fa, start .. start + n - 1)
              EXCEPT !.first_free = start + n + 1],
   ret |-> start * PAGE_SIZE]

TakeRun_leaves_last(fa, start, n) ==
  [fa  |-> [mark_allocated_all(fa, start .. start + n - 2)
              EXCEPT !.first_free = start + n - 1],
   ret |-> start * PAGE_SIZE]

\* Take the run of n pages at start and move the search hint behind it.
TakeRun(fa, start, n) ==
  [fa  |-> [mark_allocated_all(fa, start .. start + n - 1)
              EXCEPT !.first_free = start + n],
   ret |-> start * PAGE_SIZE]

\* Mutant.
alloc_one_pass(fa) ==
  LET ahead == FreeIn(fa, fa.first_free, fa.total_pages)
  IN  IF ahead # {} THEN TakeRun(fa, Min(ahead), 1)
      ELSE [fa |-> fa, ret |-> None]

\* alloc: first fit from the hint to the end, then from 0 to the hint.
alloc(fa) ==
  LET ahead  == FreeIn(fa, fa.first_free, fa.total_pages)
      behind == FreeIn(fa, 0, fa.first_free)
  IN  IF ahead # {} THEN TakeRun(fa, Min(ahead), 1)
      ELSE IF behind # {} THEN TakeRun(fa, Min(behind), 1)
      ELSE [fa |-> fa, ret |-> None]

\* The starts alloc_contiguous would accept, in the range it searches.
RunStarts(fa, lo, n) ==
  {s \in lo .. fa.total_pages - n : FreeIn(fa, s, s + n) = s .. s + n - 1}

\* alloc_contiguous: first fit from the hint to the end; no second pass.  What
\* a call that returns does: with n above total_pages and not above free_pages
\* the unsigned subtraction in the loop bound wraps, and the search for a run
\* goes on through the pages of the whole u64 range.
alloc_contiguous(fa, n) ==
  LET starts == RunStarts(fa, fa.first_free, n)
  IN  IF n = 0 \/ n > fa.free_pages \/ starts = {}
      THEN [fa |-> fa, ret |-> None]
      ELSE TakeRun(fa, Min(starts), n)

\* Mutant.
free_keeps_hint(fa, addr) ==
  LET page == addr \div PAGE_SIZE
  IN  IF page \in Pages /\ is_allocated(fa, page)
      THEN mark_free_all(fa, {page})
      ELSE fa

\* free: one page, wherever inside it the address points.
free(fa, addr) ==
  LET page == addr \div PAGE_SIZE
  IN  IF page \in Pages /\ is_allocated(fa, page)
      THEN [mark_free_all(fa, {page})
              EXCEPT !.first_free = IF page < @ THEN page ELSE @]
      ELSE fa

\* free_contiguous: the hint moves even when no page changed.
free_contiguous(fa, addr, n) ==
  LET start == addr \div PAGE_SIZE
  IN  [mark_free_all(fa, start .. start + n - 1)
         EXCEPT !.first_free = IF start < @ THEN start ELSE @]

\* stats, as (total, used, free).
stats(fa) == <<fa.total_pages, fa.total_pages - fa.free_pages, fa.free_pages>>

----------------------------------------------------------------------------
(* What the properties speak about.                                        *)

\* The pages whose bit is clear.
FreePages(fa) == {p \in Pages : ~ fa.bitmap[p]}

\* The pages alloc can hand out: clear bits below the high-water mark.
Allocatable(fa) == {p \in FreePages(fa) : p < fa.total_pages}
=============================================================================
