----------------------------- MODULE HeapProofs -----------------------------
(***************************************************************************)
(* Proofs about Heap, for every size of the tables and of the heap, every  *)
(* memory map, every layout asked for and any number of interrupts.        *)
(***************************************************************************)
EXTENDS Heap, FramesProofs

----------------------------------------------------------------------------
(* The invariant.                                                          *)

AllLayouts == Layouts \cup IrqLayouts

Types ==
  /\ pc \in [Contexts -> {"boot", "idle", "extend", "mapping", "retry"}]
  /\ req \in [Contexts -> {None} \cup AllLayouts]
  /\ excuse \in [Contexts -> BOOLEAN]
  /\ lock \in {None} \cup Contexts
  /\ job \in [pages : Nat, done : Nat]
  /\ inner \in {None} \cup Nat
  /\ heap_end \in Nat

\* Who maps pages holds heap_end; who asked for memory has a request; and the
\* inner allocator is empty until init is done.
Stages ==
  /\ pc["irq"] # "boot"
  /\ \A c \in Contexts :
       /\ lock = c <=> pc[c] = "mapping"
       /\ pc[c] \in {"extend", "retry"} => req[c] # None
       /\ pc[c] \in {"boot", "idle"} => req[c] = None
  /\ pc["irq"] = "mapping" => req["irq"] # None
  /\ pc["main"] = "boot" \/ (pc["main"] = "mapping" /\ req["main"] = None) => inner = None
  /\ lock = None => job.done = 0

\* The heap ends where its last page ends, and what is being mapped stays
\* below the cap.
Extent ==
  /\ inner = None => heap_end = HEAP_START
  /\ inner # None => heap_end = HEAP_START + inner
  /\ \E h \in Nat : heap_end = HEAP_START + h * PAGE_SIZE
  /\ heap_end <= HEAP_START + MAX_HEAP_SIZE
  /\ job.done <= job.pages
  /\ lock # None => heap_end + job.pages * PAGE_SIZE <= HEAP_START + MAX_HEAP_SIZE

\* By how much the counter of the allocator exceeds the number of free pages.
Excess == IF map = << >> THEN MAX_PAGES ELSE 0

Taken == AvailablePages(map) \ FreePages(fa)

\* The kernel's tables are whole, and as many frames are gone as there are
\* pages in the heap.
Backed ==
  /\ MemoryShape(mem)
  /\ IdentityTables(mem)
  /\ WellFormed(fa, Excess)
  /\ FreePages(fa) \subseteq AvailablePages(map)
  /\ ~ panicked =>
       Cardinality(Taken) * PAGE_SIZE = (heap_end - HEAP_START) + job.done * PAGE_SIZE

\* Blocks lie inside the heap.
Placed ==
  live \subseteq {b \in [at : Nat, size : Nat \ {0}] :
                    HEAP_START <= b.at /\ b.at + b.size <= heap_end}

HeapInv == Types /\ Stages /\ Extent /\ Backed /\ Placed


----------------------------------------------------------------------------
(* Sizes in pages.                                                         *)

\* The least number of pages that holds so many words.
LEMMA PagesForFacts ==
  ASSUME NEW n \in Nat
  PROVE  /\ PagesFor(n) \in Nat
         /\ PagesFor(n) * PAGE_SIZE >= n
         /\ \A m \in Nat : n <= m * PAGE_SIZE => PagesFor(n) <= m
<1> DEFINE P == PAGE_SIZE
           q == PagesFor(n)
           r == (n + P - 1) % P
<1>1. P \in Nat \ {0}
  BY PageSizeAssumption
<1>2. n + P - 1 \in Nat
  BY <1>1
<1>3. q \in Nat /\ r \in 0 .. P - 1 /\ n + P - 1 = q * P + r
  BY <1>1, <1>2, Division DEF PagesFor
<1> HIDE DEF P, q, r
<1>4. q * P \in Nat
  BY <1>1, <1>3
<1>5. q * P >= n
  BY <1>1, <1>3, <1>4
<1>6. ASSUME NEW m \in Nat, n <= m * P
      PROVE  q <= m
  <2>1. m * P \in Nat /\ (m + 1) * P = m * P + P
    BY <1>1
  <2>2. q * P < (m + 1) * P
    BY <1>1, <1>3, <1>4, <1>6, <2>1
  <2>3. ~ (m + 1 <= q)
    <3>1. m + 1 <= q => (m + 1) * P <= q * P
      BY <1>1, <1>3, ProductOrder
    <3> QED
      BY <1>1, <1>4, <2>1, <2>2, <3>1
  <2> QED
    BY <1>3, <2>3
<1> QED
  BY <1>3, <1>5, <1>6 DEF P, q

\* The heap's start and its cap, in pages.
LEMMA CapInPages ==
  \E s, m \in Nat : HEAP_START = s * PAGE_SIZE /\ MAX_HEAP_SIZE = m * PAGE_SIZE
<1>1. PAGE_SIZE \in Nat \ {0} /\ HEAP_START \in Nat /\ MAX_HEAP_SIZE \in Nat
  BY PageSizeAssumption, HeapAssumption
<1>2. /\ HEAP_START \div PAGE_SIZE \in Nat
      /\ HEAP_START = (HEAP_START \div PAGE_SIZE) * PAGE_SIZE + (HEAP_START % PAGE_SIZE)
  BY <1>1, Division
<1>3. /\ MAX_HEAP_SIZE \div PAGE_SIZE \in Nat
      /\ MAX_HEAP_SIZE = (MAX_HEAP_SIZE \div PAGE_SIZE) * PAGE_SIZE + (MAX_HEAP_SIZE % PAGE_SIZE)
  BY <1>1, Division
<1>4. /\ HEAP_START = (HEAP_START \div PAGE_SIZE) * PAGE_SIZE
      /\ MAX_HEAP_SIZE = (MAX_HEAP_SIZE \div PAGE_SIZE) * PAGE_SIZE
  BY <1>1, <1>2, <1>3, HeapAssumption
<1> QED
  BY <1>2, <1>3, <1>4

\* What try_extend sets out to map fits under the cap and is at least one
\* page.
LEMMA ExtensionFits ==
  ASSUME HeapInv, heap_end - HEAP_START < MAX_HEAP_SIZE, NEW n \in Nat \ {0}
  PROVE  /\ ExtensionPages(n) \in Nat
         /\ heap_end + ExtensionPages(n) * PAGE_SIZE <= HEAP_START + MAX_HEAP_SIZE
<1> DEFINE want == Max({n, EXTEND_CHUNK_SIZE})
           room == MAX_HEAP_SIZE - (heap_end - HEAP_START)
           least == Min({want, room})
<1>1. /\ HEAP_START \in Nat /\ MAX_HEAP_SIZE \in Nat /\ heap_end \in Nat
      /\ EXTEND_CHUNK_SIZE \in Nat \ {0} /\ PAGE_SIZE \in Nat \ {0}
  BY HeapAssumption, PageSizeAssumption DEF HeapInv, Types
<1>2. want \in {n, EXTEND_CHUNK_SIZE}
  <2> DEFINE S == {n, EXTEND_CHUNK_SIZE}
  <2>1. n + EXTEND_CHUNK_SIZE \in Nat /\ S \in SUBSET (0 .. n + EXTEND_CHUNK_SIZE) /\ S # {}
    BY <1>1
  <2> HIDE DEF S
  <2>2. Max(S) \in S
    BY <2>1, MaxIsGreatest
  <2> QED
    BY <2>2 DEF S
<1>3. want \in Nat /\ room \in Nat
  BY <1>1, <1>2
<1> HIDE DEF want, room
<1>4. least \in {want, room} /\ least <= room
  <2> DEFINE S == {want, room}
  <2>1. S \in SUBSET Nat /\ S # {}
    BY <1>3
  <2> HIDE DEF S
  <2>2. Min(S) \in S /\ \A y \in S : Min(S) <= y
    BY <2>1, MinIsLeast
  <2> QED
    BY <2>2 DEF S
<1>5. least \in Nat
  BY <1>3, <1>4
<1>6. ExtensionPages(n) = PagesFor(least)
  BY DEF ExtensionPages, want, room
<1> HIDE DEF least
<1>7. PICK s, m \in Nat : HEAP_START = s * PAGE_SIZE /\ MAX_HEAP_SIZE = m * PAGE_SIZE
  BY CapInPages
<1>8. PICK h \in Nat : heap_end = HEAP_START + h * PAGE_SIZE
  BY DEF HeapInv, Extent
<1>9. h * PAGE_SIZE \in Nat /\ m * PAGE_SIZE \in Nat
  BY <1>1, <1>7, <1>8
<1>10. h <= m
  <2>1. h * PAGE_SIZE <= m * PAGE_SIZE
    BY <1>1, <1>7, <1>8, <1>9
  <2> QED
    BY <1>1, <1>7, <1>8, <2>1, ProductOrder
<1>11. room = (m - h) * PAGE_SIZE /\ m - h \in Nat
  <2>1. PICK d \in Nat : m = h + d
    <3>1. m - h \in Nat /\ m = h + (m - h)
      BY <1>10
    <3> QED
      BY <3>1
  <2>2. m * PAGE_SIZE = h * PAGE_SIZE + d * PAGE_SIZE /\ d * PAGE_SIZE \in Nat
    BY <1>1, <2>1
  <2>3. m - h = d
    BY <2>1
  <2> QED
    BY <1>1, <1>7, <1>8, <1>9, <2>2, <2>3 DEF room
<1>12. PagesFor(least) \in Nat /\ PagesFor(least) <= m - h
  BY <1>4, <1>5, <1>11, PagesForFacts
<1>13. PagesFor(least) * PAGE_SIZE <= room /\ PagesFor(least) * PAGE_SIZE \in Nat
  BY <1>1, <1>11, <1>12, ProductOrder
<1>14. heap_end + PagesFor(least) * PAGE_SIZE <= HEAP_START + MAX_HEAP_SIZE
  BY <1>1, <1>3, <1>13 DEF room
<1> QED
  BY <1>6, <1>12, <1>14

----------------------------------------------------------------------------
(* The loop that maps pages.                                               *)

\* The address mapped next lies in the heap's range, on a page boundary.
LEMMA NextVirtInHeap ==
  ASSUME HeapInv, lock # None, job.done < job.pages
  PROVE  /\ NextVirt \in HEAP_START .. HEAP_START + MAX_HEAP_SIZE - 1
         /\ heap_end <= NextVirt
         /\ NextVirt \in 0 .. MAX_PAGES * PAGE_SIZE - 1
         /\ Block(NextVirt) * E \in Pages \ KernelTables
         /\ indices(NextVirt).pt \in Index
<1>1. /\ HEAP_START \in Nat /\ MAX_HEAP_SIZE \in Nat /\ heap_end \in Nat
      /\ job.pages \in Nat /\ job.done \in Nat /\ PAGE_SIZE \in Nat \ {0}
      /\ MAX_PAGES * PAGE_SIZE \in Nat
      /\ HEAP_START + MAX_HEAP_SIZE <= MAX_PAGES * PAGE_SIZE
  BY HeapAssumption, PageSizeAssumption, MaxPagesAssumption DEF HeapInv, Types
<1>2. /\ heap_end + job.pages * PAGE_SIZE <= HEAP_START + MAX_HEAP_SIZE
      /\ HEAP_START <= heap_end
  <2>1. PICK h \in Nat : heap_end = HEAP_START + h * PAGE_SIZE
    BY DEF HeapInv, Extent
  <2>2. h * PAGE_SIZE \in Nat
    BY <1>1, <2>1
  <2> QED
    BY <1>1, <2>1, <2>2 DEF HeapInv, Extent
<1>3. (job.done + 1) * PAGE_SIZE <= job.pages * PAGE_SIZE
  BY <1>1, ProductOrder
<1>4. /\ (job.done + 1) * PAGE_SIZE = job.done * PAGE_SIZE + PAGE_SIZE
      /\ job.done * PAGE_SIZE \in Nat /\ job.pages * PAGE_SIZE \in Nat
  BY <1>1
<1>5. NextVirt = heap_end + job.done * PAGE_SIZE
  BY DEF NextVirt
<1>6. /\ NextVirt \in HEAP_START .. HEAP_START + MAX_HEAP_SIZE - 1
      /\ heap_end <= NextVirt
      /\ NextVirt \in 0 .. MAX_PAGES * PAGE_SIZE - 1
  BY <1>1, <1>2, <1>3, <1>4, <1>5
<1>7. Block(NextVirt) * E \notin KernelTables
  BY <1>6, PastKernelAssumption DEF Block, Page
<1>8. Block(NextVirt) * E \in Pages
  BY <1>6, IdentityIndices
<1>9. indices(NextVirt).pt \in Index
  BY <1>6, IdentityIndices, IndicesAre
<1> QED
  BY <1>6, <1>7, <1>8, <1>9

\* A round either finds no frame at all, or takes one free page and writes one
\* word, into the first frame of the block of E frames around the address.
LEMMA Round ==
  ASSUME HeapInv, lock # None, job.done < job.pages
  PROVE  \/ /\ FreePages(fa) = {}
            /\ alloc(fa) = [fa |-> fa, ret |-> None]
            /\ MappedNext(alloc(fa)) = [ok |-> FALSE, mem |-> mem, fa |-> fa]
         \/ /\ alloc(fa).ret # None
            /\ WellFormed(alloc(fa).fa, Excess)
            /\ \E s \in FreePages(fa) : FreePages(alloc(fa).fa) = FreePages(fa) \ {s}
            /\ MappedNext(alloc(fa)).ok
            /\ MappedNext(alloc(fa)).fa = alloc(fa).fa
            /\ \E e : MappedNext(alloc(fa)).mem =
                 Written(mem, Block(NextVirt) * E, indices(NextVirt).pt, e)
<1>1. WellFormed(fa, Excess) /\ Excess \in Nat /\ IdentityTables(mem)
  BY MaxPagesAssumption DEF HeapInv, Backed, Excess
<1>2. CASE FreePages(fa) = {} /\ alloc(fa) = [fa |-> fa, ret |-> None]
  BY <1>2 DEF MappedNext
<1>3. ASSUME NEW s \in FreePages(fa), alloc(fa) = TakeRun(fa, s, 1)
      PROVE  /\ alloc(fa).ret # None
             /\ WellFormed(alloc(fa).fa, Excess)
             /\ FreePages(alloc(fa).fa) = FreePages(fa) \ {s}
             /\ MappedNext(alloc(fa)).ok
             /\ MappedNext(alloc(fa)).fa = alloc(fa).fa
             /\ \E e : MappedNext(alloc(fa)).mem =
                  Written(mem, Block(NextVirt) * E, indices(NextVirt).pt, e)
  <2>1. s \in Nat
    BY MaxPagesAssumption DEF FreePages, Pages
  <2>2. /\ WellFormed(alloc(fa).fa, Excess)
        /\ FreePages(alloc(fa).fa) = FreePages(fa) \ {s}
        /\ alloc(fa).ret = s * PAGE_SIZE
    <3> DEFINE x == TakeRun(fa, s, 1)
    <3>1. /\ WellFormed(x.fa, Excess) /\ FreePages(x.fa) = FreePages(fa) \ {s}
          /\ x.ret = s * PAGE_SIZE
      BY <1>1, TakeOneKeepsShape
    <3> QED
      BY <1>3, <3>1, Zenon
  <2>3. alloc(fa).ret # None
    <3>1. s * PAGE_SIZE \in Nat
      BY <2>1, PageSizeAssumption
    <3> QED
      BY <2>2, <3>1, NoneAssumption
  <2> DEFINE r == alloc(fa)
             flags == {"PRESENT", "WRITABLE"}
  <2>4. MappedNext(r) = map_page(mem, r.fa, NextVirt, r.ret, flags)
    BY <2>3 DEF MappedNext
  <2> HIDE DEF r, flags
  <2> DEFINE v == NextVirt
             e1 == PageTableEntry(r.ret, flags \cup {"PRESENT"})
             m1 == Written(mem, Block(v) * E, indices(v).pt, e1)
  <2>5. v \in 0 .. MAX_PAGES * PAGE_SIZE - 1
    BY NextVirtInHeap
  <2> HIDE DEF v
  <2>6. LET x == map_page(mem, r.fa, v, r.ret, flags)
        IN  x.ok /\ x.fa = r.fa /\ x.mem = m1
    <3> DEFINE g == r.fa
               a == r.ret
    <3> HIDE DEF g, a
    <3>1. LET x == map_page(mem, g, v, a, flags)
          IN  /\ x.ok /\ x.fa = g
              /\ x.mem = Written(mem, Block(v) * E, indices(v).pt,
                                 PageTableEntry(a, flags \cup {"PRESENT"}))
      BY <1>1, <2>5, MapInIdentity
    <3> QED
      BY <3>1 DEF g, a
  <2>7. MappedNext(r) = map_page(mem, r.fa, v, r.ret, flags)
    BY <2>4 DEF v
  <2> HIDE DEF m1
  <2>8. MappedNext(r).ok /\ MappedNext(r).fa = r.fa /\ MappedNext(r).mem = m1
    BY <2>6, <2>7
  <2> HIDE DEF e1
  <2>9. \E e : MappedNext(r).mem = Written(mem, Block(v) * E, indices(v).pt, e)
    BY <2>8 DEF m1
  <2> QED
    BY <2>2, <2>3, <2>8, <2>9 DEF r, v
<1> QED
  BY <1>1, <1>2, <1>3, AllocTakesOne

\* Who is inside the loop holds the lock.
LEMMA MappingLocks ==
  ASSUME HeapInv, NEW c \in Contexts, pc[c] = "mapping"
  PROVE  lock = c /\ lock # None
BY OptionAssumption DEF HeapInv, Stages

\* One page of a mapping loop: alloc_frame answers and map_page succeeds.
LEMMA MapOneKeeps ==
  ASSUME HeapInv, NEW c \in Contexts, MapOne(c)
  PROVE  HeapInv'
<1>1. /\ pc[c] = "mapping" /\ job.done < job.pages /\ ~ panicked
      /\ alloc(fa).ret # None
      /\ mem' = MappedNext(alloc(fa)).mem /\ fa' = MappedNext(alloc(fa)).fa
      /\ job' = [job EXCEPT !.done = @ + 1]
      /\ UNCHANGED <<map, heap_end, lock, inner, live, pc, req, excuse, irqs, panicked>>
  BY DEF MapOne, Runs
<1>2. lock = c /\ lock # None
  BY <1>1, MappingLocks
<1>3. /\ WellFormed(fa', Excess)
      /\ \E s \in FreePages(fa) : FreePages(fa') = FreePages(fa) \ {s}
      /\ \E e : mem' = Written(mem, Block(NextVirt) * E, indices(NextVirt).pt, e)
  <2>1. alloc(fa) # [fa |-> fa, ret |-> None]
    BY <1>1
  <2> QED
    BY <1>1, <1>2, <2>1, Round
<1>4. PICK s \in FreePages(fa) : FreePages(fa') = FreePages(fa) \ {s}
  BY <1>3
<1>5. PICK e : mem' = Written(mem, Block(NextVirt) * E, indices(NextVirt).pt, e)
  BY <1>3
<1>6. Block(NextVirt) * E \in Pages \ KernelTables /\ indices(NextVirt).pt \in Index
  BY <1>1, <1>2, NextVirtInHeap
<1>7. MemoryShape(mem') /\ IdentityTables(mem')
  BY <1>5, <1>6, WriteWord, WriteKeepsIdentity DEF HeapInv, Backed
<1>8. job.pages \in Nat /\ job.done \in Nat /\ job' = [pages |-> job.pages, done |-> job.done + 1]
  BY <1>1 DEF HeapInv, Types
<1>9. Taken' = Taken \cup {s} /\ s \notin Taken
  <2>1. AvailablePages(map)' = AvailablePages(map)
    BY <1>1
  <2>2. s \in AvailablePages(map) /\ FreePages(fa)' = FreePages(fa')
    BY <1>4 DEF HeapInv, Backed
  <2> QED
    BY <1>4, <2>1, <2>2 DEF Taken
<1>10. IsFiniteSet(Taken)
  <2>1. IsFiniteSet(Pages) /\ Taken \subseteq Pages
    BY FS_Interval, MaxPagesAssumption DEF Pages, Taken, AvailablePages
  <2> QED
    BY <2>1, FS_Subset
<1>11. Cardinality(Taken') = Cardinality(Taken) + 1 /\ Cardinality(Taken) \in Nat
  BY <1>9, <1>10, FS_AddElement, FS_CardinalityType
<1>12. Cardinality(Taken') * PAGE_SIZE = (heap_end - HEAP_START) + (job.done + 1) * PAGE_SIZE
  <2> DEFINE n == Cardinality(Taken)
             d == job.done
             P == PAGE_SIZE
  <2>1. n * P = (heap_end - HEAP_START) + d * P
    BY <1>1 DEF HeapInv, Backed
  <2>2. n \in Nat /\ d \in Nat /\ P \in Nat /\ heap_end - HEAP_START \in Int
    BY <1>8, <1>11, PageSizeAssumption, HeapAssumption DEF HeapInv, Types
  <2> HIDE DEF n, d, P
  <2>3. (n + 1) * P = n * P + P /\ (d + 1) * P = d * P + P /\ n * P \in Nat /\ d * P \in Nat
    BY <2>2
  <2>4. (n + 1) * P = (heap_end - HEAP_START) + (d + 1) * P
    BY <2>1, <2>2, <2>3
  <2> QED
    BY <1>11, <2>4 DEF n, d, P
<1>13. Types'
  BY <1>1, <1>8 DEF HeapInv, Types
<1>14. Stages'
  <2>1. UNCHANGED <<pc, req, lock, inner>> /\ lock' # None
    BY <1>1, <1>2
  <2> QED
    BY <2>1 DEF HeapInv, Stages
<1>15. Extent'
  BY <1>1, <1>8 DEF HeapInv, Extent
<1>16. Backed'
  <2>1. Excess' = Excess /\ FreePages(fa') \subseteq AvailablePages(map') /\ heap_end' = heap_end
    BY <1>1, <1>4 DEF HeapInv, Backed, Excess
  <2>2. job'.done = job.done + 1
    BY <1>8
  <2> QED
    BY <1>3, <1>7, <1>12, <2>1, <2>2 DEF Backed
<1>17. Placed'
  BY <1>1 DEF HeapInv, Placed
<1> QED
  BY <1>13, <1>14, <1>15, <1>16, <1>17 DEF HeapInv

\* The loop stops only when no frame is left, and then nothing changes: the
\* heap lies in the identity mapping and needs no new table.
LEMMA MapStopsKeeps ==
  ASSUME HeapInv, NEW c \in Contexts, MapStops(c)
  PROVE  HeapInv' /\ FreePages(fa) = {} /\ UNCHANGED <<mem, fa>>
<1>1. /\ pc[c] = "mapping" /\ job.done < job.pages
      /\ ~ MappedNext(alloc(fa)).ok
      /\ mem' = MappedNext(alloc(fa)).mem
      /\ fa' = IF alloc(fa).ret = None THEN fa ELSE free(MappedNext(alloc(fa)).fa, alloc(fa).ret)
      /\ IF req[c] = None THEN panicked' = TRUE /\ UNCHANGED job
         ELSE job' = [job EXCEPT !.pages = job.done] /\ UNCHANGED panicked
      /\ UNCHANGED <<map, heap_end, lock, inner, live, pc, req, excuse, irqs>>
  BY DEF MapStops
<1>2. lock = c /\ lock # None
  BY <1>1, MappingLocks
<1>3. /\ FreePages(fa) = {} /\ alloc(fa) = [fa |-> fa, ret |-> None]
      /\ MappedNext(alloc(fa)) = [ok |-> FALSE, mem |-> mem, fa |-> fa]
  BY <1>1, <1>2, Round
<1>4. mem' = mem /\ fa' = fa
  BY <1>1, <1>3
<1>5. job.pages \in Nat /\ job.done \in Nat
  BY DEF HeapInv, Types
<1>6. /\ job' \in [pages : Nat, done : Nat] /\ job'.done = job.done
      /\ job'.done <= job'.pages /\ job'.pages <= job.pages
  <2>1. job' = job \/ job' = [job EXCEPT !.pages = job.done]
    BY <1>1
  <2> QED
    BY <1>1, <1>5, <2>1 DEF HeapInv, Types
<1>7. ~ panicked' => ~ panicked
  BY <1>1
<1>8. Types'
  BY <1>1, <1>6 DEF HeapInv, Types
<1>9. Stages'
  <2>1. UNCHANGED <<pc, req, lock, inner>> /\ lock' # None
    BY <1>1, <1>2
  <2> QED
    BY <2>1 DEF HeapInv, Stages
<1>10. Extent'
  <2>1. job'.pages * PAGE_SIZE <= job.pages * PAGE_SIZE
    BY <1>5, <1>6, PageSizeAssumption, ProductOrder
  <2>2. heap_end + job'.pages * PAGE_SIZE <= HEAP_START + MAX_HEAP_SIZE
    <3>1. heap_end + job.pages * PAGE_SIZE <= HEAP_START + MAX_HEAP_SIZE
      BY <1>2 DEF HeapInv, Extent
    <3>2. /\ job.pages * PAGE_SIZE \in Nat /\ job'.pages * PAGE_SIZE \in Nat
          /\ heap_end \in Nat /\ HEAP_START \in Nat /\ MAX_HEAP_SIZE \in Nat
      BY <1>5, <1>6, PageSizeAssumption, HeapAssumption DEF HeapInv, Types
    <3> QED
      BY <2>1, <3>1, <3>2
  <2> QED
    BY <1>1, <1>6, <2>2 DEF HeapInv, Extent
<1>11. Backed'
  BY <1>1, <1>4, <1>6, <1>7 DEF HeapInv, Backed, Excess, Taken
<1>12. Placed'
  BY <1>1 DEF HeapInv, Placed
<1> QED
  BY <1>3, <1>4, <1>8, <1>9, <1>10, <1>11, <1>12 DEF HeapInv

----------------------------------------------------------------------------
(* The other steps.                                                        *)

\* A layout that was asked for.
LEMMA LayoutFacts ==
  ASSUME NEW layout \in AllLayouts
  PROVE  layout.size \in Nat \ {0} /\ layout.align \in Nat \ {0} /\ layout # None
BY LayoutAssumption, OptionAssumption DEF AllLayouts

\* The block first fit finds lies in the heap and is not there yet.
LEMMA FitFacts ==
  ASSUME HeapInv, NEW layout \in AllLayouts, Fits(layout) # {}
  PROVE  LET block == [at |-> Min(Fits(layout)), size |-> layout.size]
         IN  /\ inner # None
             /\ block \in [at : Nat, size : Nat \ {0}]
             /\ HEAP_START <= block.at /\ block.at + block.size <= heap_end
             /\ block \notin live
<1> DEFINE at == Min(Fits(layout))
           block == [at |-> at, size |-> layout.size]
<1>1. inner # None
  BY DEF Fits
<1>2. /\ inner \in Nat /\ HEAP_START \in Nat /\ heap_end = HEAP_START + inner
      /\ layout.size \in Nat \ {0}
  BY <1>1, HeapAssumption, LayoutFacts DEF HeapInv, Types, Extent
<1>3. \A x \in Fits(layout) :
        /\ x \in HEAP_START .. HEAP_START + inner - layout.size
        /\ \A b \in live : WordsOf(b) \cap WordsOf([at |-> x, size |-> layout.size]) = {}
  BY <1>1 DEF Fits
<1>4. Fits(layout) \in SUBSET Nat
  <2>1. \A x \in HEAP_START .. HEAP_START + inner - layout.size : x \in Nat
    BY <1>2
  <2>2. \A x \in Fits(layout) : x \in Nat
    BY <1>3, <2>1
  <2> QED
    BY <2>2
<1>5. at \in Fits(layout)
  BY <1>4, MinIsLeast
<1>6. /\ at \in HEAP_START .. HEAP_START + inner - layout.size
      /\ \A b \in live : WordsOf(b) \cap WordsOf([at |-> at, size |-> layout.size]) = {}
  BY <1>3, <1>5
<1> HIDE DEF at
<1>7. at \in Nat /\ HEAP_START <= at /\ at + layout.size <= heap_end
  BY <1>2, <1>6
<1>8. at \in WordsOf(block)
  BY <1>2, <1>7 DEF WordsOf
<1>9. block \notin live
  BY <1>6, <1>8
<1>10. block \in [at : Nat, size : Nat \ {0}] /\ block.at = at /\ block.size = layout.size
  BY <1>2, <1>7
<1> QED
  BY <1>1, <1>7, <1>9, <1>10 DEF at

\* Taking a block leaves it in the heap.
LEMMA TakePlaced ==
  ASSUME HeapInv, NEW c \in Contexts, NEW layout \in AllLayouts,
         TakeFirstFit(c, layout), heap_end' = heap_end
  PROVE  /\ Placed' /\ excuse' \in [Contexts -> BOOLEAN] /\ live' # live
         /\ \A d \in Contexts : d # c /\ pc[d] # "idle" => excuse'[d]
<1> DEFINE block == [at |-> Min(Fits(layout)), size |-> layout.size]
<1>1. /\ Fits(layout) # {} /\ live' = live \cup {block}
      /\ excuse' = [excuse EXCEPT ![c] = FALSE, ![Other(c)] = pc[Other(c)] # "idle"]
  BY DEF TakeFirstFit
<1>2. /\ block \in [at : Nat, size : Nat \ {0}]
      /\ HEAP_START <= block.at /\ block.at + block.size <= heap_end
      /\ block \notin live
  BY <1>1, FitFacts
<1> HIDE DEF block
<1>3. Placed'
  BY <1>1, <1>2 DEF HeapInv, Placed
<1>4. excuse \in [Contexts -> BOOLEAN] /\ (pc[Other(c)] # "idle") \in BOOLEAN
  BY DEF HeapInv, Types
<1>5. excuse' \in [Contexts -> BOOLEAN]
  BY <1>1, <1>4
<1>6. \A d \in Contexts : d # c => d = Other(c)
  BY DEF Contexts, Other
<1>7. \A d \in Contexts : d # c /\ pc[d] # "idle" => excuse'[d]
  BY <1>1, <1>4, <1>6
<1> QED
  BY <1>1, <1>2, <1>3, <1>5, <1>7

\* Steps that touch neither memory nor the extent of the heap.
LEMMA QuietKeeps ==
  ASSUME HeapInv,
         UNCHANGED <<map, mem, fa, heap_end, lock, inner, job>>, panicked' = panicked
  PROVE  Extent' /\ Backed'
<1>1. Extent'
  BY DEF HeapInv, Extent
<1>2. Backed'
  BY DEF HeapInv, Backed, Excess, Taken
<1> QED
  BY <1>1, <1>2

\* alloc, the first attempt.
LEMMA AllocKeeps ==
  ASSUME HeapInv, NEW c \in Contexts, NEW layout \in AllLayouts, Alloc(c, layout)
  PROVE  HeapInv'
<1>1. /\ pc[c] = "idle"
      /\ UNCHANGED <<map, mem, fa, heap_end, lock, inner, job, panicked>>
      /\ \/ TakeFirstFit(c, layout) /\ UNCHANGED <<pc, req>>
         \/ /\ pc' = [pc EXCEPT ![c] = "extend"]
            /\ req' = [req EXCEPT ![c] = layout]
            /\ excuse' = [excuse EXCEPT ![c] = FALSE]
            /\ live' = live
  BY DEF Alloc
<1>2. Extent' /\ Backed'
  BY <1>1, QuietKeeps
<1>3. CASE TakeFirstFit(c, layout) /\ UNCHANGED <<pc, req>>
  <2>1. Placed' /\ excuse' \in [Contexts -> BOOLEAN]
    BY <1>1, <1>3, TakePlaced
  <2>2. Types' /\ Stages'
    BY <1>1, <1>3, <2>1 DEF HeapInv, Types, Stages
  <2> QED
    BY <1>2, <2>1, <2>2 DEF HeapInv
<1>4. CASE /\ pc' = [pc EXCEPT ![c] = "extend"]
           /\ req' = [req EXCEPT ![c] = layout]
           /\ excuse' = [excuse EXCEPT ![c] = FALSE]
           /\ live' = live
  <2>1. Types'
    BY <1>1, <1>4 DEF HeapInv, Types
  <2>2. layout # None
    BY LayoutFacts
  <2>3. Stages'
    BY <1>1, <1>4, <2>2 DEF HeapInv, Types, Stages
  <2>4. Placed'
    BY <1>1, <1>4 DEF HeapInv, Placed
  <2> QED
    BY <1>2, <2>1, <2>3, <2>4 DEF HeapInv
<1> QED
  BY <1>1, <1>3, <1>4

\* alloc, the second attempt.
LEMMA RetryKeeps ==
  ASSUME HeapInv, NEW c \in Contexts, Retry(c)
  PROVE  HeapInv'
<1>1. /\ pc[c] = "retry"
      /\ pc' = [pc EXCEPT ![c] = "idle"] /\ req' = [req EXCEPT ![c] = None]
      /\ UNCHANGED <<map, mem, fa, heap_end, lock, inner, job, panicked>>
      /\ \/ TakeFirstFit(c, req[c])
         \/ excuse' = [excuse EXCEPT ![c] = FALSE] /\ live' = live
  BY DEF Retry, Return
<1>2. Extent' /\ Backed'
  BY <1>1, QuietKeeps
<1>3. req[c] \in AllLayouts
  BY <1>1 DEF HeapInv, Types, Stages
<1>4. Placed' /\ excuse' \in [Contexts -> BOOLEAN]
  <2>1. CASE TakeFirstFit(c, req[c])
    BY <1>1, <1>3, <2>1, TakePlaced
  <2>2. CASE excuse' = [excuse EXCEPT ![c] = FALSE] /\ live' = live
    BY <1>1, <2>2 DEF HeapInv, Placed, Types
  <2> QED
    BY <1>1, <2>1, <2>2
<1>5. Types'
  BY <1>1, <1>4 DEF HeapInv, Types
<1>6. Stages'
  BY <1>1 DEF HeapInv, Types, Stages
<1> QED
  BY <1>2, <1>4, <1>5, <1>6 DEF HeapInv

\* dealloc
LEMMA DeallocKeeps ==
  ASSUME HeapInv, NEW block, Dealloc("main", block)
  PROVE  HeapInv'
<1>1. /\ live' \subseteq live
      /\ UNCHANGED <<map, mem, fa, heap_end, lock, inner, pc, req, job, excuse, panicked>>
  BY DEF Dealloc
<1>2. Extent' /\ Backed'
  BY <1>1, QuietKeeps
<1> QED
  BY <1>1, <1>2 DEF HeapInv, Types, Stages, Placed

\* try_extend, up to its loop.
LEMMA ExtendKeeps ==
  ASSUME HeapInv, NEW c \in Contexts, Extend(c)
  PROVE  HeapInv'
<1>1. /\ pc[c] = "extend" /\ lock = None
      /\ UNCHANGED <<map, mem, fa, heap_end, inner, live, panicked>>
  BY DEF Extend
<1>2. req[c] \in AllLayouts /\ job.done = 0
  BY <1>1 DEF HeapInv, Types, Stages
<1>3. CASE heap_end - HEAP_START >= MAX_HEAP_SIZE
  <2>1. /\ pc' = [pc EXCEPT ![c] = "idle"] /\ req' = [req EXCEPT ![c] = None]
        /\ excuse' = [excuse EXCEPT ![c] = FALSE]
        /\ UNCHANGED <<lock, job>>
    BY <1>3 DEF Extend, Return
  <2>2. Extent' /\ Backed'
    BY <1>1, <2>1, QuietKeeps
  <2>3. Types' /\ Stages' /\ Placed'
    BY <1>1, <2>1 DEF HeapInv, Types, Stages, Placed
  <2> QED
    BY <2>2, <2>3 DEF HeapInv
<1>4. CASE heap_end - HEAP_START < MAX_HEAP_SIZE
  <2> DEFINE n == ExtensionPages(req[c].size)
  <2>1. ~ (heap_end - HEAP_START >= MAX_HEAP_SIZE)
    BY <1>4, HeapAssumption DEF HeapInv, Types
  <2>2. /\ lock' = c /\ job' = [pages |-> n, done |-> 0]
        /\ pc' = [pc EXCEPT ![c] = "mapping"] /\ UNCHANGED <<req, excuse>>
    BY <2>1 DEF Extend
  <2>3. n \in Nat /\ heap_end + n * PAGE_SIZE <= HEAP_START + MAX_HEAP_SIZE
    BY <1>2, <1>4, LayoutFacts, ExtensionFits
  <2> HIDE DEF n
  <2>4. job'.done = 0 /\ job'.pages = n /\ job' \in [pages : Nat, done : Nat]
    BY <2>2, <2>3
  <2>5. Types'
    BY <1>1, <2>2, <2>4 DEF HeapInv, Types
  <2>6. Stages'
    <3>1. \A d \in Contexts : pc[d] # "mapping"
      BY <1>1, OptionAssumption DEF HeapInv, Stages
    <3>2. lock' # None /\ \A d \in Contexts : pc'[d] = IF d = c THEN "mapping" ELSE pc[d]
      BY <2>2, OptionAssumption DEF HeapInv, Types
    <3>3. req[c] # None
      BY <1>2, LayoutFacts
    <3> QED
      BY <1>1, <2>2, <3>1, <3>2, <3>3 DEF HeapInv, Stages, Contexts
  <2>7. Extent'
    BY <1>1, <2>2, <2>3, <2>4 DEF HeapInv, Extent
  <2>8. Backed'
    BY <1>1, <1>2, <2>4 DEF HeapInv, Backed, Excess, Taken
  <2>9. Placed'
    BY <1>1 DEF HeapInv, Placed
  <2> QED
    BY <2>5, <2>6, <2>7, <2>8, <2>9 DEF HeapInv
<1>5. heap_end - HEAP_START >= MAX_HEAP_SIZE \/ heap_end - HEAP_START < MAX_HEAP_SIZE
  BY HeapAssumption DEF HeapInv, Types
<1> QED
  BY <1>3, <1>4, <1>5

\* init, up to its loop.
LEMMA InitHeapKeeps ==
  ASSUME HeapInv, InitHeap
  PROVE  HeapInv'
<1> DEFINE n == PagesFor(INITIAL_HEAP_SIZE)
<1>1. /\ pc["main"] = "boot" /\ lock = None /\ lock' = "main"
      /\ job' = [pages |-> n, done |-> 0]
      /\ pc' = [pc EXCEPT !["main"] = "mapping"]
      /\ UNCHANGED <<map, mem, fa, heap_end, inner, live, req, excuse, panicked>>
  BY DEF InitHeap
<1>2. job.done = 0 /\ inner = None /\ heap_end = HEAP_START /\ req["main"] = None
  BY <1>1 DEF HeapInv, Stages, Extent, Contexts
<1>3. n \in Nat /\ HEAP_START + n * PAGE_SIZE <= HEAP_START + MAX_HEAP_SIZE
  <2>1. PICK s, m \in Nat : HEAP_START = s * PAGE_SIZE /\ MAX_HEAP_SIZE = m * PAGE_SIZE
    BY CapInPages
  <2>2. n \in Nat /\ n <= m
    BY <2>1, HeapAssumption, PagesForFacts
  <2>3. n * PAGE_SIZE <= m * PAGE_SIZE /\ n * PAGE_SIZE \in Nat
    BY <2>1, <2>2, PageSizeAssumption, ProductOrder
  <2> QED
    BY <2>1, <2>2, <2>3, HeapAssumption
<1> HIDE DEF n
<1>4. job'.done = 0 /\ job'.pages = n /\ job' \in [pages : Nat, done : Nat]
  BY <1>1, <1>3
<1>5. Types'
  BY <1>1, <1>4 DEF HeapInv, Types, Contexts
<1>6. Stages'
  <2>1. \A d \in Contexts : pc[d] # "mapping"
    BY <1>1, OptionAssumption DEF HeapInv, Stages
  <2>2. lock' # None /\ \A d \in Contexts : pc'[d] = IF d = "main" THEN "mapping" ELSE pc[d]
    BY <1>1, OptionAssumption DEF HeapInv, Types, Contexts
  <2> QED
    BY <1>1, <1>2, <2>1, <2>2 DEF HeapInv, Stages, Contexts
<1>7. Extent'
  BY <1>1, <1>2, <1>3, <1>4 DEF HeapInv, Extent
<1>8. Backed'
  BY <1>1, <1>2, <1>4 DEF HeapInv, Backed, Excess, Taken
<1>9. Placed'
  BY <1>1 DEF HeapInv, Placed
<1> QED
  BY <1>5, <1>6, <1>7, <1>8, <1>9 DEF HeapInv

\* The end of the heap moves by the pages that were mapped.
LEMMA EndMoves ==
  ASSUME HeapInv, lock # None, NEW h \in Nat, heap_end = HEAP_START + h * PAGE_SIZE
  PROVE  LET d == job.done * PAGE_SIZE
         IN  /\ d \in Nat
             /\ heap_end + d = HEAP_START + (h + job.done) * PAGE_SIZE
             /\ h + job.done \in Nat
             /\ heap_end + d <= HEAP_START + MAX_HEAP_SIZE
<1>1. /\ job.done \in Nat /\ job.pages \in Nat /\ job.done <= job.pages
      /\ HEAP_START \in Nat /\ MAX_HEAP_SIZE \in Nat /\ heap_end \in Nat
      /\ PAGE_SIZE \in Nat \ {0}
      /\ heap_end + job.pages * PAGE_SIZE <= HEAP_START + MAX_HEAP_SIZE
  BY HeapAssumption, PageSizeAssumption DEF HeapInv, Types, Extent
<1>2. /\ job.done * PAGE_SIZE <= job.pages * PAGE_SIZE
      /\ job.done * PAGE_SIZE \in Nat /\ job.pages * PAGE_SIZE \in Nat
  BY <1>1, ProductOrder
<1>3. (h + job.done) * PAGE_SIZE = h * PAGE_SIZE + job.done * PAGE_SIZE /\ h * PAGE_SIZE \in Nat
  BY <1>1
<1> QED
  BY <1>1, <1>2, <1>3

\* Announcing the mapped pages: init's and try_extend's last section.
LEMMA Announce ==
  ASSUME HeapInv, lock # None, ~ panicked,
         heap_end' = heap_end + job.done * PAGE_SIZE,
         inner' = (IF inner = None THEN 0 ELSE inner) + job.done * PAGE_SIZE,
         job' = NoJob, lock' = None,
         UNCHANGED <<map, mem, fa, live>>
  PROVE  /\ Extent' /\ Backed' /\ Placed' /\ inner' \in Nat /\ heap_end' \in Nat
         /\ inner' # None
<1> DEFINE d == job.done * PAGE_SIZE
<1>1. PICK h \in Nat : heap_end = HEAP_START + h * PAGE_SIZE
  BY DEF HeapInv, Extent
<1>2. /\ d \in Nat
      /\ heap_end + d = HEAP_START + (h + job.done) * PAGE_SIZE
      /\ h + job.done \in Nat
      /\ heap_end + d <= HEAP_START + MAX_HEAP_SIZE
  BY <1>1, EndMoves
<1>3. /\ heap_end \in Nat /\ HEAP_START \in Nat
      /\ heap_end = HEAP_START + (IF inner = None THEN 0 ELSE inner)
      /\ (IF inner = None THEN 0 ELSE inner) \in Nat
  BY HeapAssumption DEF HeapInv, Types, Extent
<1>4. Cardinality(Taken) * PAGE_SIZE = (heap_end - HEAP_START) + d
  BY DEF HeapInv, Backed
<1>5. heap_end' = heap_end + d
  OBVIOUS
<1>6. inner' = (IF inner = None THEN 0 ELSE inner) + d
  OBVIOUS
<1> HIDE DEF d
<1>7. inner' \in Nat /\ inner' # None /\ heap_end' \in Nat /\ heap_end' = HEAP_START + inner'
  BY <1>2, <1>3, <1>5, <1>6, NoneAssumption
<1>8. job'.done = 0 /\ job'.pages = 0
  BY DEF NoJob
<1>9. Extent'
  <2>1. \E n \in Nat : heap_end' = HEAP_START + n * PAGE_SIZE
    BY <1>2, <1>5
  <2>2. heap_end' <= HEAP_START + MAX_HEAP_SIZE
    BY <1>2, <1>5
  <2> QED
    BY <1>7, <1>8, <2>1, <2>2 DEF Extent
<1>10. Backed'
  <2>1. Taken' = Taken /\ Excess' = Excess
    BY DEF Taken, Excess
  <2>2. job'.done * PAGE_SIZE = 0
    BY <1>8, PageSizeAssumption
  <2>3. Cardinality(Taken') * PAGE_SIZE = (heap_end' - HEAP_START) + job'.done * PAGE_SIZE
    <3>1. Cardinality(Taken) * PAGE_SIZE = (heap_end' - HEAP_START) + 0
      BY <1>2, <1>3, <1>4, <1>5
    <3> QED
      BY <2>1, <2>2, <3>1
  <2> QED
    BY <2>1, <2>3 DEF HeapInv, Backed
<1>11. Placed'
  BY <1>2, <1>3, <1>5 DEF HeapInv, Placed
<1> QED
  BY <1>7, <1>9, <1>10, <1>11

\* init, after its loop.
LEMMA InitDoneKeeps ==
  ASSUME HeapInv, InitDone
  PROVE  HeapInv'
<1>1. /\ ~ panicked /\ pc["main"] = "mapping" /\ req["main"] = None
      /\ heap_end' = HEAP_START + job.done * PAGE_SIZE
      /\ inner' = job.done * PAGE_SIZE /\ lock' = None /\ job' = NoJob
      /\ pc' = [pc EXCEPT !["main"] = "idle"] /\ req' = [req EXCEPT !["main"] = None]
      /\ UNCHANGED <<map, mem, fa, live, excuse, panicked>>
  BY DEF InitDone, Runs, Return
<1>2. lock = "main" /\ lock # None
  BY <1>1, MappingLocks DEF Contexts
<1>3. inner = None /\ heap_end = HEAP_START
  BY <1>1 DEF HeapInv, Stages, Extent
<1>4. inner' = (IF inner = None THEN 0 ELSE inner) + job.done * PAGE_SIZE
  <2>1. job.done * PAGE_SIZE \in Nat
    BY PageSizeAssumption DEF HeapInv, Types
  <2> QED
    BY <1>1, <1>3, <2>1
<1>5. heap_end' = heap_end + job.done * PAGE_SIZE
  BY <1>1, <1>3
<1>6. Extent' /\ Backed' /\ Placed' /\ inner' \in Nat /\ heap_end' \in Nat /\ inner' # None
  BY <1>1, <1>2, <1>4, <1>5, Announce
<1>7. Types'
  BY <1>1, <1>6 DEF HeapInv, Types, NoJob, Contexts
<1>8. Stages'
  <2>1. job'.done = 0
    BY <1>1 DEF NoJob
  <2>2. pc["irq"] # "mapping" /\ pc["irq"] # "boot"
    BY <1>2, OptionAssumption DEF HeapInv, Stages, Contexts
  <2>3. /\ pc'["main"] = "idle" /\ pc'["irq"] = pc["irq"]
        /\ req'["main"] = None /\ req'["irq"] = req["irq"]
    BY <1>1 DEF HeapInv, Types, Contexts
  <2>4. lock' # "main" /\ lock' # "irq"
    BY <1>1, OptionAssumption DEF Contexts
  <2> QED
    BY <2>1, <2>2, <2>3, <2>4 DEF HeapInv, Stages, Contexts
<1> QED
  BY <1>6, <1>7, <1>8 DEF HeapInv

\* try_extend, after its loop.
LEMMA ExtendDoneKeeps ==
  ASSUME HeapInv, NEW c \in Contexts, ExtendDone(c)
  PROVE  HeapInv'
<1>1. /\ ~ panicked /\ pc[c] = "mapping" /\ req[c] # None /\ job' = NoJob
      /\ UNCHANGED <<map, mem, fa, live>>
  BY DEF ExtendDone, Runs
<1>2. lock = c /\ lock # None
  BY <1>1, MappingLocks
<1>3. job'.done = 0 /\ job'.pages = 0 /\ job' \in [pages : Nat, done : Nat]
  BY <1>1 DEF NoJob
<1>4. \A d \in Contexts : d # c => pc[d] # "mapping"
  BY <1>2 DEF HeapInv, Stages
<1>5. CASE /\ job.done = 0 /\ lock' = None
           /\ pc' = [pc EXCEPT ![c] = "idle"] /\ req' = [req EXCEPT ![c] = None]
           /\ excuse' = [excuse EXCEPT ![c] = FALSE]
           /\ UNCHANGED <<heap_end, inner, panicked>>
  <2>1. Types'
    BY <1>3, <1>5 DEF HeapInv, Types
  <2>2. Stages'
    <3>1. \A d \in Contexts :
            /\ pc'[d] = IF d = c THEN "idle" ELSE pc[d]
            /\ req'[d] = IF d = c THEN None ELSE req[d]
      BY <1>5 DEF HeapInv, Types
    <3>2. \A d \in Contexts : lock' # d /\ pc'[d] # "mapping"
      BY <1>4, <1>5, <3>1, OptionAssumption
    <3> QED
      BY <1>3, <1>5, <3>1, <3>2 DEF HeapInv, Stages, Contexts
  <2>3. Extent'
    BY <1>3, <1>5 DEF HeapInv, Extent
  <2>4. Backed'
    BY <1>1, <1>3, <1>5 DEF HeapInv, Backed, Excess, Taken
  <2>5. Placed'
    BY <1>1, <1>5 DEF HeapInv, Placed
  <2> QED
    BY <2>1, <2>2, <2>3, <2>4, <2>5 DEF HeapInv
<1>6. CASE /\ job.done > 0 /\ inner = None /\ panicked' = TRUE
           /\ UNCHANGED <<heap_end, inner, lock, pc, req, excuse>>
  <2>1. Types'
    BY <1>3, <1>6 DEF HeapInv, Types
  <2>2. Stages'
    BY <1>2, <1>3, <1>6 DEF HeapInv, Stages
  <2>3. Extent'
    <3>1. heap_end + job'.pages * PAGE_SIZE <= HEAP_START + MAX_HEAP_SIZE
      BY <1>3, PageSizeAssumption DEF HeapInv, Extent, Types
    <3> QED
      BY <1>3, <1>6, <3>1 DEF HeapInv, Extent
  <2>4. Backed'
    BY <1>1, <1>6 DEF HeapInv, Backed, Excess
  <2>5. Placed'
    BY <1>1, <1>6 DEF HeapInv, Placed
  <2> QED
    BY <2>1, <2>2, <2>3, <2>4, <2>5 DEF HeapInv
<1>7. CASE /\ job.done > 0 /\ inner # None
           /\ inner' = Extended(job.done * PAGE_SIZE)
           /\ heap_end' = heap_end + job.done * PAGE_SIZE
           /\ lock' = None
           /\ pc' = [pc EXCEPT ![c] = "retry"]
           /\ excuse' = [excuse EXCEPT ![c] = @ \/ job.done * PAGE_SIZE < req[c].size]
           /\ UNCHANGED <<req, panicked>>
  <2>1. inner' = (IF inner = None THEN 0 ELSE inner) + job.done * PAGE_SIZE
    BY <1>7 DEF Extended
  <2>2. /\ Extent' /\ Backed' /\ Placed' /\ inner' \in Nat /\ heap_end' \in Nat
        /\ inner' # None
    BY <1>1, <1>2, <1>7, <2>1, Announce
  <2>3. excuse' \in [Contexts -> BOOLEAN]
    <3>1. (excuse[c] \/ job.done * PAGE_SIZE < req[c].size) \in BOOLEAN
      OBVIOUS
    <3> QED
      BY <1>7, <3>1 DEF HeapInv, Types
  <2>4. Types'
    BY <1>3, <1>7, <2>2, <2>3 DEF HeapInv, Types
  <2>5. Stages'
    <3>1. \A d \in Contexts : pc'[d] = IF d = c THEN "retry" ELSE pc[d]
      BY <1>7 DEF HeapInv, Types
    <3>2. \A d \in Contexts : lock' # d /\ pc'[d] # "mapping"
      BY <1>4, <1>7, <3>1, OptionAssumption
    <3>3. pc["main"] # "boot"
      <4>1. inner # None
        BY <1>7
      <4> QED
        BY <4>1 DEF HeapInv, Stages
    <3> QED
      BY <1>1, <1>3, <1>7, <3>1, <3>2, <3>3 DEF HeapInv, Stages, Contexts
  <2> QED
    BY <2>2, <2>4, <2>5 DEF HeapInv
<1> QED
  BY <1>5, <1>6, <1>7 DEF ExtendDone, Return

\* The invariant holds at the start.
LEMMA InitHolds == Init => HeapInv
<1> SUFFICES ASSUME Init PROVE HeapInv
  OBVIOUS
<1>1. /\ mem = paging_init([f \in Pages |-> ZeroTable]) /\ fa = init(new, map)
      /\ heap_end = HEAP_START /\ lock = None /\ inner = None /\ live = {}
      /\ pc = [main |-> "boot", irq |-> "idle"]
      /\ req = [c \in Contexts |-> None] /\ job = NoJob
      /\ excuse = [c \in Contexts |-> FALSE]
  BY DEF Init
<1>2. /\ job \in [pages : Nat, done : Nat] /\ job.done = 0 /\ job.pages = 0
  BY <1>1 DEF NoJob
<1>3. HEAP_START \in Nat /\ PAGE_SIZE \in Nat \ {0} /\ MAX_HEAP_SIZE \in Nat
  BY HeapAssumption, PageSizeAssumption
<1>4. /\ pc \in [Contexts -> {"boot", "idle", "extend", "mapping", "retry"}]
      /\ pc["main"] = "boot" /\ pc["irq"] = "idle"
  BY <1>1 DEF Contexts
<1>5. Types
  BY <1>1, <1>2, <1>3, <1>4 DEF Types
<1>6. Stages
  BY <1>1, <1>2, <1>4, OptionAssumption DEF Stages, Contexts
<1>7. Extent
  <2>1. heap_end = HEAP_START + 0 * PAGE_SIZE /\ heap_end <= HEAP_START + MAX_HEAP_SIZE
    BY <1>1, <1>3
  <2> QED
    BY <1>1, <1>2, <2>1 DEF Extent
<1>8. Backed
  <2>1. MemoryShape(mem) /\ IdentityTables(mem)
    <3>1. MemoryShape([f \in Pages |-> ZeroTable])
      BY DEF MemoryShape, ZeroTable
    <3> QED
      BY <1>1, <3>1, InitTables
  <2>2. WellFormed(fa, Excess) /\ FreePages(fa) = AvailablePages(map)
    <3>1. map # << >> => WellFormed(fa, 0) /\ FreePages(fa) = AvailablePages(map)
      BY <1>1, InitFillsBitmap
    <3>2. map = << >> => WellFormed(fa, MAX_PAGES) /\ FreePages(fa) = {}
      BY <1>1, InitFillsBitmap
    <3>3. map = << >> => AvailablePages(map) = {}
      BY DEF AvailablePages
    <3> QED
      BY <3>1, <3>2, <3>3 DEF Excess
  <2>3. Taken = {}
    BY <2>2 DEF Taken
  <2>4. Cardinality(Taken) * PAGE_SIZE = (heap_end - HEAP_START) + job.done * PAGE_SIZE
    BY <1>1, <1>2, <1>3, <2>3, FS_EmptySet
  <2> QED
    BY <2>1, <2>2, <2>4 DEF Backed
<1>9. Placed
  BY <1>1 DEF Placed
<1> QED
  BY <1>5, <1>6, <1>7, <1>8, <1>9 DEF HeapInv

\* Every step keeps it.
LEMMA NextKeeps ==
  ASSUME HeapInv, [Next]_vars
  PROVE  HeapInv'
<1>1. ASSUME NEW layout \in AllLayouts, NEW c \in Contexts, Alloc(c, layout)
      PROVE  HeapInv'
  BY <1>1, AllocKeeps
<1>2. ASSUME UNCHANGED vars
      PROVE  HeapInv'
  <2>1. UNCHANGED <<map, mem, fa, heap_end, lock, inner, job, panicked, live, pc, req, excuse>>
    BY <1>2 DEF vars
  <2>2. Extent' /\ Backed'
    BY <2>1, QuietKeeps
  <2> QED
    BY <2>1, <2>2 DEF HeapInv, Types, Stages, Placed
<1>3. ASSUME NEW c \in Contexts, Step(c)
      PROVE  HeapInv'
  BY <1>2, <1>3, ExtendKeeps, MapOneKeeps, MapStopsKeeps, ExtendDoneKeeps, RetryKeeps
     DEF Step, Spin
<1>4. "main" \in Contexts /\ "irq" \in Contexts /\ Layouts \subseteq AllLayouts
      /\ IrqLayouts \subseteq AllLayouts
  BY DEF Contexts, AllLayouts
<1> QED
  BY <1>1, <1>2, <1>3, <1>4, InitHeapKeeps, InitDoneKeeps, DeallocKeeps DEF Next, Halted

\* So it holds in every state.
LEMMA HeapInvAlways == Spec => []HeapInv
BY InitHolds, NextKeeps, PTL DEF Spec

\* The hard cap holds, whatever is asked for and whenever it is looked at.
THEOREM CapCorrect == Spec => []CapRespected
<1>1. HeapInv => CapRespected
  <2> SUFFICES ASSUME HeapInv, lock # None
               PROVE  NextVirt - HEAP_START <= MAX_HEAP_SIZE
    BY DEF CapRespected
  <2>1. PICK h \in Nat : heap_end = HEAP_START + h * PAGE_SIZE
    BY DEF HeapInv, Extent
  <2>2. /\ job.done * PAGE_SIZE \in Nat
        /\ heap_end + job.done * PAGE_SIZE <= HEAP_START + MAX_HEAP_SIZE
    BY <2>1, EndMoves
  <2>3. heap_end \in Nat /\ HEAP_START \in Nat /\ MAX_HEAP_SIZE \in Nat
    BY HeapAssumption DEF HeapInv, Types
  <2> QED
    BY <2>2, <2>3 DEF NextVirt
<1> QED
  BY <1>1, HeapInvAlways, PTL

\* Whenever heap_end is free the inner allocator's range is what was mapped,
\* and at any time as many frames are gone as there are pages in it or about
\* to be: no frame leaks, and no memory is announced that was not mapped.
THEOREM FramesCorrect == Spec => []HeapMatchesFrames
<1>1. HeapInv => HeapMatchesFrames
  <2> SUFFICES ASSUME HeapInv, ~ panicked PROVE HeapMatchesFrames
    BY DEF HeapMatchesFrames
  <2> DEFINE size == IF inner = None THEN 0 ELSE inner
  <2>1. heap_end = HEAP_START + size /\ size \in Nat /\ HEAP_START \in Nat
    BY HeapAssumption DEF HeapInv, Types, Extent
  <2>2. Cardinality(Taken) * PAGE_SIZE = (heap_end - HEAP_START) + job.done * PAGE_SIZE
    BY DEF HeapInv, Backed
  <2>3. job.done * PAGE_SIZE \in Nat /\ (lock = None => job.done * PAGE_SIZE = 0)
    BY PageSizeAssumption DEF HeapInv, Types, Stages
  <2> HIDE DEF size
  <2>4. Cardinality(Taken) * PAGE_SIZE = size + job.done * PAGE_SIZE
    BY <2>1, <2>2, <2>3
  <2>5. lock = None => Cardinality(Taken) * PAGE_SIZE = size
    BY <2>1, <2>3, <2>4
  <2> QED
    BY <2>1, <2>4, <2>5 DEF HeapMatchesFrames, Taken, size
<1> QED
  BY <1>1, HeapInvAlways, PTL

----------------------------------------------------------------------------
(* The second attempt.                                                     *)

\* Whatever is aligned to a page is aligned as asked.
PageAligned == \A layout \in AllLayouts : PAGE_SIZE % layout.align = 0

\* A second attempt without an excuse finds room.
RoomLeft ==
  \A c \in Contexts : pc[c] = "retry" /\ ~ excuse[c] => Fits(req[c]) # {}

\* What fits still fits when the heap grows and blocks go.
LEMMA FitsGrows ==
  ASSUME HeapInv, HeapInv', NEW layout \in AllLayouts, live' \subseteq live,
         inner # None => inner' # None /\ inner <= inner', Fits(layout) # {}
  PROVE  Fits(layout)' # {}
<1>1. inner # None
  BY DEF Fits
<1>2. inner' # None /\ inner <= inner' /\ inner \in Nat /\ inner' \in Nat
  BY <1>1 DEF HeapInv, Types
<1>3. HEAP_START \in Nat /\ layout.size \in Nat
  BY HeapAssumption, LayoutFacts
<1>4. PICK at \in HEAP_START .. HEAP_START + inner - layout.size :
        /\ at % layout.align = 0
        /\ \A b \in live : WordsOf(b) \cap WordsOf([at |-> at, size |-> layout.size]) = {}
  BY <1>1 DEF Fits
<1>5. at \in HEAP_START .. HEAP_START + inner' - layout.size
  BY <1>2, <1>3, <1>4
<1>6. \A b \in live' : WordsOf(b) \cap WordsOf([at |-> at, size |-> layout.size]) = {}
  BY <1>4
<1>7. at \in Fits(layout)'
  <2>1. Fits(layout)' = {x \in HEAP_START .. HEAP_START + inner' - layout.size :
          /\ x % layout.align = 0
          /\ \A b \in live' : WordsOf(b) \cap WordsOf([at |-> x, size |-> layout.size]) = {}}
    BY <1>2 DEF Fits, WordsOf
  <2> QED
    BY <1>4, <1>5, <1>6, <2>1
<1> QED
  BY <1>7

\* The new pages have room for what they were mapped for.
LEMMA NewPagesFit ==
  ASSUME PageAligned, HeapInv, HeapInv', inner # None, lock # None,
         live' = live, inner' = inner + job.done * PAGE_SIZE,
         NEW layout \in AllLayouts, ~ (job.done * PAGE_SIZE < layout.size)
  PROVE  Fits(layout)' # {}
<1> DEFINE added == job.done * PAGE_SIZE
<1>1. /\ inner \in Nat /\ HEAP_START \in Nat /\ heap_end = HEAP_START + inner
      /\ job.done \in Nat /\ PAGE_SIZE \in Nat \ {0}
  BY HeapAssumption, PageSizeAssumption DEF HeapInv, Types, Extent
<1>2. layout.size \in Nat \ {0} /\ layout.align \in Nat \ {0}
  BY LayoutFacts
<1>3. added \in Nat /\ layout.size <= added
  BY <1>1, <1>2
<1>4. heap_end % layout.align = 0
  <2>1. PICK h \in Nat : heap_end = HEAP_START + h * PAGE_SIZE
    BY DEF HeapInv, Extent
  <2>2. PICK s, m \in Nat : HEAP_START = s * PAGE_SIZE /\ MAX_HEAP_SIZE = m * PAGE_SIZE
    BY CapInPages
  <2> DEFINE a == layout.align
             t == PAGE_SIZE \div a
  <2>3. t \in Nat /\ PAGE_SIZE = t * a + (PAGE_SIZE % a) /\ PAGE_SIZE % a = 0
    BY <1>1, <1>2, Division DEF PageAligned
  <2>4. a \in Nat \ {0}
    BY <1>2
  <2> HIDE DEF a, t
  <2>5. PAGE_SIZE = t * a
    BY <2>3, <2>4
  <2>6. (s + h) * t \in Nat /\ heap_end = ((s + h) * t) * a + 0
    <3>1. heap_end = (s + h) * PAGE_SIZE
      BY <1>1, <2>1, <2>2
    <3>2. (s + h) * PAGE_SIZE = ((s + h) * t) * a
      BY <2>1, <2>2, <2>3, <2>4, <2>5
    <3>3. ((s + h) * t) * a \in Nat /\ (s + h) * t \in Nat
      BY <2>1, <2>2, <2>3, <2>4
    <3> QED
      BY <3>1, <3>2, <3>3
  <2>7. (((s + h) * t) * a + 0) % a = 0
    BY <2>4, <2>6, Parts
  <2> QED
    BY <2>6, <2>7 DEF a
<1>5. heap_end \in HEAP_START .. HEAP_START + inner' - layout.size
  BY <1>1, <1>2, <1>3
<1>6. \A b \in live : WordsOf(b) \cap WordsOf([at |-> heap_end, size |-> layout.size]) = {}
  <2>1. \A b \in live : b.at \in Nat /\ b.size \in Nat /\ b.at + b.size <= heap_end
    BY DEF HeapInv, Placed
  <2>2. heap_end \in Nat
    BY <1>1
  <2> QED
    BY <1>2, <2>1, <2>2 DEF WordsOf
<1>7. inner' # None
  <2>1. inner' \in Nat
    BY <1>1, <1>3
  <2> QED
    BY <2>1, NoneAssumption
<1>8. heap_end \in Fits(layout)'
  <2>1. Fits(layout)' = {x \in HEAP_START .. HEAP_START + inner' - layout.size :
          /\ x % layout.align = 0
          /\ \A b \in live' : WordsOf(b) \cap WordsOf([at |-> x, size |-> layout.size]) = {}}
    BY <1>7 DEF Fits, WordsOf
  <2> QED
    BY <1>4, <1>5, <1>6, <2>1
<1> QED
  BY <1>8

\* The heap does not shrink, and no block appears except through first fit.
LEMMA RoomKept ==
  ASSUME PageAligned, HeapInv, HeapInv', RoomLeft, Next
  PROVE  RoomLeft'
<1> SUFFICES ASSUME NEW c \in Contexts, pc'[c] = "retry", ~ excuse'[c]
             PROVE  Fits(req[c])' # {}
  BY DEF RoomLeft
<1>1. req'[c] \in AllLayouts
  BY DEF HeapInv, Types, Stages
<1>2. PICK layout \in AllLayouts : layout = req'[c]
  BY <1>1
<1>3. Fits(layout)' = Fits(req[c])'
  BY <1>2 DEF Fits
<1>4. ASSUME pc[c] = "retry", ~ excuse[c], req[c] = req'[c], live' \subseteq live,
             inner # None => inner' # None /\ inner <= inner'
      PROVE  Fits(layout)' # {}
  <2>1. Fits(layout) # {}
    BY <1>2, <1>4 DEF RoomLeft
  <2> QED
    BY <1>4, <2>1, FitsGrows
<1>5. ASSUME NEW d \in Contexts, NEW l \in AllLayouts, TakeFirstFit(d, l), heap_end' = heap_end,
             pc' = pc \/ pc' = [pc EXCEPT ![d] = "idle"], pc[d] # "retry" \/ pc'[d] = "idle"
      PROVE  FALSE
  <2>1. d # c /\ pc[c] = "retry"
    BY <1>5 DEF HeapInv, Types
  <2> QED
    BY <1>5, <2>1, TakePlaced
<1>6. inner \in Nat \/ inner = None
  BY DEF HeapInv, Types
<1>7. ASSUME NEW d \in Contexts, NEW l \in AllLayouts, Alloc(d, l)
      PROVE  Fits(layout)' # {}
  <2>1. /\ pc[d] = "idle" /\ UNCHANGED <<heap_end, inner>>
        /\ \/ TakeFirstFit(d, l) /\ UNCHANGED <<pc, req>>
           \/ /\ pc' = [pc EXCEPT ![d] = "extend"] /\ req' = [req EXCEPT ![d] = l]
              /\ excuse' = [excuse EXCEPT ![d] = FALSE] /\ live' = live
    BY <1>7 DEF Alloc
  <2>2. ~ TakeFirstFit(d, l) \/ pc' # pc
    BY <2>1, <1>5
  <2>3. /\ pc' = [pc EXCEPT ![d] = "extend"] /\ req' = [req EXCEPT ![d] = l]
        /\ excuse' = [excuse EXCEPT ![d] = FALSE] /\ live' = live
    BY <2>1, <2>2
  <2>4. d # c /\ pc[c] = "retry" /\ ~ excuse[c] /\ req[c] = req'[c]
    BY <2>3 DEF HeapInv, Types
  <2> QED
    BY <1>4, <1>6, <2>1, <2>3, <2>4
<1>8. ASSUME NEW d \in Contexts, Retry(d)
      PROVE  Fits(layout)' # {}
  <2>1. /\ pc[d] = "retry" /\ pc' = [pc EXCEPT ![d] = "idle"] /\ req' = [req EXCEPT ![d] = None]
        /\ UNCHANGED <<heap_end, inner>>
        /\ \/ TakeFirstFit(d, req[d])
           \/ excuse' = [excuse EXCEPT ![d] = FALSE] /\ live' = live
    BY <1>8 DEF Retry, Return
  <2>2. req[d] \in AllLayouts /\ pc'[d] = "idle"
    BY <2>1 DEF HeapInv, Types, Stages
  <2>3. excuse' = [excuse EXCEPT ![d] = FALSE] /\ live' = live
    BY <2>1, <2>2, <1>5
  <2>4. d # c /\ pc[c] = "retry" /\ ~ excuse[c] /\ req[c] = req'[c]
    BY <2>1, <2>3 DEF HeapInv, Types
  <2> QED
    BY <1>4, <1>6, <2>1, <2>3, <2>4
<1>9. ASSUME NEW d \in Contexts, ExtendDone(d)
      PROVE  Fits(layout)' # {}
  <2>1. pc[d] = "mapping" /\ live' = live
    BY <1>9 DEF ExtendDone
  <2>2. lock # None
    BY <2>1, MappingLocks
  <2>3. CASE /\ pc' = [pc EXCEPT ![d] = "idle"] /\ req' = [req EXCEPT ![d] = None]
             /\ excuse' = [excuse EXCEPT ![d] = FALSE] /\ inner' = inner
    <3>1. d # c /\ pc[c] = "retry" /\ ~ excuse[c] /\ req[c] = req'[c]
      BY <2>3 DEF HeapInv, Types
    <3> QED
      BY <1>4, <1>6, <2>1, <2>3, <3>1
  <2>4. CASE UNCHANGED <<pc, req, excuse, inner>>
    BY <1>4, <1>6, <2>1, <2>4
  <2>5. CASE /\ inner # None /\ inner' = Extended(job.done * PAGE_SIZE)
             /\ pc' = [pc EXCEPT ![d] = "retry"]
             /\ excuse' = [excuse EXCEPT ![d] = @ \/ job.done * PAGE_SIZE < req[d].size]
             /\ req' = req
    <3>1. inner' = inner + job.done * PAGE_SIZE
      BY <2>5 DEF Extended
    <3>2. CASE d = c
      <4>1. ~ (job.done * PAGE_SIZE < layout.size)
        BY <1>2, <2>5, <3>2 DEF HeapInv, Types
      <4> QED
        BY <2>1, <2>2, <2>5, <3>1, <4>1, NewPagesFit
    <3>3. CASE d # c
      <4>1. pc[c] = "retry" /\ ~ excuse[c] /\ req[c] = req'[c]
        BY <2>5, <3>3 DEF HeapInv, Types
      <4>2. inner' # None /\ inner <= inner'
        <5>1. job.done * PAGE_SIZE \in Nat /\ inner \in Nat
          BY <2>5, PageSizeAssumption DEF HeapInv, Types
        <5>2. inner' \in Nat /\ inner <= inner'
          BY <3>1, <5>1
        <5> QED
          BY <5>2, NoneAssumption
      <4> QED
        BY <1>4, <2>1, <4>1, <4>2
    <3> QED
      BY <3>2, <3>3
  <2> QED
    BY <1>9, <2>3, <2>4, <2>5 DEF ExtendDone, Return
<1>10. ASSUME NEW d \in Contexts, Extend(d)
       PROVE  Fits(layout)' # {}
  <2>1. /\ pc[d] = "extend" /\ UNCHANGED <<inner, live>>
        /\ \/ /\ pc' = [pc EXCEPT ![d] = "idle"] /\ req' = [req EXCEPT ![d] = None]
              /\ excuse' = [excuse EXCEPT ![d] = FALSE]
           \/ pc' = [pc EXCEPT ![d] = "mapping"] /\ UNCHANGED <<req, excuse>>
    BY <1>10 DEF Extend, Return
  <2>2. d # c /\ pc[c] = "retry" /\ ~ excuse[c] /\ req[c] = req'[c]
    BY <2>1 DEF HeapInv, Types
  <2> QED
    BY <1>4, <1>6, <2>1, <2>2
<1>11. ASSUME NEW d \in Contexts, MapOne(d) \/ MapStops(d) \/ Spin(d)
       PROVE  Fits(layout)' # {}
  <2>1. UNCHANGED <<inner, live, pc, req, excuse>>
    BY <1>11 DEF MapOne, MapStops, Spin, vars
  <2> QED
    BY <1>4, <1>6, <2>1
<1>12. ASSUME InitHeap
       PROVE  Fits(layout)' # {}
  <2>1. /\ pc["main"] = "boot" /\ pc' = [pc EXCEPT !["main"] = "mapping"]
        /\ UNCHANGED <<inner, live, req, excuse>>
    BY <1>12 DEF InitHeap
  <2>2. pc[c] = "retry" /\ ~ excuse[c]
    BY <2>1 DEF HeapInv, Types
  <2> QED
    BY <1>4, <1>6, <2>1, <2>2
<1>13. ASSUME InitDone
       PROVE  Fits(layout)' # {}
  <2>1. /\ pc["main"] = "mapping" /\ req["main"] = None /\ pc' = [pc EXCEPT !["main"] = "idle"]
        /\ req' = [req EXCEPT !["main"] = None] /\ UNCHANGED <<live, excuse>>
    BY <1>13 DEF InitDone, Return
  <2>2. c # "main" /\ pc[c] = "retry" /\ ~ excuse[c] /\ req[c] = req'[c]
    BY <2>1 DEF HeapInv, Types
  <2>3. inner = None
    BY <2>1 DEF HeapInv, Stages
  <2> QED
    BY <1>4, <2>1, <2>2, <2>3
<1>14. ASSUME NEW block, Dealloc("main", block)
       PROVE  Fits(layout)' # {}
  <2>1. live' \subseteq live /\ UNCHANGED <<inner, pc, req, excuse>>
    BY <1>14 DEF Dealloc
  <2> QED
    BY <1>4, <1>6, <2>1
<1>15. ASSUME Halted
       PROVE  Fits(layout)' # {}
  <2>1. UNCHANGED <<inner, live, pc, req, excuse>>
    BY <1>15 DEF Halted, vars
  <2> QED
    BY <1>4, <1>6, <2>1
<1>16. /\ "main" \in Contexts /\ "irq" \in Contexts
       /\ Layouts \subseteq AllLayouts /\ IrqLayouts \subseteq AllLayouts
  BY DEF Contexts, AllLayouts
<1>17. Fits(layout)' # {}
  BY <1>7, <1>8, <1>9, <1>10, <1>11, <1>12, <1>13, <1>14, <1>15, <1>16 DEF Next, Step
<1> QED
  BY <1>3, <1>17

\* Where layouts ask for no more than page alignment, the second attempt of
\* alloc fails only if the extension fell short of the request or the other
\* context took memory meanwhile.
THEOREM RetryCorrect ==
  ASSUME PageAligned
  PROVE  Spec => RetryFailsWithReason
<1> DEFINE Inv == HeapInv /\ RoomLeft
           Reason == \A c \in Contexts :
             pc[c] = "retry" /\ pc'[c] = "idle" /\ live' = live => excuse[c]
<1>1. Init => Inv
  <2>1. Init => RoomLeft
    BY DEF Init, RoomLeft, Contexts
  <2> QED
    BY <2>1, InitHolds
<1>2. Inv /\ [Next]_vars => Inv'
  <2> SUFFICES ASSUME HeapInv, RoomLeft, [Next]_vars
               PROVE  HeapInv' /\ RoomLeft'
    OBVIOUS
  <2>1. HeapInv'
    BY NextKeeps
  <2>2. CASE Next
    BY <2>1, <2>2, RoomKept
  <2>3. CASE UNCHANGED vars
    <3>1. UNCHANGED <<pc, req, excuse, inner, live>>
      BY <2>3 DEF vars
    <3>2. RoomLeft'
      BY <3>1 DEF RoomLeft, Fits
    <3> QED
      BY <2>1, <3>2
  <2> QED
    BY <2>2, <2>3
<1>3. Inv /\ [Next]_vars => [Reason]_vars
  <2> SUFFICES ASSUME HeapInv, RoomLeft, Next, NEW c \in Contexts,
                      pc[c] = "retry", pc'[c] = "idle", live' = live, ~ excuse[c]
               PROVE  FALSE
    OBVIOUS
  <2>1. pc \in [Contexts -> {"boot", "idle", "extend", "mapping", "retry"}]
    BY DEF HeapInv, Types
  <2>2. Retry(c)
    <3>1. ASSUME NEW d \in Contexts, Step(d)
          PROVE  Retry(c)
      BY <2>1, <3>1 DEF Step, Extend, Spin, MapOne, MapStops, ExtendDone, Retry, Return, vars
    <3>2. ~ InitHeap /\ ~ InitDone /\ ~ Halted
      BY <2>1 DEF InitHeap, InitDone, Halted, Return, vars, Contexts
    <3>3. ASSUME NEW d \in Contexts, NEW l, Alloc(d, l)
          PROVE  FALSE
      BY <2>1, <3>3 DEF Alloc
    <3>4. ASSUME NEW block, Dealloc("main", block)
          PROVE  FALSE
      BY <2>1, <3>4 DEF Dealloc
    <3> QED
      BY <3>1, <3>2, <3>3, <3>4 DEF Next, Contexts
  <2>3. Fits(req[c]) # {}
    BY DEF RoomLeft
  <2>4. TakeFirstFit(c, req[c]) /\ heap_end' = heap_end
    BY <2>2, <2>3 DEF Retry
  <2>5. req[c] \in AllLayouts
    BY DEF HeapInv, Types, Stages
  <2> QED
    BY <2>4, <2>5, TakePlaced
<1>4. Spec => [][Reason]_vars
  BY <1>1, <1>2, <1>3, PTL DEF Spec
<1> QED
  BY <1>4 DEF RetryFailsWithReason

----------------------------------------------------------------------------
(* What the mapping of pages writes.                                       *)

\* So many words are whole blocks of E pages (2 MiB in the code).
Whole(w) == \E k \in Nat : w = k * (E * E)

\* The heap starts, begins and grows in whole blocks, as the constants of
\* heap.rs do (32 MiB, 4 MiB, 4 MiB), and no request exceeds the chunk.  (The
\* run MCHeapClobber shows what a larger request does.)
WholeBlocks ==
  /\ Whole(HEAP_START) /\ Whole(INITIAL_HEAP_SIZE) /\ Whole(EXTEND_CHUNK_SIZE)
  /\ \A layout \in AllLayouts : layout.size <= EXTEND_CHUNK_SIZE

NoFrameLeft == FreePages(fa) = {}

AtCap(w) == w = HEAP_START + MAX_HEAP_SIZE

\* As long as pages can be mapped the heap ends with a whole block, and so
\* will what is being mapped: the block that is written into is a new one.
Blocks ==
  /\ NoFrameLeft \/ Whole(heap_end) \/ AtCap(heap_end)
  /\ lock # None =>
       /\ NoFrameLeft \/ Whole(heap_end)
       /\ \/ NoFrameLeft
          \/ Whole(heap_end + job.pages * PAGE_SIZE)
          \/ AtCap(heap_end + job.pages * PAGE_SIZE)

\* Whole blocks add up, and they are whole pages.
LEMMA WholeFacts ==
  ASSUME NEW a \in Nat, NEW b \in Nat, Whole(b)
  PROVE  /\ Whole(a) => Whole(a + b)
         /\ \E m \in Nat : b = m * PAGE_SIZE
<1>1. E \in Nat /\ PAGE_SIZE = E /\ E * E \in Nat
  BY TableSizeAssumption
<1>2. PICK k \in Nat : b = k * (E * E)
  BY DEF Whole
<1>3. ASSUME Whole(a) PROVE Whole(a + b)
  <2>1. PICK j \in Nat : a = j * (E * E)
    BY <1>3 DEF Whole
  <2>2. a + b = (j + k) * (E * E) /\ j + k \in Nat
    BY <1>1, <1>2, <2>1
  <2> QED
    BY <2>2 DEF Whole
<1>4. b = (k * E) * E /\ k * E \in Nat
  BY <1>1, <1>2
<1> QED
  BY <1>1, <1>3, <1>4

\* Whole pages take up exactly that many words.
LEMMA PagesForExact ==
  ASSUME NEW n \in Nat, NEW m \in Nat, n = m * PAGE_SIZE
  PROVE  PagesFor(n) * PAGE_SIZE = n
<1>1. PagesFor(n) \in Nat /\ PagesFor(n) * PAGE_SIZE >= n /\ PagesFor(n) <= m
  BY PagesForFacts, PageSizeAssumption
<1>2. PagesFor(n) * PAGE_SIZE <= m * PAGE_SIZE /\ PagesFor(n) * PAGE_SIZE \in Nat
  BY <1>1, PageSizeAssumption, ProductOrder
<1> QED
  BY <1>1, <1>2

\* An extension is a whole chunk, or reaches the cap.
LEMMA ExtensionIsChunk ==
  ASSUME HeapInv, WholeBlocks, heap_end - HEAP_START < MAX_HEAP_SIZE,
         NEW n \in Nat \ {0}, n <= EXTEND_CHUNK_SIZE
  PROVE  \/ ExtensionPages(n) * PAGE_SIZE = EXTEND_CHUNK_SIZE
         \/ heap_end + ExtensionPages(n) * PAGE_SIZE = HEAP_START + MAX_HEAP_SIZE
<1> DEFINE want == Max({n, EXTEND_CHUNK_SIZE})
           room == MAX_HEAP_SIZE - (heap_end - HEAP_START)
           least == Min({want, room})
<1>1. /\ HEAP_START \in Nat /\ MAX_HEAP_SIZE \in Nat /\ heap_end \in Nat
      /\ EXTEND_CHUNK_SIZE \in Nat \ {0} /\ PAGE_SIZE \in Nat \ {0}
  BY HeapAssumption, PageSizeAssumption DEF HeapInv, Types
<1>2. want = EXTEND_CHUNK_SIZE
  <2> DEFINE S == {n, EXTEND_CHUNK_SIZE}
  <2>1. n + EXTEND_CHUNK_SIZE \in Nat /\ S \in SUBSET (0 .. n + EXTEND_CHUNK_SIZE) /\ S # {}
    BY <1>1
  <2> HIDE DEF S
  <2>2. Max(S) \in S /\ \A y \in S : y <= Max(S)
    BY <2>1, MaxIsGreatest
  <2> QED
    BY <1>1, <2>2 DEF S
<1>3. room \in Nat
  BY <1>1
<1> HIDE DEF want, room
<1>4. least \in {want, room}
  <2> DEFINE S == {want, room}
  <2>1. S \in SUBSET Nat /\ S # {}
    BY <1>1, <1>2, <1>3
  <2> HIDE DEF S
  <2>2. Min(S) \in S
    BY <2>1, MinIsLeast
  <2> QED
    BY <2>2 DEF S
<1>5. ExtensionPages(n) = PagesFor(least)
  BY DEF ExtensionPages, want, room
<1> HIDE DEF least
<1>6. \E m \in Nat : EXTEND_CHUNK_SIZE = m * PAGE_SIZE
  BY <1>1, WholeFacts DEF WholeBlocks
<1>7. \E m \in Nat : room = m * PAGE_SIZE
  <2>1. PICK s, m \in Nat : HEAP_START = s * PAGE_SIZE /\ MAX_HEAP_SIZE = m * PAGE_SIZE
    BY CapInPages
  <2>2. PICK h \in Nat : heap_end = HEAP_START + h * PAGE_SIZE
    BY DEF HeapInv, Extent
  <2>3. h * PAGE_SIZE \in Nat /\ m * PAGE_SIZE \in Nat
    BY <1>1, <2>1, <2>2
  <2>4. h * PAGE_SIZE <= m * PAGE_SIZE
    BY <1>1, <2>1, <2>2, <2>3
  <2>5. h <= m
    BY <1>1, <2>1, <2>2, <2>4, ProductOrder
  <2>6. PICK d \in Nat : m = h + d
    <3>1. m - h \in Nat /\ m = h + (m - h)
      BY <2>5
    <3> QED
      BY <3>1
  <2>7. m * PAGE_SIZE = h * PAGE_SIZE + d * PAGE_SIZE /\ d * PAGE_SIZE \in Nat
    BY <1>1, <2>2, <2>6
  <2>8. room = d * PAGE_SIZE
    BY <1>1, <2>1, <2>2, <2>3, <2>7 DEF room
  <2> QED
    BY <2>8
<1>8. PagesFor(least) * PAGE_SIZE = least
  <2>1. PICK m \in Nat : least = m * PAGE_SIZE
    BY <1>2, <1>4, <1>6, <1>7
  <2>2. least \in Nat
    BY <1>1, <1>2, <1>3, <1>4
  <2> QED
    BY <2>1, <2>2, PagesForExact
<1>9. least = room => heap_end + least = HEAP_START + MAX_HEAP_SIZE
  BY <1>1 DEF room
<1> QED
  BY <1>2, <1>4, <1>5, <1>8, <1>9

\* A step that leaves the end, the lock, the loop and the frames alone.
LEMMA BlocksQuiet ==
  ASSUME Blocks, UNCHANGED <<fa, heap_end, lock, job>>
  PROVE  Blocks'
BY DEF Blocks, NoFrameLeft, AtCap, Whole

\* A step that ends an extension: the end is where it was or where it was
\* meant to be.
LEMMA BlocksDone ==
  ASSUME HeapInv, Blocks, lock # None, job.done = job.pages, job' = NoJob, fa' = fa,
         \/ heap_end' = heap_end /\ lock' = lock
         \/ heap_end' = heap_end /\ lock' = None
         \/ heap_end' = heap_end + job.done * PAGE_SIZE /\ lock' = None
  PROVE  Blocks'
<1>1. heap_end \in Nat /\ NoJob.pages * PAGE_SIZE = 0
  BY PageSizeAssumption DEF HeapInv, Types, NoJob
<1>2. heap_end' = heap_end /\ job' = NoJob => heap_end' + job'.pages * PAGE_SIZE = heap_end
  BY <1>1
<1>3. CASE heap_end' = heap_end
  <2>1. NoFrameLeft' \/ Whole(heap_end')
    BY <1>3 DEF Blocks, NoFrameLeft
  <2>2. heap_end' + job'.pages * PAGE_SIZE = heap_end'
    BY <1>2, <1>3
  <2> QED
    BY <2>1, <2>2 DEF Blocks, Whole
<1>4. CASE heap_end' = heap_end + job.done * PAGE_SIZE /\ lock' = None
  <2>1. NoFrameLeft' \/ Whole(heap_end') \/ AtCap(heap_end')
    BY <1>4 DEF Blocks, NoFrameLeft
  <2> QED
    BY <1>4, <2>1 DEF Blocks, Whole, AtCap
<1> QED
  BY <1>3, <1>4

\* One step per action.
LEMMA BlocksKept ==
  ASSUME WholeBlocks, HeapInv, Blocks, [Next]_vars
  PROVE  Blocks'
<1>1. ASSUME NEW c \in Contexts, MapOne(c)
      PROVE  Blocks'
  <2>1. /\ pc[c] = "mapping" /\ job.done < job.pages /\ UNCHANGED <<heap_end, lock>>
        /\ job' = [job EXCEPT !.done = @ + 1] /\ alloc(fa).ret # None
    BY <1>1 DEF MapOne
  <2>2. lock # None
    BY <2>1, MappingLocks
  <2>3. ~ NoFrameLeft
    <3>1. alloc(fa) # [fa |-> fa, ret |-> None]
      BY <2>1
    <3> QED
      BY <2>1, <2>2, <3>1, Round DEF NoFrameLeft
  <2>4. job'.pages = job.pages
    BY <2>1 DEF HeapInv, Types
  <2> QED
    BY <2>1, <2>2, <2>3, <2>4 DEF Blocks, Whole, AtCap
<1>2. ASSUME NEW c \in Contexts, MapStops(c)
      PROVE  Blocks'
  <2>1. FreePages(fa) = {} /\ fa' = fa
    BY <1>2, MapStopsKeeps
  <2>2. NoFrameLeft'
    BY <2>1 DEF NoFrameLeft
  <2> QED
    BY <2>2 DEF Blocks
<1>3. ASSUME InitHeap
      PROVE  Blocks'
  <2>1. /\ pc["main"] = "boot" /\ heap_end' = heap_end
        /\ job' = [pages |-> PagesFor(INITIAL_HEAP_SIZE), done |-> 0]
    BY <1>3 DEF InitHeap
  <2>2. heap_end = HEAP_START
    BY <2>1 DEF HeapInv, Stages, Extent
  <2>3. HEAP_START \in Nat /\ INITIAL_HEAP_SIZE \in Nat
    BY HeapAssumption
  <2>4. PagesFor(INITIAL_HEAP_SIZE) * PAGE_SIZE = INITIAL_HEAP_SIZE
    <3>1. PICK m \in Nat : INITIAL_HEAP_SIZE = m * PAGE_SIZE
      BY <2>3, WholeFacts DEF WholeBlocks
    <3> QED
      BY <2>3, <3>1, PagesForExact
  <2>5. Whole(HEAP_START) /\ Whole(HEAP_START + INITIAL_HEAP_SIZE)
    BY <2>3, WholeFacts DEF WholeBlocks
  <2>6. heap_end' = HEAP_START /\ heap_end' + job'.pages * PAGE_SIZE = HEAP_START + INITIAL_HEAP_SIZE
    BY <2>1, <2>2, <2>4
  <2>7. Whole(heap_end') /\ Whole(heap_end' + job'.pages * PAGE_SIZE)
    BY <2>5, <2>6
  <2> QED
    BY <2>7 DEF Blocks, Whole
<1>4. ASSUME InitDone
      PROVE  Blocks'
  <2>1. /\ pc["main"] = "mapping" /\ req["main"] = None /\ job.done = job.pages
        /\ heap_end' = HEAP_START + job.done * PAGE_SIZE
        /\ lock' = None /\ job' = NoJob /\ fa' = fa
    BY <1>4 DEF InitDone
  <2>2. heap_end = HEAP_START
    BY <2>1 DEF HeapInv, Stages, Extent
  <2>3. lock # None
    BY <2>1, MappingLocks DEF Contexts
  <2> QED
    BY <2>1, <2>2, <2>3, BlocksDone
<1>5. ASSUME NEW c \in Contexts, ExtendDone(c)
      PROVE  Blocks'
  <2>1. /\ pc[c] = "mapping" /\ job.done = job.pages /\ job' = NoJob /\ fa' = fa
        /\ \/ heap_end' = heap_end /\ lock' = lock
           \/ heap_end' = heap_end /\ lock' = None
           \/ heap_end' = heap_end + job.done * PAGE_SIZE /\ lock' = None
    BY <1>5 DEF ExtendDone
  <2>2. lock # None
    BY <2>1, MappingLocks
  <2> QED
    BY <2>1, <2>2, BlocksDone
<1>6. ASSUME NEW c \in Contexts, Extend(c)
      PROVE  Blocks'
  <2>1. /\ pc[c] = "extend" /\ lock = None /\ UNCHANGED <<fa, heap_end>>
        /\ \/ UNCHANGED <<lock, job>>
           \/ /\ ~ (heap_end - HEAP_START >= MAX_HEAP_SIZE)
              /\ job' = [pages |-> ExtensionPages(req[c].size), done |-> 0]
    BY <1>6 DEF Extend
  <2>2. CASE UNCHANGED <<lock, job>>
    BY <2>1, <2>2, BlocksQuiet
  <2>3. CASE /\ ~ (heap_end - HEAP_START >= MAX_HEAP_SIZE)
             /\ job' = [pages |-> ExtensionPages(req[c].size), done |-> 0]
    <3> DEFINE added == ExtensionPages(req[c].size) * PAGE_SIZE
    <3>1. req[c] \in AllLayouts
      BY <2>1 DEF HeapInv, Types, Stages
    <3>2. req[c].size \in Nat \ {0} /\ req[c].size <= EXTEND_CHUNK_SIZE
      BY <3>1, LayoutFacts DEF WholeBlocks
    <3>3. HEAP_START \in Nat /\ heap_end \in Nat /\ MAX_HEAP_SIZE \in Nat /\ EXTEND_CHUNK_SIZE \in Nat
      BY HeapAssumption DEF HeapInv, Types
    <3>4. heap_end - HEAP_START < MAX_HEAP_SIZE
      BY <2>3, <3>3
    <3>5. added = EXTEND_CHUNK_SIZE \/ AtCap(heap_end + added)
      BY <3>2, <3>4, ExtensionIsChunk DEF AtCap
    <3>6. ~ AtCap(heap_end)
      BY <3>3, <3>4 DEF AtCap
    <3>7. NoFrameLeft \/ Whole(heap_end)
      BY <3>6 DEF Blocks
    <3>8. Whole(heap_end) => Whole(heap_end + added) \/ AtCap(heap_end + added)
      BY <3>3, <3>5, WholeFacts DEF WholeBlocks
    <3> HIDE DEF added
    <3>9. heap_end' + job'.pages * PAGE_SIZE = heap_end + added /\ heap_end' = heap_end
      BY <2>1, <2>3 DEF added
    <3>10. NoFrameLeft' = NoFrameLeft
      BY <2>1 DEF NoFrameLeft
    <3>11. /\ NoFrameLeft' \/ Whole(heap_end')
           /\ \/ NoFrameLeft'
              \/ Whole(heap_end' + job'.pages * PAGE_SIZE)
              \/ AtCap(heap_end' + job'.pages * PAGE_SIZE)
      BY <3>7, <3>8, <3>9, <3>10
    <3> QED
      BY <3>11 DEF Blocks, Whole, AtCap
  <2> QED
    BY <2>1, <2>2, <2>3
<1>7. ASSUME NEW c \in Contexts, NEW l, Alloc(c, l) \/ Retry(c) \/ Spin(c)
      PROVE  Blocks'
  <2>1. UNCHANGED <<fa, heap_end, lock, job>>
    BY <1>7 DEF Alloc, Retry, Spin, vars
  <2> QED
    BY <2>1, BlocksQuiet
<1>8. ASSUME NEW b, Dealloc("main", b) \/ Halted \/ UNCHANGED vars
      PROVE  Blocks'
  <2>1. UNCHANGED <<fa, heap_end, lock, job>>
    BY <1>8 DEF Dealloc, Halted, vars
  <2> QED
    BY <2>1, BlocksQuiet
<1> QED
  BY <1>1, <1>2, <1>3, <1>4, <1>5, <1>6, <1>7, <1>8 DEF Next, Step, Contexts

\* A round of the loop writes at or past the end of the heap.
LEMMA RoundWritesOutside ==
  ASSUME HeapInv, Blocks, NEW c \in Contexts, MapOne(c),
         NEW w \in Nat, w < heap_end
  PROVE  mem'[w \div PAGE_SIZE][w % PAGE_SIZE] = mem[w \div PAGE_SIZE][w % PAGE_SIZE]
<1>1. /\ pc[c] = "mapping" /\ job.done < job.pages /\ alloc(fa).ret # None
      /\ mem' = MappedNext(alloc(fa)).mem
  BY DEF MapOne
<1>2. lock # None
  BY <1>1, MappingLocks
<1>3. /\ \E e : mem' = Written(mem, Block(NextVirt) * E, indices(NextVirt).pt, e)
      /\ ~ NoFrameLeft
  <2>1. alloc(fa) # [fa |-> fa, ret |-> None]
    BY <1>1
  <2> QED
    BY <1>1, <1>2, <2>1, Round DEF NoFrameLeft
<1>4. PICK e : mem' = Written(mem, Block(NextVirt) * E, indices(NextVirt).pt, e)
  BY <1>3
<1>5. PICK k \in Nat : heap_end = k * (E * E)
  BY <1>2, <1>3 DEF Blocks, Whole
<1>6. /\ NextVirt \in 0 .. MAX_PAGES * PAGE_SIZE - 1 /\ heap_end <= NextVirt
      /\ Block(NextVirt) * E \in Pages /\ indices(NextVirt).pt \in Index
      /\ NextVirt \in HEAP_START .. HEAP_START + MAX_HEAP_SIZE - 1
  BY <1>1, <1>2, NextVirtInHeap
<1> DEFINE v == NextVirt
           b == Block(v)
           i == indices(v).pt
           f == w \div E
           j == w % E
<1>7. E \in Nat \ {0} /\ E * E \in Nat \ {0} /\ PAGE_SIZE = E
  BY TableSizeAssumption
<1>8. v \in Nat
  BY <1>6, HeapAssumption
<1>9. b \in Nat /\ i \in Index /\ b * E \in Pages
  BY <1>6, <1>8, IndicesAre
<1>10. k <= b
  <2>1. b = v \div (E * E)
    BY <1>7, <1>8, DivideTwice DEF Block, Page
  <2>2. v = b * (E * E) + (v % (E * E)) /\ v % (E * E) \in 0 .. (E * E) - 1
    BY <1>7, <1>8, <2>1, Division
  <2>3. k * (E * E) <= v
    BY <1>5, <1>6
  <2> DEFINE F == E * E
             r == v % F
  <2>4. F \in Nat \ {0} /\ r \in 0 .. F - 1 /\ v = b * F + r /\ k * F <= v
    BY <1>7, <2>2, <2>3
  <2> HIDE DEF v, b, F, r
  <2>5. k * F < (b + 1) * F
    <3>1. b * F \in Nat /\ (b + 1) * F = b * F + F /\ k * F \in Nat
      BY <1>5, <1>9, <2>4
    <3> QED
      BY <1>9, <2>4, <3>1
  <2>6. ~ (b + 1 <= k)
    <3>1. b + 1 <= k => (b + 1) * F <= k * F
      BY <1>5, <1>9, <2>4, ProductOrder
    <3>2. k * F \in Nat /\ (b + 1) * F \in Nat
      BY <1>5, <1>9, <2>4
    <3> QED
      BY <2>5, <3>1, <3>2
  <2> QED
    BY <1>5, <1>9, <2>6
<1>11. f \in Nat /\ j \in 0 .. E - 1 /\ w = f * E + j
  BY <1>7, Division
<1>12. f < k * E
  <2> HIDE DEF f, j
  <2>1. f * E < (k * E) * E
    <3>1. f * E \in Nat /\ k * (E * E) = (k * E) * E
      BY <1>5, <1>7, <1>11
    <3> QED
      BY <1>5, <1>7, <1>11, <3>1
  <2>2. k * E \in Nat
    BY <1>5, <1>7
  <2> QED
    BY <1>7, <1>11, <2>1, <2>2, ProductOrder
<1>13. f # b * E /\ f < b * E
  <2> HIDE DEF f, b
  <2>1. k * E <= b * E
    BY <1>5, <1>7, <1>9, <1>10, ProductOrder
  <2>2. k * E \in Nat /\ b * E \in Nat
    BY <1>5, <1>7, <1>9
  <2> QED
    BY <1>11, <1>12, <2>1, <2>2
<1>14. f \in Pages /\ j \in Index
  <2> HIDE DEF f, j, b
  <2>1. b * E \in 0 .. MAX_PAGES - 1 /\ MAX_PAGES \in Nat
    BY <1>9, MaxPagesAssumption DEF Pages
  <2>2. f \in 0 .. MAX_PAGES - 1
    BY <1>11, <1>13, <2>1
  <2> QED
    BY <1>11, <2>2 DEF Pages, Index
<1>15. MemoryShape(mem)
  BY DEF HeapInv, Backed
<1> HIDE DEF v, b, i, f, j
<1>16. mem' = Written(mem, b * E, i, e)
  BY <1>4 DEF v, b, i
<1>17. Written(mem, b * E, i, e)[f][j] = mem[f][j]
  BY <1>9, <1>13, <1>14, <1>15, WriteWord
<1> QED
  BY <1>7, <1>16, <1>17 DEF f, j

\* Where the heap grows in whole blocks, as the constants of heap.rs make it,
\* no step of the heap writes into an allocated block: the entry that
\* map_page puts into a huge page of the identity mapping falls into memory
\* that is not yet given out.
THEOREM DataCorrect ==
  ASSUME WholeBlocks
  PROVE  Spec => LiveDataIntact
<1> DEFINE Inv == HeapInv /\ Blocks
           Intact == \A b \in live : \A w \in WordsOf(b) :
             mem'[w \div PAGE_SIZE][w % PAGE_SIZE] = mem[w \div PAGE_SIZE][w % PAGE_SIZE]
<1>1. Init => Inv
  <2>1. Init => Blocks
    BY DEF Init, Blocks, WholeBlocks
  <2> QED
    BY <2>1, InitHolds
<1>2. Inv /\ [Next]_vars => Inv'
  BY NextKeeps, BlocksKept
<1>3. Inv /\ [Next]_vars => [Intact]_vars
  <2> SUFFICES ASSUME HeapInv, Blocks, Next, NEW b \in live, NEW w \in WordsOf(b)
               PROVE  mem'[w \div PAGE_SIZE][w % PAGE_SIZE] = mem[w \div PAGE_SIZE][w % PAGE_SIZE]
    OBVIOUS
  <2>1. w \in Nat /\ w < heap_end
    <3>1. b.at \in Nat /\ b.size \in Nat /\ b.at + b.size <= heap_end /\ heap_end \in Nat
      BY DEF HeapInv, Placed, Types
    <3> QED
      BY <3>1 DEF WordsOf
  <2>2. ASSUME NEW c \in Contexts, MapOne(c)
        PROVE  mem'[w \div PAGE_SIZE][w % PAGE_SIZE] = mem[w \div PAGE_SIZE][w % PAGE_SIZE]
    BY <2>1, <2>2, RoundWritesOutside
  <2>3. ASSUME NEW c \in Contexts, MapStops(c)
        PROVE  mem' = mem
    BY <2>3, MapStopsKeeps
  <2>4. ASSUME NEW c \in Contexts, Extend(c) \/ Spin(c) \/ ExtendDone(c) \/ Retry(c)
        PROVE  mem' = mem
    BY <2>4 DEF Extend, Spin, ExtendDone, Retry, vars
  <2>5. ASSUME NEW c, NEW l, Alloc(c, l) \/ Dealloc("main", l) \/ InitHeap \/ InitDone \/ Halted
        PROVE  mem' = mem
    BY <2>5 DEF Alloc, Dealloc, InitHeap, InitDone, Halted, vars
  <2> QED
    BY <2>2, <2>3, <2>4, <2>5 DEF Next, Step
<1>4. Spec => [][Intact]_vars
  BY <1>1, <1>2, <1>3, PTL DEF Spec
<1> QED
  BY <1>4 DEF LiveDataIntact

=============================================================================
