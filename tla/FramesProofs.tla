---------------------------- MODULE FramesProofs ----------------------------
(***************************************************************************)
(* What the operators of Frames and of PageTables do, for every number of  *)
(* pages, page size, memory map, address and count, every size of the      *)
(* tables and every place of the kernel's own tables: the facts on which   *)
(* the proofs about the state machines that own a frame allocator rest.    *)
(***************************************************************************)
EXTENDS PageTables, FiniteSetTheorems, WellFoundedInduction, TLAPS

----------------------------------------------------------------------------
(* Least and greatest elements.                                            *)

\* A nonempty set of naturals has a least element, the one Min chooses.
LEMMA MinIsLeast ==
  ASSUME NEW S \in SUBSET Nat, S # {}
  PROVE  Min(S) \in S /\ \A y \in S : Min(S) <= y
<1>1. \E x \in S : \A y \in S : ~ (<<y, x>> \in OpToRel(<, Nat))
  BY WFMin, NatLessThanWellFounded
<1>2. \A x, y \in S : ~ (<<y, x>> \in OpToRel(<, Nat)) => x <= y
  BY DEF OpToRel
<1>3. \E x \in S : \A y \in S : x <= y
  BY <1>1, <1>2
<1> QED
  BY <1>3 DEF Min

\* A nonempty set of naturals with an upper bound has a greatest element,
\* the one Max chooses.
LEMMA MaxIsGreatest ==
  ASSUME NEW N \in Nat, NEW S \in SUBSET (0 .. N), S # {}
  PROVE  Max(S) \in S /\ \A y \in S : y <= Max(S)
<1> DEFINE T == {n \in 0 .. N : N - n \in S}
<1>1. T \in SUBSET Nat /\ T # {}
  <2>1. PICK x \in S : TRUE
    OBVIOUS
  <2>2. N - x \in T
    BY <2>1
  <2>3. T \in SUBSET Nat
    OBVIOUS
  <2>4. T # {}
    BY <2>2
  <2> QED
    BY <2>3, <2>4
<1>2. PICK m \in T : \A y \in T : m <= y
  BY <1>1, MinIsLeast
<1>3. N - m \in S /\ \A y \in S : y <= N - m
  <2>1. \A y \in S : N - y \in T
    OBVIOUS
  <2> QED
    BY <1>2, <2>1
<1> QED
  BY <1>3 DEF Max

----------------------------------------------------------------------------
(* Division.                                                               *)

\* The parts of a number q * d + r with r < d.
LEMMA Parts ==
  ASSUME NEW d \in Nat \ {0}, NEW q \in Nat, NEW r \in 0 .. d - 1
  PROVE  (q * d + r) \div d = q /\ (q * d + r) % d = r
<1>1. q * d \in Nat
  OBVIOUS
<1> DEFINE n == q * d + r
<1>2. n \in Nat /\ n = d * (n \div d) + (n % d) /\ n % d \in 0 .. d - 1 /\ n \div d \in Nat
  BY <1>1
<1>3. n = q * d + r
  OBVIOUS
<1> HIDE DEF n
<1> DEFINE e == n \div d
           s == n % d
<1>4. e \in Nat /\ s \in 0 .. d - 1 /\ d * e + s = q * d + r
  BY <1>2, <1>3
<1> HIDE DEF e, s
<1>5. ~ (e > q)
  <2> SUFFICES ASSUME e > q PROVE FALSE
    OBVIOUS
  <2>1. PICK k \in Nat : e = q + 1 + k
    <3>1. e - q - 1 \in Nat /\ e = q + 1 + (e - q - 1)
      BY <1>4
    <3> QED
      BY <3>1
  <2>2. d * e = q * d + d + d * k
    BY <2>1
  <2>3. d * k \in Nat
    BY <2>1
  <2> QED
    BY <1>1, <1>4, <2>2, <2>3
<1>6. ~ (e < q)
  <2> SUFFICES ASSUME e < q PROVE FALSE
    OBVIOUS
  <2>1. PICK k \in Nat : q = e + 1 + k
    <3>1. q - e - 1 \in Nat /\ q = e + 1 + (q - e - 1)
      BY <1>4
    <3> QED
      BY <3>1
  <2>2. q * d = d * e + d + d * k
    BY <1>4, <2>1
  <2>3. d * k \in Nat /\ d * e \in Nat
    BY <1>4, <2>1
  <2> QED
    BY <1>1, <1>4, <2>2, <2>3
<1>7. e = q /\ s = r
  <2>1. e = q
    BY <1>4, <1>5, <1>6
  <2>2. d * e = q * d
    BY <2>1
  <2> QED
    BY <1>1, <1>4, <2>1, <2>2
<1> QED
  BY <1>7 DEF e, s, n

\* A number is made of its quotient and its remainder.
LEMMA Division ==
  ASSUME NEW d \in Nat \ {0}, NEW n \in Nat
  PROVE  n \div d \in Nat /\ n % d \in 0 .. d - 1 /\ n = (n \div d) * d + (n % d)
OBVIOUS

\* Multiplying by a positive number keeps and reflects the order.
LEMMA ProductOrder ==
  ASSUME NEW a \in Nat, NEW b \in Nat, NEW c \in Nat \ {0}
  PROVE  a * c <= b * c <=> a <= b
<1>1. ASSUME a <= b
      PROVE  a * c <= b * c
  <2>1. PICK k \in Nat : b = a + k
    <3>1. b - a \in Nat /\ b = a + (b - a)
      BY <1>1
    <3> QED
      BY <3>1
  <2>2. b * c = a * c + k * c /\ k * c \in Nat /\ a * c \in Nat
    BY <2>1
  <2> QED
    BY <2>2
<1>2. ASSUME b < a
      PROVE  b * c < a * c
  <2>1. PICK k \in Nat : a = b + 1 + k
    <3>1. a - b - 1 \in Nat /\ a = b + 1 + (a - b - 1)
      BY <1>2
    <3> QED
      BY <3>1
  <2>2. a * c = b * c + c + k * c /\ k * c \in Nat /\ b * c \in Nat
    BY <2>1
  <2> QED
    BY <2>2
<1>3. a * c \in Nat /\ b * c \in Nat
  OBVIOUS
<1> QED
  BY <1>1, <1>2, <1>3

----------------------------------------------------------------------------
(* Types and cardinalities.                                                *)

\* The set of free pages is finite and smaller than the bitmap.
LEMMA FreePagesFinite ==
  ASSUME NEW f \in FrameAllocatorType
  PROVE  /\ FreePages(f) \subseteq Pages
         /\ IsFiniteSet(FreePages(f))
         /\ Cardinality(FreePages(f)) \in Nat
<1>1. IsFiniteSet(Pages)
  BY FS_Interval, MaxPagesAssumption DEF Pages
<1>2. FreePages(f) \in SUBSET Pages
  BY DEF FreePages
<1> QED
  BY <1>1, <1>2, FS_Subset, FS_CardinalityType

\* An address divided by the page size is a page number.
LEMMA PageOfAddress ==
  ASSUME NEW addr \in Nat
  PROVE  addr \div PAGE_SIZE \in Nat
BY PageSizeAssumption, SMT

\* The address of a page divided by the page size is the page.
LEMMA PageOfPageAddress ==
  ASSUME NEW s \in Nat
  PROVE  s * PAGE_SIZE \in Nat /\ (s * PAGE_SIZE) \div PAGE_SIZE = s
BY PageSizeAssumption, SMT

----------------------------------------------------------------------------
(* What the operators of Frames do to an allocator.                        *)

\* Freeing a set of pages clears exactly their bits, adds the number of bits
\* it cleared to the counter, and lifts total_pages above them.
LEMMA MarkFreeAll ==
  ASSUME NEW f \in FrameAllocatorType, NEW S
  PROVE  LET g == mark_free_all(f, S)
         IN  /\ g \in FrameAllocatorType
             /\ g.first_free = f.first_free
             /\ g.total_pages >= f.total_pages
             /\ FreePages(g) = FreePages(f) \cup (S \cap Pages)
             /\ \A p \in FreePages(g) \ FreePages(f) : p < g.total_pages
             /\ g.free_pages - f.free_pages
                  = Cardinality(FreePages(g)) - Cardinality(FreePages(f))
             /\ \A p \in Pages : p < f.first_free /\ f.bitmap[p] /\ p \notin S
                                   => g.bitmap[p]
<1> DEFINE g     == mark_free_all(f, S)
           freed == {p \in S \cap Pages : f.bitmap[p]}
           tops  == {f.total_pages} \cup {p + 1 : p \in freed}
<1>1. /\ f.bitmap \in [Pages -> BOOLEAN]
      /\ f.first_free \in 0 .. MAX_PAGES
      /\ f.total_pages \in 0 .. MAX_PAGES
      /\ f.free_pages \in Nat
  BY DEF FrameAllocatorType
<1>2. /\ g.bitmap = [p \in Pages |-> f.bitmap[p] /\ p \notin S]
      /\ g.first_free = f.first_free
      /\ g.total_pages = Max(tops)
      /\ g.free_pages = f.free_pages + Cardinality(freed)
      /\ g = [bitmap |-> g.bitmap, first_free |-> g.first_free,
              total_pages |-> g.total_pages, free_pages |-> g.free_pages]
  <2>0. f = [bitmap |-> f.bitmap, first_free |-> f.first_free,
             total_pages |-> f.total_pages, free_pages |-> f.free_pages]
    BY DEF FrameAllocatorType
  <2> DEFINE B == [p \in Pages |-> f.bitmap[p] /\ p \notin S]
             F == f.free_pages + Cardinality(freed)
  <2>1. g = [f EXCEPT !.bitmap = B, !.free_pages = F, !.total_pages = Max(tops)]
    BY DEF mark_free_all
  <2> HIDE DEF g, B, F, freed, tops
  <2>2. g = [bitmap      |-> B,
             first_free  |-> f.first_free,
             total_pages |-> Max(tops),
             free_pages  |-> F]
    BY <2>0, <2>1
  <2> QED
    BY <2>2 DEF B, F
<1>3. FreePages(g) = FreePages(f) \cup freed /\ freed \cap FreePages(f) = {}
  BY <1>1, <1>2 DEF FreePages
<1>4. FreePages(g) = FreePages(f) \cup (S \cap Pages)
  BY <1>1, <1>3 DEF FreePages
<1>5. /\ Max(tops) \in 0 .. MAX_PAGES
      /\ f.total_pages <= Max(tops)
      /\ \A p \in freed : p < Max(tops)
  <2>1. tops \in SUBSET (0 .. MAX_PAGES) /\ tops # {}
    BY <1>1, MaxPagesAssumption DEF Pages
  <2>2. Max(tops) \in tops /\ \A y \in tops : y <= Max(tops)
    BY <2>1, MaxIsGreatest, MaxPagesAssumption
  <2>3. f.total_pages <= Max(tops)
    BY <2>2
  <2>4. ASSUME NEW p \in freed PROVE p < Max(tops)
    <3>1. p + 1 \in tops /\ p \in Nat
      BY DEF Pages
    <3> HIDE DEF tops, freed
    <3>2. p + 1 <= Max(tops)
      BY <3>1, <2>2
    <3>3. Max(tops) \in Nat
      <4>1. tops \subseteq Nat
        BY <2>1, MaxPagesAssumption
      <4> QED
        BY <4>1, <2>2
    <3> QED
      BY <3>1, <3>2, <3>3
  <2> QED
    BY <2>1, <2>2, <2>3, <2>4
<1>6. /\ Cardinality(freed) \in Nat
      /\ Cardinality(FreePages(g)) = Cardinality(FreePages(f)) + Cardinality(freed)
  <2>1. IsFiniteSet(FreePages(f)) /\ Cardinality(FreePages(f)) \in Nat
    BY FreePagesFinite
  <2>2. IsFiniteSet(freed)
    <3>1. IsFiniteSet(Pages)
      BY FS_Interval, MaxPagesAssumption DEF Pages
    <3> QED
      BY <3>1, FS_Subset
  <2>3. Cardinality(freed) \in Nat
    BY <2>2, FS_CardinalityType
  <2>4. Cardinality(FreePages(f) \cup freed)
          = Cardinality(FreePages(f)) + Cardinality(freed)
              - Cardinality(FreePages(f) \cap freed)
    BY <2>1, <2>2, FS_Union
  <2>5. Cardinality(FreePages(f) \cap freed) = 0
    BY <1>3, FS_EmptySet
  <2> QED
    BY <1>3, <2>1, <2>3, <2>4, <2>5
<1>7. g \in FrameAllocatorType
  <2>1. g.bitmap \in [Pages -> BOOLEAN]
    BY <1>1, <1>2
  <2>2. g.total_pages \in 0 .. MAX_PAGES /\ g.free_pages \in Nat
    BY <1>1, <1>2, <1>5, <1>6
  <2> HIDE DEF g, freed, tops
  <2> QED
    BY <1>1, <1>2, <2>1, <2>2 DEF FrameAllocatorType
<1> HIDE DEF g, freed, tops
<1>8. Cardinality(FreePages(f)) \in Nat
  BY FreePagesFinite
<1>9. g.free_pages - f.free_pages
        = Cardinality(FreePages(g)) - Cardinality(FreePages(f))
  BY <1>1, <1>2, <1>6, <1>8
<1>10. /\ g.total_pages >= f.total_pages
       /\ \A p \in FreePages(g) \ FreePages(f) : p < g.total_pages
  BY <1>1, <1>2, <1>3, <1>5
<1>11. \A p \in Pages : f.bitmap[p] /\ p \notin S => g.bitmap[p]
  BY <1>2
<1> QED
  BY <1>2, <1>4, <1>7, <1>9, <1>10, <1>11 DEF g

\* Allocating a set of pages sets exactly their bits and subtracts the number
\* of bits it set from the counter, which does not underflow as long as it is
\* at least the number of free pages.
LEMMA MarkAllocatedAll ==
  ASSUME NEW f \in FrameAllocatorType, NEW S,
         f.free_pages >= Cardinality(FreePages(f))
  PROVE  LET g == mark_allocated_all(f, S)
         IN  /\ g \in FrameAllocatorType
             /\ g.first_free = f.first_free
             /\ g.total_pages = f.total_pages
             /\ FreePages(g) = FreePages(f) \ S
             /\ g.free_pages - f.free_pages
                  = Cardinality(FreePages(g)) - Cardinality(FreePages(f))
<1> DEFINE g     == mark_allocated_all(f, S)
           taken == {p \in S \cap Pages : ~ f.bitmap[p]}
<1>1. /\ f.bitmap \in [Pages -> BOOLEAN]
      /\ f.first_free \in 0 .. MAX_PAGES
      /\ f.total_pages \in 0 .. MAX_PAGES
      /\ f.free_pages \in Nat
  BY DEF FrameAllocatorType
<1>2. /\ g.bitmap = [p \in Pages |-> f.bitmap[p] \/ p \in S]
      /\ g.first_free = f.first_free
      /\ g.total_pages = f.total_pages
      /\ g.free_pages = f.free_pages - Cardinality(taken)
      /\ g = [bitmap |-> g.bitmap, first_free |-> g.first_free,
              total_pages |-> g.total_pages, free_pages |-> g.free_pages]
  <2>0. f = [bitmap |-> f.bitmap, first_free |-> f.first_free,
             total_pages |-> f.total_pages, free_pages |-> f.free_pages]
    BY DEF FrameAllocatorType
  <2> DEFINE B == [p \in Pages |-> f.bitmap[p] \/ p \in S]
             F == f.free_pages - Cardinality(taken)
  <2>1. g = [f EXCEPT !.bitmap = B, !.free_pages = F]
    BY DEF mark_allocated_all
  <2> HIDE DEF g, B, F, taken
  <2>2. g = [bitmap      |-> B,
             first_free  |-> f.first_free,
             total_pages |-> f.total_pages,
             free_pages  |-> F]
    BY <2>0, <2>1
  <2> QED
    BY <2>2 DEF B, F
<1>3. FreePages(g) = FreePages(f) \ S /\ FreePages(f) \cap S = taken
  BY <1>1, <1>2 DEF FreePages
<1>4. IsFiniteSet(FreePages(f)) /\ Cardinality(FreePages(f)) \in Nat
  BY FreePagesFinite
<1>5. /\ Cardinality(FreePages(g))
           = Cardinality(FreePages(f)) - Cardinality(FreePages(f) \cap S)
      /\ Cardinality(FreePages(f) \cap S) <= Cardinality(FreePages(f))
      /\ IsFiniteSet(FreePages(f) \cap S)
  BY <1>3, <1>4, FS_Difference, FS_Intersection
<1>6. Cardinality(FreePages(f) \cap S) \in Nat
  BY <1>5, FS_CardinalityType
<1> DEFINE m == Cardinality(FreePages(f))
           k == Cardinality(FreePages(f) \cap S)
<1>a. /\ k \in Nat /\ m \in Nat /\ k <= m
      /\ Cardinality(FreePages(g)) = m - k
      /\ g.free_pages = f.free_pages - k
      /\ f.free_pages >= m /\ f.free_pages \in Nat
  BY <1>1, <1>2, <1>3, <1>4, <1>5, <1>6
<1> HIDE DEF g, taken, m, k
<1>7. g.free_pages \in Nat
  BY <1>a
<1>8. g.bitmap \in [Pages -> BOOLEAN]
  BY <1>1, <1>2
<1>9. g \in FrameAllocatorType
  BY <1>1, <1>2, <1>7, <1>8 DEF FrameAllocatorType
<1>10. g.free_pages - f.free_pages
         = Cardinality(FreePages(g)) - m
  BY <1>a
<1> QED
  BY <1>2, <1>3, <1>9, <1>10 DEF g, m

\* Freeing pages that are free already changes nothing.
LEMMA MarkFreeNothing ==
  ASSUME NEW f \in FrameAllocatorType, NEW S,
         \A p \in S \cap Pages : ~ f.bitmap[p]
  PROVE  mark_free_all(f, S) = f
<1> DEFINE freed == {p \in S \cap Pages : f.bitmap[p]}
           tops  == {f.total_pages} \cup {p + 1 : p \in freed}
           B     == [p \in Pages |-> f.bitmap[p] /\ p \notin S]
           F     == f.free_pages + Cardinality(freed)
<1>1. /\ f.bitmap \in [Pages -> BOOLEAN]
      /\ f.total_pages \in 0 .. MAX_PAGES
      /\ f.free_pages \in Nat
      /\ f = [bitmap |-> f.bitmap, first_free |-> f.first_free,
              total_pages |-> f.total_pages, free_pages |-> f.free_pages]
  BY DEF FrameAllocatorType
<1>2. mark_free_all(f, S)
        = [f EXCEPT !.bitmap = B, !.free_pages = F, !.total_pages = Max(tops)]
  BY DEF mark_free_all
<1>3. B = f.bitmap
  BY <1>1
<1>4. F = f.free_pages
  <2>1. freed = {}
    OBVIOUS
  <2> QED
    BY <1>1, <2>1, FS_EmptySet
<1>5. Max(tops) = f.total_pages
  <2>1. tops = {f.total_pages}
    OBVIOUS
  <2> HIDE DEF tops
  <2>2. Max({f.total_pages}) \in {f.total_pages}
    BY <1>1, MaxIsGreatest, MaxPagesAssumption
  <2> QED
    BY <2>1, <2>2
<1> HIDE DEF B, F, tops, freed
<1> QED
  BY <1>1, <1>2, <1>3, <1>4, <1>5

----------------------------------------------------------------------------
(* The shape every call keeps, and what each call does to a value of that  *)
(* shape.  extra is the amount by which the counter exceeds the number of  *)
(* clear bits: 0, or MAX_PAGES without a memory map.                       *)

WellFormed(f, extra) ==
  /\ f \in FrameAllocatorType
  /\ f.free_pages = Cardinality(FreePages(f)) + extra
  /\ f.first_free <= f.total_pages
  /\ FreePages(f) \subseteq 0 .. f.total_pages - 1

\* Setting the hint keeps the rest of the allocator.
LEMMA SetHint ==
  ASSUME NEW f \in FrameAllocatorType, NEW h \in 0 .. MAX_PAGES
  PROVE  LET g == [f EXCEPT !.first_free = h]
         IN  /\ g \in FrameAllocatorType
             /\ g.first_free = h
             /\ g.bitmap = f.bitmap
             /\ g.total_pages = f.total_pages
             /\ g.free_pages = f.free_pages
             /\ FreePages(g) = FreePages(f)
<1> DEFINE g == [f EXCEPT !.first_free = h]
<1>1. /\ g \in FrameAllocatorType
      /\ g.first_free = h
      /\ g.bitmap = f.bitmap
      /\ g.total_pages = f.total_pages
      /\ g.free_pages = f.free_pages
  BY DEF FrameAllocatorType
<1>2. FreePages(g) = FreePages(f)
  BY <1>1 DEF FreePages
<1> QED
  BY <1>1, <1>2

\* Taking a run of free pages removes exactly these from the free pages.
LEMMA TakeRunKeepsShape ==
  ASSUME NEW f, NEW extra \in Nat, WellFormed(f, extra),
         NEW s \in Nat, NEW n \in Nat \ {0},
         s .. s + n - 1 \subseteq FreePages(f)
  PROVE  LET r == TakeRun(f, s, n)
         IN  /\ WellFormed(r.fa, extra)
             /\ FreePages(r.fa) = FreePages(f) \ (s .. s + n - 1)
             /\ r.fa.total_pages = f.total_pages
             /\ r.fa.first_free = s + n
             /\ r.ret = s * PAGE_SIZE
<1> DEFINE run == s .. s + n - 1
           g   == mark_allocated_all(f, run)
           h   == [g EXCEPT !.first_free = s + n]
<1>1. /\ f \in FrameAllocatorType
      /\ f.free_pages \in Nat
      /\ f.total_pages \in 0 .. MAX_PAGES
      /\ f.free_pages = Cardinality(FreePages(f)) + extra
      /\ FreePages(f) \subseteq 0 .. f.total_pages - 1
      /\ Cardinality(FreePages(f)) \in Nat
  BY FreePagesFinite DEF WellFormed, FrameAllocatorType
<1>2. f.free_pages >= Cardinality(FreePages(f))
  BY <1>1
<1>3. /\ g \in FrameAllocatorType
      /\ g.total_pages = f.total_pages
      /\ FreePages(g) = FreePages(f) \ run
      /\ g.free_pages - f.free_pages
           = Cardinality(FreePages(g)) - Cardinality(FreePages(f))
  BY <1>1, <1>2, MarkAllocatedAll
<1>4. Cardinality(FreePages(g)) \in Nat /\ g.free_pages \in Nat
  BY <1>3, FreePagesFinite DEF FrameAllocatorType
<1>5. s + n <= f.total_pages /\ s + n \in 0 .. MAX_PAGES
  <2>1. s + n - 1 \in run
    OBVIOUS
  <2>2. s + n - 1 \in 0 .. f.total_pages - 1
    BY <1>1, <2>1
  <2> QED
    BY <1>1, <2>2, MaxPagesAssumption
<1>6. TakeRun(f, s, n) = [fa |-> h, ret |-> s * PAGE_SIZE]
  BY DEF TakeRun
<1> HIDE DEF g
<1>7. /\ h \in FrameAllocatorType
      /\ h.first_free = s + n
      /\ h.total_pages = g.total_pages
      /\ h.free_pages = g.free_pages
      /\ FreePages(h) = FreePages(g)
  BY <1>3, <1>5, SetHint
<1> HIDE DEF h, run
<1>8. h.free_pages = Cardinality(FreePages(h)) + extra
  BY <1>1, <1>3, <1>4, <1>7
<1>9. WellFormed(h, extra)
  BY <1>1, <1>3, <1>5, <1>7, <1>8 DEF WellFormed
<1> QED
  BY <1>3, <1>6, <1>7, <1>9 DEF run

\* Marking the one page an allocation takes, and nothing else.
LEMMA TakeOneKeepsShape ==
  ASSUME NEW f, NEW extra \in Nat, WellFormed(f, extra), NEW s \in FreePages(f)
  PROVE  LET r == TakeRun(f, s, 1)
         IN  /\ WellFormed(r.fa, extra)
             /\ FreePages(r.fa) = FreePages(f) \ {s}
             /\ r.ret = s * PAGE_SIZE
<1> DEFINE n == 1
           r == TakeRun(f, s, n)
<1>1. s \in Nat /\ s .. s + n - 1 = {s}
  BY MaxPagesAssumption DEF FreePages, Pages
<1>2. n \in Nat \ {0} /\ s .. s + n - 1 \subseteq FreePages(f)
  BY <1>1
<1> HIDE DEF n
<1>3. /\ WellFormed(r.fa, extra)
      /\ FreePages(r.fa) = FreePages(f) \ (s .. s + n - 1)
      /\ r.ret = s * PAGE_SIZE
  BY <1>1, <1>2, TakeRunKeepsShape
<1> HIDE DEF r
<1>4. FreePages(r.fa) = FreePages(f) \ {s}
  BY <1>1, <1>3, Zenon
<1> QED
  BY <1>3, <1>4, Zenon DEF r, n

\* The pages a pass of alloc finds are the free pages of its range.
LEMMA FreeInRange ==
  ASSUME NEW f \in FrameAllocatorType, NEW lo \in Nat, NEW hi \in Nat
  PROVE  FreeIn(f, lo, hi) = FreePages(f) \cap (lo .. hi - 1)
BY DEF FreeIn, FreePages, is_allocated, FrameAllocatorType

\* alloc refuses only when no page is free; otherwise it takes one free page,
\* and if it is not the lowest one there were free pages below the hint.
LEMMA AllocTakesOne ==
  ASSUME NEW f, NEW extra \in Nat, WellFormed(f, extra)
  PROVE  \/ FreePages(f) = {} /\ alloc(f) = [fa |-> f, ret |-> None]
         \/ \E s \in FreePages(f) :
              /\ alloc(f) = TakeRun(f, s, 1)
              /\ FreePages(f) \cap (0 .. f.first_free - 1) = {}
                   => FreePages(f) \cap (0 .. s - 1) = {}
<1> DEFINE ahead  == FreeIn(f, f.first_free, f.total_pages)
           behind == FreeIn(f, 0, f.first_free)
<1>1. /\ f \in FrameAllocatorType
      /\ f.first_free \in Nat
      /\ f.total_pages \in Nat
      /\ FreePages(f) \subseteq 0 .. f.total_pages - 1
  BY MaxPagesAssumption DEF WellFormed, FrameAllocatorType
<1>2. ahead = FreePages(f) \cap (f.first_free .. f.total_pages - 1)
  BY <1>1, FreeInRange
<1>3. behind = FreePages(f) \cap (0 .. f.first_free - 1)
  BY <1>1, FreeInRange
<1>4. FreePages(f) = ahead \cup behind
  BY <1>1, <1>2, <1>3
<1>5. alloc(f) = IF ahead # {} THEN TakeRun(f, Min(ahead), 1)
                 ELSE IF behind # {} THEN TakeRun(f, Min(behind), 1)
                 ELSE [fa |-> f, ret |-> None]
  BY DEF alloc
<1>6. ahead \in SUBSET Nat /\ behind \in SUBSET Nat
  BY <1>1, <1>2, <1>3
<1> HIDE DEF ahead, behind
<1>7. CASE ahead # {}
  <2>1. Min(ahead) \in ahead /\ \A y \in ahead : Min(ahead) <= y
    BY <1>6, <1>7, MinIsLeast
  <2> DEFINE s == Min(ahead)
  <2> HIDE DEF s
  <2>2. s \in FreePages(f) /\ s \in Nat /\ alloc(f) = TakeRun(f, s, 1)
    BY <1>4, <1>5, <1>6, <1>7, <2>1 DEF s
  <2>3. ASSUME behind = {}, NEW p \in FreePages(f), p \in 0 .. s - 1
        PROVE  FALSE
    <3>1. p \in ahead
      BY <1>4, <2>3
    <3>2. s <= p
      BY <2>1, <3>1 DEF s
    <3> QED
      BY <2>2, <2>3, <3>2
  <2> QED
    BY <1>3, <2>2, <2>3
<1>8. CASE ahead = {} /\ behind # {}
  <2>1. Min(behind) \in behind
    BY <1>6, <1>8, MinIsLeast
  <2> QED
    BY <1>3, <1>4, <1>5, <1>8, <2>1
<1>9. CASE ahead = {} /\ behind = {}
  BY <1>4, <1>5, <1>9
<1> QED
  BY <1>7, <1>8, <1>9

\* alloc_contiguous refuses or takes a run of free pages.
LEMMA AllocContiguousTakesRun ==
  ASSUME NEW f, NEW extra \in Nat, WellFormed(f, extra), NEW n \in Nat
  PROVE  \/ alloc_contiguous(f, n) = [fa |-> f, ret |-> None]
         \/ /\ n # 0
            /\ \E s \in Nat : /\ s .. s + n - 1 \subseteq FreePages(f)
                              /\ alloc_contiguous(f, n) = TakeRun(f, s, n)
<1> DEFINE starts == RunStarts(f, f.first_free, n)
<1>1. /\ f \in FrameAllocatorType
      /\ f.first_free \in Nat
      /\ f.total_pages \in Nat
  BY MaxPagesAssumption DEF WellFormed, FrameAllocatorType
<1>2. starts \in SUBSET Nat
  BY <1>1 DEF RunStarts
<1>3. alloc_contiguous(f, n)
        = IF n = 0 \/ n > f.free_pages \/ starts = {}
          THEN [fa |-> f, ret |-> None]
          ELSE TakeRun(f, Min(starts), n)
  BY DEF alloc_contiguous
<1>4. CASE n # 0 /\ starts # {}
  <2>1. Min(starts) \in starts
    BY <1>2, <1>4, MinIsLeast
  <2> DEFINE s == Min(starts)
  <2>2. s \in Nat /\ FreeIn(f, s, s + n) = s .. s + n - 1
    BY <1>2, <2>1 DEF RunStarts
  <2> HIDE DEF s
  <2>3. s .. s + n - 1 \subseteq FreePages(f)
    BY <1>1, <2>2, FreeInRange
  <2> HIDE DEF starts
  <2> QED
    BY <1>3, <1>4, <2>2, <2>3 DEF s
<1>5. CASE n = 0 \/ starts = {}
  BY <1>3, <1>5
<1> QED
  BY <1>4, <1>5

\* Freeing pages keeps the shape.
LEMMA MarkFreeKeepsShape ==
  ASSUME NEW f, NEW extra \in Nat, WellFormed(f, extra), NEW S
  PROVE  LET m == mark_free_all(f, S)
         IN  /\ WellFormed(m, extra)
             /\ FreePages(m) = FreePages(f) \cup (S \cap Pages)
             /\ m.first_free = f.first_free
<1> DEFINE m == mark_free_all(f, S)
<1>1. /\ f \in FrameAllocatorType
      /\ f.free_pages \in Nat
      /\ f.first_free \in Nat
      /\ f.total_pages \in Nat
      /\ f.first_free <= f.total_pages
      /\ f.free_pages = Cardinality(FreePages(f)) + extra
      /\ FreePages(f) \subseteq 0 .. f.total_pages - 1
      /\ Cardinality(FreePages(f)) \in Nat
  BY FreePagesFinite, MaxPagesAssumption DEF WellFormed, FrameAllocatorType
<1>2. /\ m \in FrameAllocatorType
      /\ m.first_free = f.first_free
      /\ m.total_pages >= f.total_pages
      /\ FreePages(m) = FreePages(f) \cup (S \cap Pages)
      /\ \A p \in FreePages(m) \ FreePages(f) : p < m.total_pages
      /\ m.free_pages - f.free_pages
           = Cardinality(FreePages(m)) - Cardinality(FreePages(f))
  BY <1>1, MarkFreeAll
<1> HIDE DEF m
<1>3. /\ Cardinality(FreePages(m)) \in Nat /\ m.free_pages \in Nat
      /\ m.total_pages \in Nat
      /\ FreePages(m) \subseteq Pages
  <2>1. m.free_pages \in Nat /\ m.total_pages \in Nat
    BY <1>2, MaxPagesAssumption DEF FrameAllocatorType
  <2> QED
    BY <1>2, <2>1, FreePagesFinite
<1>4. m.free_pages = Cardinality(FreePages(m)) + extra
  BY <1>1, <1>2, <1>3
<1>5. FreePages(m) \subseteq 0 .. m.total_pages - 1
  <2> SUFFICES ASSUME NEW p \in FreePages(m)
               PROVE  p \in 0 .. m.total_pages - 1
    OBVIOUS
  <2>1. p \in Nat
    BY <1>3 DEF Pages
  <2> QED
    BY <1>1, <1>2, <1>3, <2>1
<1>6. WellFormed(m, extra)
  BY <1>1, <1>2, <1>3, <1>4, <1>5 DEF WellFormed
<1> QED
  BY <1>2, <1>6 DEF m

\* So does lowering the hint afterwards.
LEMMA FreeAllKeepsShape ==
  ASSUME NEW f, NEW extra \in Nat, WellFormed(f, extra),
         NEW S, NEW page \in Nat
  PROVE  LET g == [mark_free_all(f, S)
                     EXCEPT !.first_free = IF page < @ THEN page ELSE @]
         IN  /\ WellFormed(g, extra)
             /\ FreePages(g) = FreePages(f) \cup (S \cap Pages)
             /\ g.first_free = IF page < f.first_free THEN page
                               ELSE f.first_free
<1> DEFINE m == mark_free_all(f, S)
           h == IF page < m.first_free THEN page ELSE m.first_free
           g == [m EXCEPT !.first_free = h]
<1>1. /\ WellFormed(m, extra)
      /\ FreePages(m) = FreePages(f) \cup (S \cap Pages)
      /\ m.first_free = f.first_free
  BY MarkFreeKeepsShape
<1> HIDE DEF m
<1>2. /\ m \in FrameAllocatorType
      /\ m.first_free \in 0 .. MAX_PAGES
      /\ m.total_pages \in 0 .. MAX_PAGES
      /\ m.first_free <= m.total_pages
  BY <1>1 DEF WellFormed, FrameAllocatorType
<1>3. h \in 0 .. MAX_PAGES /\ h <= m.total_pages
  BY <1>2, MaxPagesAssumption
<1> HIDE DEF h
<1>4. /\ g \in FrameAllocatorType
      /\ g.first_free = h
      /\ g.total_pages = m.total_pages
      /\ g.free_pages = m.free_pages
      /\ FreePages(g) = FreePages(m)
  BY <1>2, <1>3, SetHint
<1> HIDE DEF g
<1>5. WellFormed(g, extra)
  BY <1>1, <1>3, <1>4 DEF WellFormed
<1> QED
  BY <1>1, <1>4, <1>5 DEF g, h, m

\* free clears the bit of the page the address points into, if it has one.
LEMMA FreeClearsOne ==
  ASSUME NEW f, NEW extra \in Nat, WellFormed(f, extra), NEW addr \in Nat
  PROVE  LET g == free(f, addr)
             page == addr \div PAGE_SIZE
         IN  /\ WellFormed(g, extra)
             /\ FreePages(g) = FreePages(f) \cup ({page} \cap Pages)
             /\ FreePages(f) \cap (0 .. f.first_free - 1) = {}
                  => FreePages(g) \cap (0 .. g.first_free - 1) = {}
<1> DEFINE page == addr \div PAGE_SIZE
           g == free(f, addr)
           h == [mark_free_all(f, {page})
                   EXCEPT !.first_free = IF page < @ THEN page ELSE @]
<1>1. page \in Nat
  BY PageOfAddress
<1>2. /\ f \in FrameAllocatorType
      /\ f.bitmap \in [Pages -> BOOLEAN]
      /\ f.first_free \in Nat
  BY MaxPagesAssumption DEF WellFormed, FrameAllocatorType
<1>3. g = IF page \in Pages /\ is_allocated(f, page) THEN h ELSE f
  BY DEF free
<1> HIDE DEF page, g, h
<1>4. CASE page \in Pages /\ is_allocated(f, page)
  <2>1. /\ WellFormed(h, extra)
        /\ FreePages(h) = FreePages(f) \cup ({page} \cap Pages)
        /\ h.first_free = IF page < f.first_free THEN page ELSE f.first_free
    BY <1>1, FreeAllKeepsShape DEF h
  <2>2. ASSUME FreePages(f) \cap (0 .. f.first_free - 1) = {}
        PROVE  FreePages(h) \cap (0 .. h.first_free - 1) = {}
    BY <1>1, <1>2, <2>1, <2>2
  <2> QED
    BY <1>3, <1>4, <2>1, <2>2 DEF g, page
<1>5. CASE ~ (page \in Pages /\ is_allocated(f, page))
  <2>1. {page} \cap Pages \subseteq FreePages(f)
    BY <1>5 DEF is_allocated, FreePages
  <2> QED
    BY <1>3, <1>5, <2>1 DEF g, page
<1> QED
  BY <1>4, <1>5

\* init on the static initial value: with a memory map the free pages are the
\* available ones; without one there are none, and the counter is MAX_PAGES.
LEMMA InitFillsBitmap ==
  ASSUME NEW map
  PROVE  LET g == init(new, map)
         IN  /\ map # << >> => /\ WellFormed(g, 0)
                               /\ FreePages(g) = AvailablePages(map)
             /\ map = << >> => /\ WellFormed(g, MAX_PAGES)
                               /\ FreePages(g) = {}
                               /\ g.total_pages = MAX_PAGES
             /\ g.first_free = 0
<1> DEFINE full == [p \in Pages |-> TRUE]
           marked == [bitmap |-> full, first_free |-> 0,
                      total_pages |-> 0, free_pages |-> 0]
           blind == [bitmap |-> full, first_free |-> 0,
                     total_pages |-> MAX_PAGES, free_pages |-> MAX_PAGES]
           A == AvailablePages(map)
<1>1. init(new, map) = IF map = << >> THEN blind ELSE mark_free_all(marked, A)
  <2> DEFINE start == [new EXCEPT !.bitmap = full]
  <2>1. init(new, map)
          = IF map = << >>
            THEN [bitmap |-> full, first_free |-> new.first_free,
                  total_pages |-> MAX_PAGES, free_pages |-> MAX_PAGES]
            ELSE mark_free_all(start, A)
    BY DEF init
  <2> HIDE DEF full
  <2>2. start = marked
    BY DEF new
  <2>3. new.first_free = 0
    BY DEF new
  <2> HIDE DEF start, marked, A
  <2> QED
    BY <2>1, <2>2, <2>3
<1>2. full \in [Pages -> BOOLEAN] /\ \A p \in Pages : full[p]
  OBVIOUS
<1> HIDE DEF full
<1>3. /\ marked \in FrameAllocatorType /\ FreePages(marked) = {}
      /\ blind \in FrameAllocatorType /\ FreePages(blind) = {}
  BY <1>2, MaxPagesAssumption DEF FrameAllocatorType, FreePages
<1>4. WellFormed(marked, 0) /\ WellFormed(blind, MAX_PAGES)
  <2>1. Cardinality({}) = 0
    BY FS_EmptySet
  <2>2. /\ marked.free_pages = 0 /\ marked.first_free = 0
        /\ marked.total_pages = 0 /\ blind.free_pages = MAX_PAGES
        /\ blind.first_free = 0 /\ blind.total_pages = MAX_PAGES
    OBVIOUS
  <2> HIDE DEF marked, blind
  <2> QED
    BY <1>3, <2>1, <2>2, MaxPagesAssumption DEF WellFormed
<1>5. marked.first_free = 0 /\ blind.first_free = 0
      /\ blind.total_pages = MAX_PAGES
  OBVIOUS
<1> HIDE DEF marked, blind
<1>6. /\ WellFormed(mark_free_all(marked, A), 0)
      /\ FreePages(mark_free_all(marked, A)) = {} \cup (A \cap Pages)
      /\ mark_free_all(marked, A).first_free = 0
  BY <1>3, <1>4, <1>5, MarkFreeKeepsShape
<1>7. A \cap Pages = A
  BY DEF AvailablePages
<1> HIDE DEF A
<1> QED
  BY <1>1, <1>3, <1>4, <1>5, <1>6, <1>7 DEF A

\* Before init nothing can be allocated and freeing changes nothing.
LEMMA NewIsInert ==
  /\ new \in FrameAllocatorType
  /\ alloc(new) = [fa |-> new, ret |-> None]
  /\ \A n \in Nat : alloc_contiguous(new, n) = [fa |-> new, ret |-> None]
  /\ \A addr \in Nat : free(new, addr) = new
  /\ \A addr, n \in Nat : free_contiguous(new, addr, n) = new
<1>1. /\ new \in FrameAllocatorType
      /\ new.first_free = 0 /\ new.total_pages = 0 /\ new.free_pages = 0
      /\ \A p \in Pages : new.bitmap[p] = FALSE
  BY MaxPagesAssumption DEF new, FrameAllocatorType
<1>2. alloc(new) = [fa |-> new, ret |-> None]
  <2>1. FreeIn(new, 0, 0) = {}
    BY DEF FreeIn
  <2> QED
    BY <1>1, <2>1 DEF alloc
<1>3. ASSUME NEW n \in Nat
      PROVE  alloc_contiguous(new, n) = [fa |-> new, ret |-> None]
  BY <1>1 DEF alloc_contiguous
<1>4. ASSUME NEW addr \in Nat PROVE free(new, addr) = new
  BY <1>1 DEF free, is_allocated
<1>5. ASSUME NEW addr \in Nat, NEW n \in Nat
      PROVE  free_contiguous(new, addr, n) = new
  <2> DEFINE start == addr \div PAGE_SIZE
  <2>1. start \in Nat
    BY PageOfAddress
  <2>2. mark_free_all(new, start .. start + n - 1) = new
    BY <1>1, MarkFreeNothing
  <2>3. ~ (start < new.first_free)
    BY <1>1, <2>1
  <2>4. free_contiguous(new, addr, n)
          = [new EXCEPT !.first_free = new.first_free]
    BY <2>2, <2>3 DEF free_contiguous
  <2> QED
    BY <2>4 DEF new
<1> QED
  BY <1>1, <1>2, <1>3, <1>4, <1>5

----------------------------------------------------------------------------
(* Page tables: addresses and indices.                                     *)

\* Dividing twice is dividing by the product.
LEMMA DivideTwice ==
  ASSUME NEW v \in Nat, NEW a \in Nat \ {0}, NEW b \in Nat \ {0}
  PROVE  (v \div a) \div b = v \div (a * b)
<1> DEFINE q == v \div a
           r == v % a
           t == q \div b
           s == q % b
<1>1. q \in Nat /\ r \in 0 .. a - 1 /\ v = q * a + r
  BY Division
<1> HIDE DEF q, r
<1>2. t \in Nat /\ s \in 0 .. b - 1 /\ q = t * b + s
  BY <1>1, Division
<1> HIDE DEF t, s
<1>3. a * b \in Nat \ {0}
  OBVIOUS
<1>4. s * a + r \in 0 .. a * b - 1
  <2>1. PICK k \in Nat : b = s + 1 + k
    <3>1. b - s - 1 \in Nat /\ b = s + 1 + (b - s - 1)
      BY <1>2
    <3> QED
      BY <3>1
  <2>2. a * b = s * a + a + k * a /\ k * a \in Nat /\ s * a \in Nat
    BY <1>2, <2>1
  <2> QED
    BY <1>1, <2>2
<1>5. v = t * (a * b) + (s * a + r)
  <2>1. q * a = t * (a * b) + s * a
    BY <1>2
  <2>2. t * (a * b) \in Nat /\ s * a \in Nat /\ q * a \in Nat
    BY <1>1, <1>2
  <2> QED
    BY <1>1, <2>1, <2>2
<1>6. (t * (a * b) + (s * a + r)) \div (a * b) = t
  BY <1>2, <1>3, <1>4, Parts
<1> QED
  BY <1>5, <1>6 DEF t, q

\* The quotients an address is split into.
Page(virt) == virt \div E
Block(virt) == Page(virt) \div E
Giant(virt) == Block(virt) \div E
Slot(virt) == Giant(virt) \div E

\* The indices are the remainders of successive divisions.
LEMMA IndicesAre ==
  ASSUME NEW virt \in Nat
  PROVE  /\ Page(virt) \in Nat /\ Block(virt) \in Nat /\ Giant(virt) \in Nat
         /\ Slot(virt) \in Nat
         /\ indices(virt).pml4 = Slot(virt) % E
         /\ indices(virt).pdpt = Giant(virt) % E
         /\ indices(virt).pd = Block(virt) % E
         /\ indices(virt).pt = Page(virt) % E
         /\ indices(virt).offset = virt % E
         /\ {indices(virt).pml4, indices(virt).pdpt, indices(virt).pd,
             indices(virt).pt, indices(virt).offset} \subseteq Index
         /\ virt = Page(virt) * E + (virt % E)
         /\ Page(virt) = Block(virt) * E + indices(virt).pt
         /\ Block(virt) = Giant(virt) * E + indices(virt).pd
         /\ Giant(virt) = Slot(virt) * E + indices(virt).pdpt
<1>1. E \in Nat \ {0}
  BY TableSizeAssumption
<1>2. E * E \in Nat \ {0} /\ E * E * E \in Nat \ {0}
  BY <1>1
<1>3. Page(virt) \in Nat /\ virt % E \in 0 .. E - 1 /\ virt = Page(virt) * E + (virt % E)
  BY <1>1, Division DEF Page
<1>4. /\ Block(virt) \in Nat /\ Page(virt) % E \in 0 .. E - 1
      /\ Page(virt) = Block(virt) * E + (Page(virt) % E)
  BY <1>1, <1>3, Division DEF Block
<1>5. /\ Giant(virt) \in Nat /\ Block(virt) % E \in 0 .. E - 1
      /\ Block(virt) = Giant(virt) * E + (Block(virt) % E)
  BY <1>1, <1>4, Division DEF Giant
<1>6. /\ Slot(virt) \in Nat /\ Giant(virt) % E \in 0 .. E - 1
      /\ Giant(virt) = Slot(virt) * E + (Giant(virt) % E)
  BY <1>1, <1>5, Division DEF Slot
<1>7. Slot(virt) % E \in 0 .. E - 1
  BY <1>1, <1>6, Division
<1>8. Block(virt) = virt \div (E * E)
  BY <1>1, DivideTwice DEF Block, Page
<1>9. Giant(virt) = virt \div (E * E * E)
  BY <1>1, <1>2, <1>8, DivideTwice DEF Giant
<1>10. Slot(virt) = virt \div (E * E * E * E)
  BY <1>1, <1>2, <1>9, DivideTwice DEF Slot
<1>11. indices(virt) = [pml4 |-> Slot(virt) % E, pdpt |-> Giant(virt) % E,
                        pd |-> Block(virt) % E, pt |-> Page(virt) % E, offset |-> virt % E]
  BY <1>8, <1>9, <1>10 DEF indices, Page
<1> QED
  BY <1>3, <1>4, <1>5, <1>6, <1>7, <1>11 DEF Index

\* The addresses of memory lie under the first entry of the root table, and
\* their blocks of E frames are those of the identity mapping.
LEMMA IdentityIndices ==
  ASSUME NEW virt \in 0 .. MAX_PAGES * PAGE_SIZE - 1
  PROVE  /\ virt \in Nat
         /\ indices(virt).pml4 = 0
         /\ indices(virt).pdpt \in 0 .. G - 1
         /\ Block(virt) = indices(virt).pdpt * E + indices(virt).pd
         /\ Block(virt) * E \in Pages
<1> DEFINE p == Page(virt)
           b == Block(virt)
           g == Giant(virt)
           s == Slot(virt)
<1>1. E \in Nat \ {0} /\ G \in Nat \ {0} /\ G <= E
  BY TableSizeAssumption, IdentityAssumption
<1>2. virt \in Nat /\ virt < G * E * E * E
  <2>1. MAX_PAGES * PAGE_SIZE = G * E * E * E
    BY TableSizeAssumption, IdentityAssumption
  <2>2. G * E * E * E \in Nat
    BY <1>1
  <2> QED
    BY <2>1, <2>2
<1>3. /\ p \in Nat /\ b \in Nat /\ g \in Nat /\ s \in Nat
      /\ virt = p * E + (virt % E) /\ virt % E \in Nat
      /\ p = b * E + indices(virt).pt
      /\ b = g * E + indices(virt).pd
      /\ g = s * E + indices(virt).pdpt
      /\ indices(virt).pml4 = s % E
      /\ {indices(virt).pdpt, indices(virt).pd, indices(virt).pt} \subseteq 0 .. E - 1
  BY <1>1, <1>2, IndicesAre DEF Index
<1> DEFINE i3 == indices(virt).pdpt
           i2 == indices(virt).pd
           i1 == indices(virt).pt
<1>4. /\ i3 \in 0 .. E - 1 /\ i2 \in 0 .. E - 1 /\ i1 \in 0 .. E - 1
      /\ p = b * E + i1 /\ b = g * E + i2 /\ g = s * E + i3
  BY <1>3
<1> HIDE DEF p, b, g, s, i3, i2, i1
<1>5. p < G * E * E
  <2>1. p * E < G * E * E * E
    <3>1. p * E \in Nat
      BY <1>1, <1>3
    <3> QED
      BY <1>1, <1>2, <1>3, <3>1
  <2>2. G * E * E \in Nat
    BY <1>1
  <2> QED
    BY <1>1, <1>3, <2>1, <2>2, ProductOrder
<1>6. b < G * E
  <2>1. b * E < (G * E) * E
    <3>1. b * E \in Nat
      BY <1>1, <1>3
    <3> QED
      BY <1>1, <1>4, <1>3, <1>5, <3>1
  <2>2. G * E \in Nat
    BY <1>1
  <2> QED
    BY <1>1, <1>3, <2>1, <2>2, ProductOrder
<1>7. g < G
  <2>1. g * E < G * E
    <3>1. g * E \in Nat
      BY <1>1, <1>3
    <3> QED
      BY <1>1, <1>4, <1>3, <1>6, <3>1
  <2> QED
    BY <1>1, <1>3, <2>1, ProductOrder
<1>8. s = 0
  <2> SUFFICES ASSUME s >= 1 PROVE FALSE
    BY <1>3
  <2>1. 1 * E <= s * E
    BY <1>1, <1>3, ProductOrder
  <2>2. s * E \in Nat
    BY <1>1, <1>3
  <2> QED
    BY <1>1, <1>3, <1>4, <1>7, <2>1, <2>2
<1>9. i3 = g
  BY <1>1, <1>4, <1>8
<1>10. s % E = 0
  BY <1>1, <1>8
<1>11. b * E \in 0 .. G * E * E - 1
  <2>1. b * E <= p
    <3>1. b * E \in Nat
      BY <1>1, <1>3
    <3> QED
      BY <1>3, <1>4, <3>1
  <2>2. b * E \in Nat /\ G * E * E \in Nat
    BY <1>1, <1>3
  <2> QED
    BY <1>3, <1>5, <2>1, <2>2
<1>12. Pages = 0 .. G * E * E - 1
  BY IdentityAssumption DEF Pages
<1>13. i3 \in 0 .. G - 1 /\ b = i3 * E + i2
  BY <1>3, <1>4, <1>7, <1>9, <1>1
<1> QED
  BY <1>2, <1>3, <1>10, <1>11, <1>12, <1>13 DEF b, i3, i2

\* Two numbers are equal when their quotients and their remainders are.
LEMMA SameParts ==
  ASSUME NEW a \in Nat, NEW b \in Nat, NEW r \in Index, NEW s \in Index, a * E + r = b * E + s
  PROVE  a = b /\ r = s
<1>1. E \in Nat \ {0} /\ r \in 0 .. E - 1 /\ s \in 0 .. E - 1
  BY TableSizeAssumption DEF Index
<1>2. (a * E + r) \div E = a /\ (a * E + r) % E = r
  BY <1>1, Parts
<1>3. (b * E + s) \div E = b /\ (b * E + s) % E = s
  BY <1>1, Parts
<1> QED
  BY <1>2, <1>3

\* A quotient of a bounded number is bounded.
LEMMA QuotientBound ==
  ASSUME NEW n \in Nat, NEW a \in Nat, NEW r \in Nat, NEW d \in Nat \ {0}, NEW q \in Nat,
         n = a * d + r, n < q * d
  PROVE  a < q
<1>1. a * d \in Nat /\ q * d \in Nat
  OBVIOUS
<1>2. ~ (q * d <= a * d)
  BY <1>1
<1> QED
  BY <1>2, ProductOrder

\* The virtual addresses of the code.
Virtual == 0 .. E * E * E * E * E - 1

\* The entry of the root table, where the first stands for the last as well.
Root(virt) == IF indices(virt).pml4 = E - 1 THEN 0 ELSE indices(virt).pml4

\* The slot of a virtual address is an index of the root table.
LEMMA SlotIsIndex ==
  ASSUME NEW virt \in Virtual
  PROVE  virt \in Nat /\ indices(virt).pml4 = Slot(virt) /\ Slot(virt) \in Index
<1> DEFINE p == Page(virt)
           b == Block(virt)
           g == Giant(virt)
           s == Slot(virt)
<1>1. E \in Nat \ {0} /\ E * E * E * E * E \in Nat
  BY TableSizeAssumption
<1>2. virt \in Nat /\ virt < E * E * E * E * E
  BY <1>1 DEF Virtual
<1>3. /\ p \in Nat /\ b \in Nat /\ g \in Nat /\ s \in Nat
      /\ virt = p * E + (virt % E) /\ virt % E \in Nat
      /\ p = b * E + indices(virt).pt /\ indices(virt).pt \in Nat
      /\ b = g * E + indices(virt).pd /\ indices(virt).pd \in Nat
      /\ g = s * E + indices(virt).pdpt /\ indices(virt).pdpt \in Nat
      /\ indices(virt).pml4 = s % E
  BY <1>1, <1>2, IndicesAre DEF Index
<1> HIDE DEF p, b, g, s
<1>4. E * E \in Nat /\ E * E * E \in Nat /\ E * E * E * E \in Nat
  BY <1>1
<1>5. p < E * E * E * E
  BY <1>1, <1>2, <1>3, <1>4, QuotientBound
<1>6. b < E * E * E
  BY <1>1, <1>3, <1>4, <1>5, QuotientBound
<1>7. g < E * E
  BY <1>1, <1>3, <1>4, <1>6, QuotientBound
<1>8. s < E
  BY <1>1, <1>3, <1>7, QuotientBound
<1>9. s % E = s
  <2>1. s \in 0 .. E - 1 /\ 0 * E + s = s
    BY <1>1, <1>3, <1>8
  <2> QED
    BY <1>1, <2>1, Parts
<1>10. s \in 0 .. E - 1
  BY <1>1, <1>3, <1>8
<1>11. indices(virt).pml4 = s
  BY <1>3, <1>9
<1> QED
  BY <1>2, <1>10, <1>11 DEF s, Index

\* The page of an address in the form Canonical gives it.
LEMMA CanonicalParts ==
  ASSUME NEW virt \in Virtual
  PROVE  LET ix == indices(virt)
             p  == ((Root(virt) * E + ix.pdpt) * E + ix.pd) * E + ix.pt
         IN  /\ p \in Nat /\ Root(virt) \in Index
             /\ Canonical(virt) = p * E + (virt % E)
             /\ Canonical(virt) \div E = p
<1> DEFINE ix == indices(virt)
           i4 == ix.pml4
           i3 == ix.pdpt
           i2 == ix.pd
           i1 == ix.pt
           o  == virt % E
           r  == Root(virt)
<1>1. E \in Nat /\ E > 1
  BY TableSizeAssumption
<1>2. /\ i4 \in 0 .. E - 1 /\ i3 \in 0 .. E - 1 /\ i2 \in 0 .. E - 1 /\ i1 \in 0 .. E - 1
      /\ o \in 0 .. E - 1 /\ virt \in Nat
      /\ virt = (((i4 * E + i3) * E + i2) * E + i1) * E + o
  <2>1. virt \in Nat /\ i4 = Slot(virt) /\ i4 \in 0 .. E - 1
    BY SlotIsIndex DEF Index
  <2>2. {i3, i2, i1, ix.offset} \subseteq 0 .. E - 1 /\ ix.offset = o
    BY <2>1, IndicesAre DEF Index
  <2>3. /\ virt = Page(virt) * E + o /\ Page(virt) = Block(virt) * E + i1
        /\ Block(virt) = Giant(virt) * E + i2 /\ Giant(virt) = Slot(virt) * E + i3
    BY <2>1, IndicesAre
  <2> QED
    BY <2>1, <2>2, <2>3
<1>3. r = IF i4 = E - 1 THEN 0 ELSE i4
  BY DEF Root
<1>4. r \in 0 .. E - 1
  BY <1>1, <1>2, <1>3
<1>5. Canonical(virt) = IF i4 = E - 1 THEN virt % (E * E * E * E) ELSE virt
  BY DEF Canonical
<1> HIDE DEF ix, i4, i3, i2, i1, o, r
<1> DEFINE q == (i3 * E + i2) * E + i1
           p == ((r * E + i3) * E + i2) * E + i1
<1>6. p \in Nat /\ q \in Nat
  BY <1>1, <1>2, <1>4
<1>7. Canonical(virt) = p * E + o
  <2>1. CASE i4 = E - 1
    <3> DEFINE a == i3 * E + i2
               rest == q * E + o
               F == E * E * E * E
    <3>1. a \in 0 .. E * E - 1
      <4>1. a \in Nat /\ E * E \in Nat
        BY <1>1, <1>2
      <4>2. i3 * E <= (E - 1) * E /\ (E - 1) * E = E * E - E /\ i3 * E \in Nat
        <5>1. i3 * E <= (E - 1) * E
          BY <1>1, <1>2, ProductOrder
        <5> QED
          BY <1>1, <1>2, <5>1
      <4> QED
        BY <1>1, <1>2, <4>1, <4>2
    <3> HIDE DEF a
    <3>2. q = a * E + i1
      BY DEF a
    <3> HIDE DEF q
    <3>3. q \in 0 .. E * E * E - 1
      <4>1. E * E \in Nat /\ E * E * E \in Nat
        BY <1>1
      <4>2. a * E <= (E * E - 1) * E /\ (E * E - 1) * E = E * E * E - E /\ a * E \in Nat
        <5>1. a * E <= (E * E - 1) * E
          BY <1>1, <3>1, <4>1, ProductOrder
        <5> QED
          BY <1>1, <3>1, <5>1
      <4> QED
        BY <1>1, <1>2, <1>6, <3>2, <4>1, <4>2
    <3>4. rest \in 0 .. F - 1
      <4>1. E * E * E \in Nat /\ F \in Nat
        BY <1>1
      <4>2. q * E <= (E * E * E - 1) * E /\ (E * E * E - 1) * E = F - E /\ q * E \in Nat
        <5>1. q * E <= (E * E * E - 1) * E
          BY <1>1, <3>3, <4>1, ProductOrder
        <5> QED
          BY <1>1, <3>3, <5>1
      <4> QED
        BY <1>1, <1>2, <4>1, <4>2
    <3>5. virt = (E - 1) * F + rest
      BY <1>1, <1>2, <2>1 DEF q
    <3>6. F \in Nat \ {0} /\ E - 1 \in Nat
      BY <1>1
    <3> HIDE DEF rest, F
    <3>7. virt % F = rest
      BY <3>4, <3>5, <3>6, Parts
    <3>8. p = q
      <4>1. r = 0
        BY <1>3, <2>1
      <4> QED
        BY <1>1, <1>2, <4>1 DEF q
    <3> QED
      BY <1>5, <2>1, <3>7, <3>8 DEF rest, F
  <2>2. CASE i4 # E - 1
    BY <1>2, <1>3, <1>5, <2>2
  <2> QED
    BY <2>1, <2>2
<1> HIDE DEF p
<1>8. (p * E + o) \div E = p
  BY <1>1, <1>2, <1>6, Parts
<1> QED
  BY <1>4, <1>6, <1>7, <1>8 DEF Index, p, o, r, i3, i2, i1, ix

\* Two addresses show one page when they go through the same entries, the
\* first and the last of the root table being the same.
LEMMA SamePageParts ==
  ASSUME NEW v \in Virtual, NEW w \in Virtual
  PROVE  SamePage(v, w) <=> /\ Root(v) = Root(w)
                            /\ indices(v).pdpt = indices(w).pdpt
                            /\ indices(v).pd = indices(w).pd
                            /\ indices(v).pt = indices(w).pt
<1> DEFINE a4 == Root(v)
           a3 == indices(v).pdpt
           a2 == indices(v).pd
           a1 == indices(v).pt
           b4 == Root(w)
           b3 == indices(w).pdpt
           b2 == indices(w).pd
           b1 == indices(w).pt
<1>1. v \in Nat /\ w \in Nat
  BY SlotIsIndex
<1>2. /\ a3 \in Index /\ a2 \in Index /\ a1 \in Index
      /\ b3 \in Index /\ b2 \in Index /\ b1 \in Index
  BY <1>1, IndicesAre
<1>3. a4 \in Index /\ Canonical(v) \div E = ((a4 * E + a3) * E + a2) * E + a1
  BY CanonicalParts
<1>4. b4 \in Index /\ Canonical(w) \div E = ((b4 * E + b3) * E + b2) * E + b1
  BY CanonicalParts
<1> HIDE DEF a4, a3, a2, a1, b4, b3, b2, b1
<1>5. SamePage(v, w) <=>
        ((a4 * E + a3) * E + a2) * E + a1 = ((b4 * E + b3) * E + b2) * E + b1
  BY <1>3, <1>4 DEF SamePage
<1>6. ASSUME ((a4 * E + a3) * E + a2) * E + a1 = ((b4 * E + b3) * E + b2) * E + b1
      PROVE  a4 = b4 /\ a3 = b3 /\ a2 = b2 /\ a1 = b1
  <2>1. E \in Nat /\ \A i \in Index : i \in Nat
    BY TableSizeAssumption DEF Index
  <2>2. /\ a4 * E + a3 \in Nat /\ (a4 * E + a3) * E + a2 \in Nat
        /\ b4 * E + b3 \in Nat /\ (b4 * E + b3) * E + b2 \in Nat
    BY <1>2, <1>3, <1>4, <2>1
  <2>3. (a4 * E + a3) * E + a2 = (b4 * E + b3) * E + b2 /\ a1 = b1
    BY <1>2, <1>6, <2>2, SameParts
  <2>4. a4 * E + a3 = b4 * E + b3 /\ a2 = b2
    BY <1>2, <2>2, <2>3, SameParts
  <2>5. a4 \in Nat /\ b4 \in Nat
    BY <1>3, <1>4, <2>1
  <2>6. a4 = b4 /\ a3 = b3
    BY <1>2, <2>4, <2>5, SameParts
  <2> QED
    BY <2>3, <2>4, <2>6
<1> QED
  BY <1>5, <1>6 DEF a4, a3, a2, a1, b4, b3, b2, b1

----------------------------------------------------------------------------
(* Entries.                                                                *)

\* An entry points to the frame it was made for.
LEMMA EntryPoints ==
  ASSUME NEW f \in Nat, NEW flags
  PROVE  /\ FrameOf(PageTableEntry(f * PAGE_SIZE, flags)) = f
         /\ PageTableEntry(f * PAGE_SIZE, flags).addr = f * PAGE_SIZE
         /\ PageTableEntry(f * PAGE_SIZE, flags).flags = flags
<1>1. f * PAGE_SIZE \in Nat /\ f * PAGE_SIZE = f * PAGE_SIZE + 0
  BY PageSizeAssumption
<1>2. (f * PAGE_SIZE + 0) % PAGE_SIZE = 0 /\ (f * PAGE_SIZE + 0) \div PAGE_SIZE = f
  BY PageSizeAssumption, Parts
<1>3. page_align_down(f * PAGE_SIZE) = f * PAGE_SIZE
  BY <1>1, <1>2 DEF page_align_down
<1> QED
  BY <1>1, <1>2, <1>3 DEF PageTableEntry, FrameOf

\* An entry that links a table, and one that maps a block of E frames.
LinkTo(frame) == PageTableEntry(frame * PAGE_SIZE, {"PRESENT", "WRITABLE"})

HugeTo(block) ==
  PageTableEntry(block * E * PAGE_SIZE, {"PRESENT", "WRITABLE", "HUGE_PAGE"})

\* A memory is a word for every index of every frame.
MemoryShape(mem) == mem = [f \in Pages |-> [i \in Index |-> mem[f][i]]]

\* The kernel's tables as paging::init leaves them, except for what it does
\* not fill.
IdentityTables(mem) ==
  /\ mem[KPML4][0] = LinkTo(KPDPT)
  /\ mem[KPML4][E - 1] = LinkTo(KPDPT)
  /\ \A j \in 0 .. G - 1 :
       /\ mem[KPDPT][j] = LinkTo(KPD[j])
       /\ \A i \in Index : mem[KPD[j]][i] = HugeTo(j * E + i)

\* paging::init makes the identity mapping and fills nothing else.
LEMMA InitTables ==
  ASSUME NEW old, MemoryShape(old), NEW mem, mem = paging_init(old)
  PROVE  /\ MemoryShape(mem) /\ IdentityTables(mem)
         /\ \A i \in Index : i \notin {0, E - 1} => mem[KPML4][i] = old[KPML4][i]
         /\ \A i \in Index : ~ i < G => mem[KPDPT][i] = old[KPDPT][i]
<1> DEFINE link(frame) == PageTableEntry(frame * PAGE_SIZE, {"PRESENT", "WRITABLE"})
           huge(j, i)  == PageTableEntry((j * E + i) * E * PAGE_SIZE,
                                         {"PRESENT", "WRITABLE", "HUGE_PAGE"})
<1>1. mem = [f \in Pages |->
         IF f = KPML4 THEN [old[f] EXCEPT ![0] = link(KPDPT), ![E - 1] = link(KPDPT)]
         ELSE IF f = KPDPT
         THEN [i \in Index |-> IF i < G THEN link(KPD[i]) ELSE old[f][i]]
         ELSE IF \E j \in 0 .. G - 1 : f = KPD[j]
         THEN [i \in Index |-> huge(CHOOSE j \in 0 .. G - 1 : f = KPD[j], i)]
         ELSE old[f]]
  BY DEF paging_init
<1>2. \A f \in Pages : old[f] = [i \in Index |-> old[f][i]]
  BY DEF MemoryShape
<1> HIDE DEF link, huge
<1>3. 0 \in Index /\ E - 1 \in Index /\ 0 # E - 1 /\ \A j \in 0 .. G - 1 : j \in Index /\ j < G
  BY TableSizeAssumption, IdentityAssumption DEF Index
<1>4. mem[KPML4] = [old[KPML4] EXCEPT ![0] = link(KPDPT), ![E - 1] = link(KPDPT)]
  BY <1>1, KernelTablesAssumption
<1>5. /\ mem[KPML4][0] = link(KPDPT) /\ mem[KPML4][E - 1] = link(KPDPT)
      /\ mem[KPML4] = [i \in Index |-> mem[KPML4][i]]
      /\ \A i \in Index : i \notin {0, E - 1} => mem[KPML4][i] = old[KPML4][i]
  <2>1. old[KPML4] = [i \in Index |-> old[KPML4][i]]
    BY <1>2, KernelTablesAssumption
  <2> QED
    BY <1>3, <1>4, <2>1
<1>6. mem[KPDPT] = [i \in Index |-> IF i < G THEN link(KPD[i]) ELSE old[KPDPT][i]]
  BY <1>1, KernelTablesAssumption
<1>7. ASSUME NEW j \in 0 .. G - 1
      PROVE  mem[KPD[j]] = [i \in Index |-> huge(j, i)]
  <2>1. KPD[j] \in Pages /\ KPD[j] # KPML4 /\ KPD[j] # KPDPT
    BY KernelTablesAssumption
  <2>2. mem[KPD[j]] = [i \in Index |-> huge(CHOOSE k \in 0 .. G - 1 : KPD[j] = KPD[k], i)]
    BY <1>1, <2>1
  <2>3. (CHOOSE k \in 0 .. G - 1 : KPD[j] = KPD[k]) = j
    BY KernelTablesAssumption
  <2> QED
    BY <2>2, <2>3
<1>8. ASSUME NEW f \in Pages
      PROVE  mem[f] = [i \in Index |-> mem[f][i]]
  <2>1. CASE f = KPML4
    BY <1>5, <2>1
  <2>2. CASE f = KPDPT
    BY <1>6, <2>2
  <2>3. CASE \E j \in 0 .. G - 1 : f = KPD[j]
    BY <1>7, <2>3
  <2>4. CASE f # KPML4 /\ f # KPDPT /\ ~ \E j \in 0 .. G - 1 : f = KPD[j]
    <3>1. mem[f] = old[f]
      BY <1>1, <2>4
    <3> QED
      BY <1>2, <3>1
  <2> QED
    BY <2>1, <2>2, <2>3, <2>4
<1>9. MemoryShape(mem)
  <2>1. DOMAIN mem = Pages /\ mem = [f \in Pages |-> mem[f]]
    BY <1>1
  <2> QED
    BY <1>8, <2>1 DEF MemoryShape
<1>10. /\ \A j \in 0 .. G - 1 : mem[KPDPT][j] = link(KPD[j])
       /\ \A j \in 0 .. G - 1 : \A i \in Index : mem[KPD[j]][i] = huge(j, i)
  BY <1>3, <1>6, <1>7, ZenonT(40)
<1>11. /\ \A j : link(j) = LinkTo(j)
       /\ \A j, i : huge(j, i) = HugeTo(j * E + i)
  BY DEF link, huge, LinkTo, HugeTo
<1> QED
  BY <1>5, <1>6, <1>9, <1>10, <1>11 DEF IdentityTables

\* A memory with one word replaced.
Written(mem, f, i, e) == [mem EXCEPT ![f][i] = e]

\* A walk in progress, at table t.
Reached(m, a, t) == [ok |-> TRUE, mem |-> m, fa |-> a, table |-> t]

\* A walk in progress follows a present entry.
LEMMA LinkFollows ==
  ASSUME NEW m, NEW a, NEW t, NEW i, is_present(m[t][i])
  PROVE  Link(Reached(m, a, t), i) = Reached(m, a, FrameOf(m[t][i]))
BY ZenonT(30) DEF Link, Reached

\* So does a whole level of map_page.
LEMMA DescendFollows ==
  ASSUME NEW m, NEW a, NEW t, NEW i, is_present(m[t][i])
  PROVE  Descend(Reached(m, a, t), i) = Reached(m, a, FrameOf(m[t][i]))
<1> DEFINE s == Reached(m, a, t)
<1>1. s.ok /\ s.mem = m /\ s.table = t
  BY DEF Reached
<1>2. Link(s, i) = Reached(m, a, FrameOf(m[t][i]))
  BY LinkFollows
<1> HIDE DEF s
<1>3. Descend(s, i) = Link(s, i)
  BY <1>1 DEF Descend
<1> QED
  BY <1>2, <1>3 DEF s

\* The walk of an address of memory ends at the first frame of its block of E
\* frames, which is no table at all: map_page takes no frame and writes the
\* entry there.
LEMMA MapInIdentity ==
  ASSUME NEW m, NEW f, NEW phys, NEW flags,
         NEW virt \in 0 .. MAX_PAGES * PAGE_SIZE - 1, IdentityTables(m)
  PROVE  LET r == map_page(m, f, virt, phys, flags)
         IN  /\ r.ok /\ r.fa = f
             /\ r.mem = Written(m, Block(virt) * E, indices(virt).pt,
                                PageTableEntry(phys, flags \cup {"PRESENT"}))
<1> DEFINE ix == indices(virt)
           s(t) == Reached(m, f, t)
<1>1. /\ ix.pml4 = 0 /\ ix.pdpt \in 0 .. G - 1
      /\ Block(virt) = ix.pdpt * E + ix.pd /\ Block(virt) * E \in Pages
      /\ virt \in Nat
  BY IdentityIndices
<1>2. ix.pd \in Index /\ ix.pt \in Index /\ Block(virt) \in Nat
  BY <1>1, IndicesAre
<1>3. KPDPT \in Nat /\ KPD[ix.pdpt] \in Nat /\ Block(virt) * E \in Nat
  BY <1>1, KernelTablesAssumption, MaxPagesAssumption DEF Pages
<1> HIDE DEF ix
<1>4. Descend(s(KPML4), ix.pml4) = s(KPDPT)
  <2>1. m[KPML4][0] = LinkTo(KPDPT)
    BY DEF IdentityTables
  <2>2. FrameOf(LinkTo(KPDPT)) = KPDPT /\ is_present(LinkTo(KPDPT))
    BY <1>3, EntryPoints DEF LinkTo, is_present
  <2> QED
    BY <1>1, <2>1, <2>2, DescendFollows
<1>5. Descend(s(KPDPT), ix.pdpt) = s(KPD[ix.pdpt])
  <2> DEFINE t == KPD[ix.pdpt]
  <2>1. m[KPDPT][ix.pdpt] = LinkTo(t)
    BY <1>1 DEF IdentityTables
  <2>2. FrameOf(LinkTo(t)) = t /\ is_present(LinkTo(t))
    BY <1>3, EntryPoints DEF LinkTo, is_present
  <2> HIDE DEF t
  <2> QED
    BY <2>1, <2>2, DescendFollows DEF t
<1>6. Descend(s(KPD[ix.pdpt]), ix.pd) = s(Block(virt) * E)
  <2> DEFINE t == KPD[ix.pdpt]
             b == Block(virt)
  <2>1. m[t][ix.pd] = HugeTo(b)
    BY <1>1, <1>2 DEF IdentityTables
  <2>2. FrameOf(HugeTo(b)) = b * E /\ is_present(HugeTo(b))
    BY <1>3, EntryPoints DEF HugeTo, is_present
  <2> HIDE DEF t, b
  <2>3. Descend(s(t), ix.pd) = s(b * E)
    BY <2>1, <2>2, DescendFollows
  <2> QED
    BY <2>3 DEF t, b
<1> DEFINE d == Descend(Descend(Descend(s(KPML4), ix.pml4), ix.pdpt), ix.pd)
           e == PageTableEntry(phys, flags \cup {"PRESENT"})
<1>7. map_page(m, f, virt, phys, flags) =
        IF d.ok THEN [d EXCEPT !.mem[d.table][ix.pt] = e] ELSE d
  BY DEF map_page, PageEntry, ix, Reached
<1>8. d = s(Block(virt) * E)
  BY <1>4, <1>5, <1>6, Zenon
<1> HIDE DEF d, e
<1>9. map_page(m, f, virt, phys, flags) =
        [ok |-> TRUE, fa |-> f, table |-> Block(virt) * E,
         mem |-> Written(m, Block(virt) * E, ix.pt, e)]
  BY <1>7, <1>8 DEF Written, Reached
<1> QED
  BY <1>9 DEF ix, e

\* A write changes one word.
LEMMA WriteWord ==
  ASSUME NEW mem, MemoryShape(mem), NEW f \in Pages, NEW i \in Index, NEW e
  PROVE  LET m == Written(mem, f, i, e)
         IN  /\ MemoryShape(m)
             /\ m[f][i] = e
             /\ \A g \in Pages, j \in Index : g # f \/ j # i => m[g][j] = mem[g][j]
<1> DEFINE m == Written(mem, f, i, e)
<1>1. DOMAIN mem = Pages /\ \A g \in Pages : mem[g] = [j \in Index |-> mem[g][j]]
  BY DEF MemoryShape
<1>2. DOMAIN m = Pages /\ m = [g \in Pages |-> m[g]]
  BY <1>1 DEF Written
<1>3. m[f] = [mem[f] EXCEPT ![i] = e] /\ \A g \in Pages : g # f => m[g] = mem[g]
  BY <1>1 DEF Written
<1> HIDE DEF m
<1>4. m[f] = [j \in Index |-> m[f][j]]
  BY <1>1, <1>3
<1>5. \A g \in Pages : m[g] = [j \in Index |-> m[g][j]]
  BY <1>1, <1>3, <1>4
<1>6. MemoryShape(m)
  BY <1>2, <1>5 DEF MemoryShape
<1>7. m[f][i] = e /\ \A j \in Index : j # i => m[f][j] = mem[f][j]
  BY <1>1, <1>3
<1>8. \A g \in Pages, j \in Index : g # f \/ j # i => m[g][j] = mem[g][j]
  BY <1>3, <1>7
<1> QED
  BY <1>6, <1>7, <1>8 DEF m

\* A write outside the kernel's tables leaves the identity mapping.
LEMMA WriteKeepsIdentity ==
  ASSUME NEW mem, MemoryShape(mem), IdentityTables(mem),
         NEW f \in Pages \ KernelTables, NEW i \in Index, NEW e
  PROVE  IdentityTables(Written(mem, f, i, e))
<1> DEFINE m == Written(mem, f, i, e)
<1>1. \A g \in Pages, j \in Index : g # f \/ j # i => m[g][j] = mem[g][j]
  BY WriteWord
<1> HIDE DEF m
<1>2. /\ KPML4 \in Pages /\ KPDPT \in Pages /\ \A j \in 0 .. G - 1 : KPD[j] \in Pages
      /\ KPML4 # f /\ KPDPT # f /\ \A j \in 0 .. G - 1 : KPD[j] # f
  BY KernelTablesAssumption DEF KernelTables
<1>3. 0 \in Index /\ E - 1 \in Index /\ \A j \in 0 .. G - 1 : j \in Index
  BY TableSizeAssumption, IdentityAssumption DEF Index
<1>4. m[KPML4][0] = mem[KPML4][0] /\ m[KPML4][E - 1] = mem[KPML4][E - 1]
  BY <1>1, <1>2, <1>3
<1>5. \A j \in 0 .. G - 1 : /\ m[KPDPT][j] = mem[KPDPT][j]
                            /\ \A n \in Index : m[KPD[j]][n] = mem[KPD[j]][n]
  BY <1>1, <1>2, <1>3
<1>6. IdentityTables(m)
  BY <1>4, <1>5 DEF IdentityTables
<1> QED
  BY <1>6 DEF m
=============================================================================
