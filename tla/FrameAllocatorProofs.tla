------------------------ MODULE FrameAllocatorProofs ------------------------
(***************************************************************************)
(* Proofs about FrameAllocator, for every number of pages, page size,      *)
(* memory map, address and count.                                          *)
(***************************************************************************)
EXTENDS FrameAllocator, FramesProofs

----------------------------------------------------------------------------
(* The invariant of Spec, where callers pass what they like.               *)

\* By how much the counter exceeds the number of clear bits.
Extra == IF boot = "nomap" THEN MAX_PAGES ELSE 0

\* The inductive invariant: the static initial value until init runs, a
\* well-formed allocator from then on.
IInv ==
  /\ TypeOK
  /\ boot = "new" => fa = new
  /\ boot # "new" => WellFormed(fa, Extra)

\* The inductive invariant is what the runs check, and nothing was done to
\* the allocator before init.
LEMMA IInvImplies ==
  ASSUME IInv
  PROVE  TypeOK /\ CountMatchesBitmap /\ SearchCoversFree
<1>1. CASE boot = "new"
  <2>1. fa.first_free = 0 /\ fa.total_pages = 0
    BY <1>1 DEF IInv, new
  <2> QED
    BY <1>1, <2>1 DEF IInv, CountMatchesBitmap, SearchCoversFree
<1>2. CASE boot # "new"
  BY <1>2 DEF IInv, WellFormed, Extra, CountMatchesBitmap, SearchCoversFree
<1> QED
  BY <1>1, <1>2

\* What the four calls do, whether init ran or not.
LEMMA AllocFrameStep ==
  ASSUME IInv, AllocFrame
  PROVE  \/ /\ Allocatable(fa) = {}
            /\ UNCHANGED <<fa, boot, held>> /\ answer' = <<"one", None>>
         \/ \E s \in FreePages(fa) :
              /\ boot # "new" /\ boot' = boot
              /\ WellFormed(fa', Extra)
              /\ FreePages(fa') = FreePages(fa) \ {s}
              /\ fa'.total_pages = fa.total_pages
              /\ fa'.first_free = s + 1
              /\ held' = held \cup {s}
              /\ answer' = <<"one", s * PAGE_SIZE>>
              /\ FreePages(fa) \cap (0 .. fa.first_free - 1) = {}
                   => FreePages(fa) \cap (0 .. s - 1) = {}
<1>1. CASE boot = "new"
  <2>1. alloc(fa) = [fa |-> fa, ret |-> None]
    BY <1>1, NewIsInert DEF IInv
  <2>2. Allocatable(fa) = {}
    BY <1>1 DEF IInv, Allocatable, FreePages, Pages, new
  <2> QED
    BY <2>1, <2>2 DEF AllocFrame, Granted
<1>2. CASE boot # "new"
  <2>1. WellFormed(fa, Extra) /\ Extra \in Nat
    BY <1>2, MaxPagesAssumption DEF IInv, Extra
  <2>2. CASE FreePages(fa) = {} /\ alloc(fa) = [fa |-> fa, ret |-> None]
    BY <2>2 DEF AllocFrame, Granted, Allocatable
  <2>3. CASE \E s \in FreePages(fa) :
               /\ alloc(fa) = TakeRun(fa, s, 1)
               /\ FreePages(fa) \cap (0 .. fa.first_free - 1) = {}
                    => FreePages(fa) \cap (0 .. s - 1) = {}
    <3>1. PICK s \in FreePages(fa) :
               /\ alloc(fa) = TakeRun(fa, s, 1)
               /\ FreePages(fa) \cap (0 .. fa.first_free - 1) = {}
                    => FreePages(fa) \cap (0 .. s - 1) = {}
      BY <2>3
    <3> DEFINE r == TakeRun(fa, s, 1)
    <3>2. s \in Nat /\ s .. s + 1 - 1 = {s}
      BY DEF FreePages, Pages
    <3>3. /\ WellFormed(r.fa, Extra)
          /\ FreePages(r.fa) = FreePages(fa) \ (s .. s + 1 - 1)
          /\ r.fa.total_pages = fa.total_pages
          /\ r.fa.first_free = s + 1
          /\ r.ret = s * PAGE_SIZE
      <4>1. PICK k \in Nat \ {0} : k = 1
        OBVIOUS
      <4>2. s .. s + k - 1 \subseteq FreePages(fa)
        BY <3>2, <4>1
      <4>3. /\ WellFormed(TakeRun(fa, s, k).fa, Extra)
            /\ FreePages(TakeRun(fa, s, k).fa)
                 = FreePages(fa) \ (s .. s + k - 1)
            /\ TakeRun(fa, s, k).fa.total_pages = fa.total_pages
            /\ TakeRun(fa, s, k).fa.first_free = s + k
            /\ TakeRun(fa, s, k).ret = s * PAGE_SIZE
        BY <2>1, <3>2, <4>2, TakeRunKeepsShape
      <4> QED
        BY <4>1, <4>3
    <3>4. fa' = r.fa /\ answer' = <<"one", r.ret>> /\ boot' = boot
          /\ held' = held \cup Granted(r, 1)
      BY <3>1 DEF AllocFrame
    <3> HIDE DEF r
    <3>5. Granted(r, 1) = {s}
      <4>1. r.ret # None /\ r.ret \div PAGE_SIZE = s
        BY <3>2, <3>3, PageOfPageAddress, NoneAssumption
      <4> QED
        BY <3>2, <4>1 DEF Granted, RunAt
    <3> QED
      BY <1>2, <3>1, <3>2, <3>3, <3>4, <3>5
  <2> QED
    BY <2>1, <2>2, <2>3, AllocTakesOne
<1> QED
  BY <1>1, <1>2

\* alloc_frames keeps the inductive invariant, whether or not it finds a run.
LEMMA AllocFramesStep ==
  ASSUME IInv, NEW n \in Counts, AllocFrames(n)
  PROVE  \/ UNCHANGED <<fa, boot, held>> /\ answer' = <<"run", None>>
         \/ \E s \in Nat :
              /\ boot # "new" /\ boot' = boot /\ n \in Nat \ {0}
              /\ s .. s + n - 1 \subseteq FreePages(fa)
              /\ WellFormed(fa', Extra)
              /\ FreePages(fa') = FreePages(fa) \ (s .. s + n - 1)
              /\ fa'.total_pages = fa.total_pages
              /\ held' = held \cup (s .. s + n - 1)
              /\ answer' = <<"run", s * PAGE_SIZE>>
<1>0. n \in Nat
  BY CountsAssumption
<1>1. CASE boot = "new"
  <2>1. alloc_contiguous(fa, n) = [fa |-> fa, ret |-> None]
    BY <1>0, <1>1, NewIsInert DEF IInv
  <2> QED
    BY <2>1 DEF AllocFrames, Granted
<1>2. CASE boot # "new"
  <2>1. WellFormed(fa, Extra) /\ Extra \in Nat
    BY <1>2, MaxPagesAssumption DEF IInv, Extra
  <2>2. CASE alloc_contiguous(fa, n) = [fa |-> fa, ret |-> None]
    BY <2>2 DEF AllocFrames, Granted
  <2>3. CASE /\ n # 0
             /\ \E s \in Nat : /\ s .. s + n - 1 \subseteq FreePages(fa)
                               /\ alloc_contiguous(fa, n) = TakeRun(fa, s, n)
    <3>1. PICK s \in Nat : /\ s .. s + n - 1 \subseteq FreePages(fa)
                           /\ alloc_contiguous(fa, n) = TakeRun(fa, s, n)
      BY <2>3
    <3> DEFINE r == TakeRun(fa, s, n)
    <3>2. n \in Nat \ {0}
      BY <1>0, <2>3
    <3>3. /\ WellFormed(r.fa, Extra)
          /\ FreePages(r.fa) = FreePages(fa) \ (s .. s + n - 1)
          /\ r.fa.total_pages = fa.total_pages
          /\ r.ret = s * PAGE_SIZE
      BY <2>1, <3>1, <3>2, TakeRunKeepsShape
    <3>4. fa' = r.fa /\ answer' = <<"run", r.ret>> /\ boot' = boot
          /\ held' = held \cup Granted(r, n)
      BY <3>1 DEF AllocFrames
    <3> HIDE DEF r
    <3>5. Granted(r, n) = s .. s + n - 1
      <4>1. r.ret # None /\ r.ret \div PAGE_SIZE = s
        BY <3>3, PageOfPageAddress, NoneAssumption
      <4> QED
        BY <4>1 DEF Granted, RunAt
    <3> QED
      BY <1>2, <3>1, <3>2, <3>3, <3>4, <3>5
  <2> QED
    BY <1>0, <2>1, <2>2, <2>3, AllocContiguousTakesRun
<1> QED
  BY <1>1, <1>2

\* free_frame keeps the inductive invariant, whatever address is passed.
LEMMA FreeFrameStep ==
  ASSUME IInv, NEW addr \in Addresses, FreeFrame(addr)
  PROVE  /\ boot = "new" => fa' = new
         /\ boot # "new" =>
              /\ WellFormed(fa', Extra)
              /\ FreePages(fa') = FreePages(fa) \cup (RunAt(addr, 1) \cap Pages)
              /\ FreePages(fa) \cap (0 .. fa.first_free - 1) = {}
                   => FreePages(fa') \cap (0 .. fa'.first_free - 1) = {}
         /\ held' = held \ RunAt(addr, 1)
         /\ UNCHANGED <<boot, answer>>
<1>1. /\ addr \in Nat
      /\ fa' = free(fa, addr)
      /\ held' = held \ RunAt(addr, 1)
      /\ UNCHANGED <<boot, answer>>
  BY AddressesAssumption DEF FreeFrame
<1>2. ASSUME boot = "new" PROVE fa' = new
  BY <1>1, <1>2, NewIsInert DEF IInv
<1>3. ASSUME boot # "new"
      PROVE  /\ WellFormed(fa', Extra)
             /\ FreePages(fa') = FreePages(fa) \cup (RunAt(addr, 1) \cap Pages)
             /\ FreePages(fa) \cap (0 .. fa.first_free - 1) = {}
                  => FreePages(fa') \cap (0 .. fa'.first_free - 1) = {}
  <2>1. WellFormed(fa, Extra) /\ Extra \in Nat
    BY <1>3, MaxPagesAssumption DEF IInv, Extra
  <2>2. RunAt(addr, 1) = {addr \div PAGE_SIZE}
    BY <1>1, PageOfAddress DEF RunAt
  <2> QED
    BY <1>1, <2>1, <2>2, FreeClearsOne
<1> QED
  BY <1>1, <1>2, <1>3

\* free_frames keeps the inductive invariant, whatever address and count are
\* passed.
LEMMA FreeFramesStep ==
  ASSUME IInv, NEW addr \in Addresses, NEW n \in Counts, FreeFrames(addr, n)
  PROVE  /\ boot = "new" => fa' = new
         /\ boot # "new" =>
              /\ WellFormed(fa', Extra)
              /\ FreePages(fa') = FreePages(fa) \cup (RunAt(addr, n) \cap Pages)
              /\ FreePages(fa) \cap (0 .. fa.first_free - 1) = {}
                   => FreePages(fa') \cap (0 .. fa'.first_free - 1) = {}
         /\ held' = held \ RunAt(addr, n)
         /\ UNCHANGED <<boot, answer>>
<1>1. /\ addr \in Nat /\ n \in Nat
      /\ fa' = free_contiguous(fa, addr, n)
      /\ held' = held \ RunAt(addr, n)
      /\ UNCHANGED <<boot, answer>>
  BY AddressesAssumption, CountsAssumption DEF FreeFrames
<1>2. ASSUME boot = "new" PROVE fa' = new
  BY <1>1, <1>2, NewIsInert DEF IInv
<1>3. ASSUME boot # "new"
      PROVE  /\ WellFormed(fa', Extra)
             /\ FreePages(fa') = FreePages(fa) \cup (RunAt(addr, n) \cap Pages)
             /\ FreePages(fa) \cap (0 .. fa.first_free - 1) = {}
                  => FreePages(fa') \cap (0 .. fa'.first_free - 1) = {}
  <2> DEFINE page == addr \div PAGE_SIZE
             S == page .. page + n - 1
             g == [mark_free_all(fa, S)
                     EXCEPT !.first_free = IF page < @ THEN page ELSE @]
  <2>1. WellFormed(fa, Extra) /\ Extra \in Nat
    BY <1>3, MaxPagesAssumption DEF IInv, Extra
  <2>2. page \in Nat
    BY <1>1, PageOfAddress
  <2>3. fa' = g
    BY <1>1 DEF free_contiguous
  <2>4. RunAt(addr, n) = S
    BY DEF RunAt
  <2> HIDE DEF page, S
  <2>5. /\ WellFormed(g, Extra)
        /\ FreePages(g) = FreePages(fa) \cup (S \cap Pages)
    BY <2>1, <2>2, FreeAllKeepsShape
  <2>6. /\ \A p \in S : p \in Int /\ page <= p
        /\ fa.first_free \in Nat
    BY <2>1, <2>2, MaxPagesAssumption DEF S, WellFormed, FrameAllocatorType
  <2>7. g.first_free = IF page < fa.first_free THEN page ELSE fa.first_free
    BY <2>1 DEF mark_free_all, WellFormed, FrameAllocatorType
  <2> HIDE DEF g
  <2>8. ASSUME FreePages(fa) \cap (0 .. fa.first_free - 1) = {}
        PROVE  FreePages(g) \cap (0 .. g.first_free - 1) = {}
    <3>1. \A p \in 0 .. g.first_free - 1 : p \in 0 .. fa.first_free - 1 /\ p \notin S
      BY <2>2, <2>6, <2>7
    <3> QED
      BY <2>5, <2>8, <3>1
  <2> QED
    BY <2>3, <2>4, <2>5, <2>8
<1> QED
  BY <1>1, <1>2, <1>3

\* phys::init establishes the invariant of a booted allocator, for every
\* memory map.
LEMMA BootStep ==
  ASSUME IInv, NEW map, Boot(map)
  PROVE  /\ boot = "new" /\ fa = new
         /\ boot' \in {"map", "nomap"}
         /\ WellFormed(fa', Extra')
         /\ fa'.first_free = 0
         /\ boot' = "nomap" => /\ FreePages(fa') = {}
                               /\ fa'.total_pages = MAX_PAGES
         /\ UNCHANGED <<held, answer>>
<1>1. /\ boot = "new" /\ fa = new
      /\ fa' = init(new, map)
      /\ boot' = IF map = << >> THEN "nomap" ELSE "map"
      /\ UNCHANGED <<held, answer>>
  BY DEF IInv, Boot
<1>2. Extra' = IF map = << >> THEN MAX_PAGES ELSE 0
  BY <1>1 DEF Extra
<1> QED
  BY <1>1, <1>2, InitFillsBitmap

\* The shape gives the types.
LEMMA WellFormedType ==
  ASSUME NEW f, NEW extra, WellFormed(f, extra)
  PROVE  f \in FrameAllocatorType /\ FreePages(f) \subseteq Pages
BY DEF WellFormed, FreePages

\* IInv is inductive: it holds when the kernel starts, and every call keeps
\* it, whatever its arguments.
LEMMA IInvInitially == Init => IInv
<1> SUFFICES ASSUME Init PROVE IInv
  OBVIOUS
<1> QED
  BY NewIsInert DEF Init, IInv, TypeOK

\* Every step, of any caller, keeps the inductive invariant.
LEMMA IInvKept ==
  ASSUME IInv, [Next]_vars
  PROVE  IInv'
<1>0. TypeOK
  BY DEF IInv
<1>b. singly' \in BOOLEAN /\ tidy' \in BOOLEAN
  BY <1>0 DEF TypeOK, Next, Boot, AllocFrame, AllocFrames, FreeFrame, FreeFrames,
              vars
<1>1. ASSUME NEW map \in MemoryMaps, Boot(map) PROVE IInv'
  <2>1. /\ boot' \in {"map", "nomap"} /\ WellFormed(fa', Extra')
        /\ UNCHANGED <<held, answer>>
    BY <1>1, BootStep
  <2>2. fa' \in FrameAllocatorType
    BY <2>1, WellFormedType
  <2> QED
    BY <1>0, <1>b, <2>1, <2>2 DEF IInv, TypeOK
<1>2. ASSUME AllocFrame PROVE IInv'
  <2>1. CASE UNCHANGED <<fa, boot, held>> /\ answer' = <<"one", None>>
    BY <1>0, <1>b, <2>1 DEF IInv, TypeOK, WellFormed, FreePages, Extra, Pages,
                      FrameAllocatorType
  <2>2. CASE \E s \in FreePages(fa) :
              /\ boot # "new" /\ boot' = boot
              /\ WellFormed(fa', Extra)
              /\ held' = held \cup {s}
              /\ answer' = <<"one", s * PAGE_SIZE>>
    <3>1. PICK s \in FreePages(fa) :
              /\ boot # "new" /\ boot' = boot
              /\ WellFormed(fa', Extra)
              /\ held' = held \cup {s}
              /\ answer' = <<"one", s * PAGE_SIZE>>
      BY <2>2
    <3>2. s \in Pages /\ s \in Nat
      BY DEF FreePages, Pages
    <3>3. s * PAGE_SIZE \in Nat
      BY <3>2, PageOfPageAddress
    <3>4. fa' \in FrameAllocatorType /\ Extra' = Extra
      BY <3>1, WellFormedType DEF Extra
    <3> QED
      BY <1>0, <1>b, <3>1, <3>2, <3>3, <3>4 DEF IInv, TypeOK
  <2> QED
    BY <1>2, <2>1, <2>2, AllocFrameStep
<1>3. ASSUME NEW n \in Counts, AllocFrames(n) PROVE IInv'
  <2>1. CASE UNCHANGED <<fa, boot, held>> /\ answer' = <<"run", None>>
    BY <1>0, <1>b, <2>1 DEF IInv, TypeOK, WellFormed, FreePages, Extra, Pages,
                      FrameAllocatorType
  <2>2. CASE \E s \in Nat :
              /\ boot # "new" /\ boot' = boot
              /\ s .. s + n - 1 \subseteq FreePages(fa)
              /\ WellFormed(fa', Extra)
              /\ held' = held \cup (s .. s + n - 1)
              /\ answer' = <<"run", s * PAGE_SIZE>>
    <3>1. PICK s \in Nat :
              /\ boot # "new" /\ boot' = boot
              /\ s .. s + n - 1 \subseteq FreePages(fa)
              /\ WellFormed(fa', Extra)
              /\ held' = held \cup (s .. s + n - 1)
              /\ answer' = <<"run", s * PAGE_SIZE>>
      BY <2>2
    <3>2. s .. s + n - 1 \subseteq Pages
      BY <3>1 DEF FreePages
    <3>3. s * PAGE_SIZE \in Nat
      BY PageOfPageAddress
    <3>4. fa' \in FrameAllocatorType /\ Extra' = Extra
      BY <3>1, WellFormedType DEF Extra
    <3> QED
      BY <1>0, <1>b, <3>1, <3>2, <3>3, <3>4 DEF IInv, TypeOK
  <2> QED
    BY <1>3, <2>1, <2>2, AllocFramesStep
<1>4. ASSUME boot' = boot, answer' = answer, held' \in SUBSET held,
             boot = "new" => fa' = new,
             boot # "new" => WellFormed(fa', Extra)
      PROVE  IInv'
  <2>1. fa' \in FrameAllocatorType
    BY <1>4, WellFormedType, NewIsInert
  <2>2. Extra' = Extra
    BY <1>4 DEF Extra
  <2> QED
    BY <1>0, <1>b, <1>4, <2>1, <2>2 DEF IInv, TypeOK
<1>5. ASSUME NEW addr \in Addresses, FreeFrame(addr) PROVE IInv'
  BY <1>4, <1>5, FreeFrameStep
<1>6. ASSUME NEW addr \in Addresses, NEW n \in Counts, FreeFrames(addr, n)
      PROVE  IInv'
  BY <1>4, <1>6, FreeFramesStep
<1>7. CASE UNCHANGED vars
  <2>1. fa' = fa /\ boot' = boot /\ held' = held /\ answer' = answer
    BY <1>7 DEF vars
  <2> QED
    BY <1>4, <2>1 DEF IInv
<1> QED
  BY <1>1, <1>2, <1>3, <1>5, <1>6, <1>7 DEF Next

\* The inductive invariant always holds.
LEMMA IInvAlways == Spec => []IInv
<1>1. IInv /\ [Next]_vars => IInv'
  BY IInvKept
<1> QED
  BY <1>1, IInvInitially, PTL DEF Spec

\* The allocator keeps its types under any calls: the hint and the high-water
\* mark stay within the bitmap and the free counter never underflows.
THEOREM TypeCorrect == Spec => []TypeOK
<1>1. IInv => TypeOK
  BY IInvImplies
<1> QED
  BY <1>1, IInvAlways, PTL

\* The free counter that phys::stats reports is exact under any calls.
THEOREM CountCorrect == Spec => []CountMatchesBitmap
<1>1. IInv => CountMatchesBitmap
  BY IInvImplies
<1> QED
  BY <1>1, IInvAlways, PTL

\* The two passes of alloc always cover every free page.
THEOREM SearchCorrect == Spec => []SearchCoversFree
<1>1. IInv => SearchCoversFree
  BY IInvImplies
<1> QED
  BY <1>1, IInvAlways, PTL

\* alloc finds a page whenever the counter says there is one.
THEOREM AllocCorrect == Spec => []AllocSucceedsWhileFree
<1>1. ASSUME IInv, boot = "map", fa.free_pages > 0
      PROVE  alloc(fa).ret # None
  <2>1. WellFormed(fa, 0)
    BY <1>1 DEF IInv, Extra
  <2>2. FreePages(fa) # {}
    <3>1. fa.free_pages = Cardinality(FreePages(fa)) + 0
      BY <2>1 DEF WellFormed
    <3>2. Cardinality({}) = 0
      BY FS_EmptySet
    <3> QED
      BY <1>1, <3>1, <3>2
  <2>3. PICK s \in FreePages(fa) : alloc(fa) = TakeRun(fa, s, 1)
    BY <2>1, <2>2, AllocTakesOne
  <2>4. s \in Nat
    BY DEF FreePages, Pages
  <2>5. alloc(fa).ret = s * PAGE_SIZE
    BY <2>3 DEF TakeRun
  <2> QED
    BY <2>4, <2>5, PageOfPageAddress, NoneAssumption
<1>2. IInv => AllocSucceedsWhileFree
  BY <1>1 DEF AllocSucceedsWhileFree
<1> QED
  BY <1>2, IInvAlways, PTL

----------------------------------------------------------------------------
(* Callers that allocate single frames only.                               *)

\* No free page below the hint, in the form the lemmas use.
HintInv == boot # "new" /\ singly => FreePages(fa) \cap (0 .. fa.first_free - 1) = {}

\* The comment in free is right about the kernel as it is today, which never
\* allocates runs: alloc does not need its second pass.
THEOREM HintCorrect == Spec => []NoFreeBelowHint
<1>1. Init => IInv /\ HintInv
  BY IInvInitially DEF Init, HintInv
<1>2. ASSUME IInv, HintInv, [Next]_vars
      PROVE  IInv' /\ HintInv'
  <2>1. IInv'
    BY <1>2, IInvKept
  <2>2. ASSUME NEW map \in MemoryMaps, Boot(map) PROVE HintInv'
    <3>1. fa'.first_free = 0
      BY <1>2, <2>2, BootStep
    <3> QED
      BY <3>1 DEF HintInv
  <2>3. ASSUME AllocFrame PROVE HintInv'
    <3>0. singly' = singly
      BY <2>3 DEF AllocFrame
    <3>1. CASE UNCHANGED <<fa, boot, held>>
      BY <1>2, <3>0, <3>1 DEF HintInv, FreePages
    <3>2. CASE \E s \in FreePages(fa) :
                 /\ boot # "new"
                 /\ FreePages(fa') = FreePages(fa) \ {s}
                 /\ fa'.first_free = s + 1
                 /\ FreePages(fa) \cap (0 .. fa.first_free - 1) = {}
                      => FreePages(fa) \cap (0 .. s - 1) = {}
      <4>1. PICK s \in FreePages(fa) :
                 /\ boot # "new"
                 /\ FreePages(fa') = FreePages(fa) \ {s}
                 /\ fa'.first_free = s + 1
                 /\ FreePages(fa) \cap (0 .. fa.first_free - 1) = {}
                      => FreePages(fa) \cap (0 .. s - 1) = {}
        BY <3>2
      <4> SUFFICES ASSUME singly
                   PROVE  FreePages(fa') \cap (0 .. fa'.first_free - 1) = {}
        BY <3>0 DEF HintInv
      <4>2. FreePages(fa) \cap (0 .. s - 1) = {}
        BY <1>2, <4>1 DEF HintInv
      <4>3. s \in Nat
        BY DEF FreePages, Pages
      <4>4. 0 .. (s + 1) - 1 = (0 .. s - 1) \cup {s}
        BY <4>3
      <4> QED
        BY <4>1, <4>2, <4>4
    <3> QED
      BY <1>2, <2>3, <3>1, <3>2, AllocFrameStep
  <2>4. ASSUME NEW addr \in Addresses, FreeFrame(addr) PROVE HintInv'
    <3>1. singly' = singly
      BY <2>4 DEF FreeFrame
    <3> QED
      BY <1>2, <2>4, <3>1, FreeFrameStep DEF HintInv
  <2>5. ASSUME NEW addr \in Addresses, NEW n \in Counts, FreeFrames(addr, n)
        PROVE  HintInv'
    <3>1. singly' = singly
      BY <2>5 DEF FreeFrames
    <3> QED
      BY <1>2, <2>5, <3>1, FreeFramesStep DEF HintInv
  <2>6. ASSUME NEW n \in Counts, AllocFrames(n) PROVE HintInv'
    BY <2>6 DEF AllocFrames, HintInv
  <2>7. CASE UNCHANGED vars
    BY <1>2, <2>1, <2>7 DEF HintInv, vars, FreePages
  <2>8. ASSUME Next PROVE HintInv'
    BY <2>2, <2>3, <2>4, <2>5, <2>6, <2>8 DEF Next
  <2> QED
    BY <1>2, <2>1, <2>7, <2>8
<1>3. ASSUME IInv, HintInv PROVE NoFreeBelowHint
  <2> SUFFICES ASSUME singly, boot # "new", NEW p \in Pages, p < fa.first_free
               PROVE  fa.bitmap[p]
    BY DEF NoFreeBelowHint
  <2>1. FreePages(fa) \cap (0 .. fa.first_free - 1) = {}
    BY <1>3 DEF HintInv
  <2>2. fa.first_free \in Nat
    BY <1>3, MaxPagesAssumption DEF IInv, TypeOK, FrameAllocatorType
  <2>3. p \in 0 .. fa.first_free - 1
    BY <2>2 DEF Pages
  <2> QED
    BY <2>1, <2>3 DEF FreePages
<1> QED
  BY <1>1, <1>2, <1>3, PTL DEF Spec

----------------------------------------------------------------------------
(* As long as callers give back only what they hold.                       *)

\* No held page is free; and without a memory map nothing is ever handed out.
Apart ==
  /\ boot = "new" => held = {}
  /\ boot # "new" => held \cap FreePages(fa) = {}
  /\ boot = "nomap" => /\ held = {}
                       /\ FreePages(fa) = {}
                       /\ fa.total_pages = MAX_PAGES

HeldInv == tidy => Apart

\* Allocatable pages are the free pages once init ran, none before.
LEMMA AllocatableIsFree ==
  ASSUME IInv
  PROVE  Allocatable(fa) = IF boot = "new" THEN {} ELSE FreePages(fa)
<1>1. CASE boot = "new"
  BY <1>1 DEF IInv, Allocatable, FreePages, Pages, new
<1>2. CASE boot # "new"
  <2>1. FreePages(fa) \subseteq 0 .. fa.total_pages - 1
        /\ fa.total_pages \in Nat
    BY <1>2, MaxPagesAssumption
       DEF IInv, WellFormed, TypeOK, FrameAllocatorType
  <2> QED
    BY <1>2, <2>1 DEF Allocatable
<1> QED
  BY <1>1, <1>2

\* Every step after which callers still gave back only what they held keeps
\* held and free pages apart.
LEMMA ApartKept ==
  ASSUME IInv, Apart, tidy', [Next]_vars
  PROVE  Apart'
<1>1. ASSUME NEW map \in MemoryMaps, Boot(map) PROVE Apart'
  BY <1>1, BootStep DEF Apart
<1>2. ASSUME AllocFrame PROVE Apart'
  <2>1. CASE UNCHANGED <<fa, boot, held>>
    BY <2>1 DEF Apart, FreePages
  <2>2. CASE \E s \in FreePages(fa) :
               /\ boot # "new" /\ boot' = boot
               /\ FreePages(fa') = FreePages(fa) \ {s}
               /\ fa'.total_pages = fa.total_pages
               /\ held' = held \cup {s}
    BY <2>2 DEF Apart
  <2> QED
    BY <1>2, <2>1, <2>2, AllocFrameStep
<1>3. ASSUME NEW n \in Counts, AllocFrames(n) PROVE Apart'
  <2>1. CASE UNCHANGED <<fa, boot, held>>
    BY <2>1 DEF Apart, FreePages
  <2>2. CASE \E s \in Nat :
               /\ boot # "new" /\ boot' = boot /\ n \in Nat \ {0}
               /\ s .. s + n - 1 \subseteq FreePages(fa)
               /\ FreePages(fa') = FreePages(fa) \ (s .. s + n - 1)
               /\ fa'.total_pages = fa.total_pages
               /\ held' = held \cup (s .. s + n - 1)
    <3>1. PICK s \in Nat :
               /\ boot # "new" /\ boot' = boot /\ n \in Nat \ {0}
               /\ s .. s + n - 1 \subseteq FreePages(fa)
               /\ FreePages(fa') = FreePages(fa) \ (s .. s + n - 1)
               /\ fa'.total_pages = fa.total_pages
               /\ held' = held \cup (s .. s + n - 1)
      BY <2>2
    <3>2. s \in s .. s + n - 1
      BY <3>1
    <3>3. boot # "nomap"
      BY <3>1, <3>2 DEF Apart
    <3> QED
      BY <3>1, <3>3 DEF Apart
  <2> QED
    BY <1>3, <2>1, <2>2, AllocFramesStep
<1>4. ASSUME NEW S, S \subseteq held, held' = held \ S, boot' = boot,
             boot # "new" => FreePages(fa') = FreePages(fa) \cup (S \cap Pages),
             boot = "nomap" => fa'.total_pages = MAX_PAGES
      PROVE  Apart'
  BY <1>4 DEF Apart
<1>5. /\ \A addr \in Addresses : FreeFrame(addr) => RunAt(addr, 1) \subseteq held
      /\ \A addr \in Addresses, n \in Counts :
           FreeFrames(addr, n) => RunAt(addr, n) \subseteq held
  BY DEF FreeFrame, FreeFrames
<1>6. ASSUME NEW addr \in Addresses, FreeFrame(addr)
      PROVE  Apart'
  <2>0. RunAt(addr, 1) \subseteq held
    BY <1>5, <1>6
  <2>1. boot = "nomap" => RunAt(addr, 1) = {}
    BY <2>0 DEF Apart
  <2>2. addr \div PAGE_SIZE \in RunAt(addr, 1)
    BY PageOfAddress, AddressesAssumption DEF RunAt
  <2> QED
    BY <1>4, <1>6, <2>0, <2>1, <2>2, FreeFrameStep
<1>7. ASSUME NEW addr \in Addresses, NEW n \in Counts, FreeFrames(addr, n)
      PROVE  Apart'
  <2>0. RunAt(addr, n) \subseteq held
    BY <1>5, <1>7
  <2>1. ASSUME boot = "nomap" PROVE fa'.total_pages = MAX_PAGES
    <3> DEFINE S == RunAt(addr, n)
               page == addr \div PAGE_SIZE
               m == mark_free_all(fa, S)
    <3>1. S = {} /\ fa.total_pages = MAX_PAGES
      BY <2>0, <2>1 DEF Apart
    <3>2. fa \in FrameAllocatorType
      BY DEF IInv, TypeOK
    <3> HIDE DEF S
    <3>3. m = fa
      BY <3>1, <3>2, MarkFreeNothing
    <3>4. fa' = [m EXCEPT !.first_free = IF page < @ THEN page ELSE @]
      BY <1>7 DEF FreeFrames, free_contiguous, S, RunAt
    <3> HIDE DEF m, page
    <3>5. fa' = [fa EXCEPT !.first_free = IF page < @ THEN page ELSE @]
      BY <3>3, <3>4
    <3> QED
      BY <3>1, <3>2, <3>5 DEF FrameAllocatorType
  <2> QED
    BY <1>4, <1>7, <2>0, <2>1, FreeFramesStep
<1>8. CASE UNCHANGED vars
  BY <1>8 DEF Apart, vars, FreePages
<1>9. ASSUME Next PROVE Apart'
  BY <1>1, <1>2, <1>3, <1>6, <1>7, <1>9 DEF Next
<1> QED
  BY <1>8, <1>9

\* A misuse is never forgotten.
LEMMA TidyStays ==
  ASSUME IInv, [Next]_vars, tidy'
  PROVE  tidy
<1>1. TypeOK
  BY DEF IInv
<1> QED
  BY <1>1 DEF TypeOK, Next, Boot, AllocFrame, AllocFrames, FreeFrame, FreeFrames, vars

\* Held pages are never free, as long as callers free what they hold.
LEMMA HeldInvAlways == Spec => [](IInv /\ HeldInv)
<1>1. Init => IInv /\ HeldInv
  BY IInvInitially DEF Init, HeldInv, Apart
<1>2. ASSUME IInv, HeldInv, [Next]_vars PROVE IInv' /\ HeldInv'
  <2>1. IInv'
    BY <1>2, IInvKept
  <2>2. ASSUME tidy' PROVE Apart'
    BY <1>2, <2>2, TidyStays, ApartKept DEF HeldInv
  <2> QED
    BY <2>1, <2>2 DEF HeldInv
<1> QED
  BY <1>1, <1>2, PTL DEF Spec

\* phys::stats never reports a wrapped-around number of used pages.
THEOREM UsedCorrect == Spec => []UsedDoesNotUnderflow
<1>1. ASSUME IInv, HeldInv, tidy PROVE stats(fa)[2] >= 0
  <2>1. fa.free_pages \in Nat /\ fa.total_pages \in Nat
    BY <1>1, MaxPagesAssumption DEF IInv, TypeOK, FrameAllocatorType
  <2>2. fa.free_pages <= fa.total_pages
    <3>1. CASE boot = "new"
      BY <1>1, <3>1 DEF IInv, new
    <3>2. CASE boot = "map"
      <4>1. /\ fa.free_pages = Cardinality(FreePages(fa)) + 0
            /\ FreePages(fa) \in SUBSET (0 .. fa.total_pages - 1)
            /\ fa \in FrameAllocatorType
        BY <1>1, <3>2 DEF IInv, WellFormed, Extra
      <4>2. /\ IsFiniteSet(0 .. fa.total_pages - 1)
            /\ Cardinality(0 .. fa.total_pages - 1) = fa.total_pages
        <5>1. 0 \in Int /\ fa.total_pages - 1 \in Int
          BY <2>1
        <5>2. /\ IsFiniteSet(0 .. fa.total_pages - 1)
              /\ Cardinality(0 .. fa.total_pages - 1)
                   = IF 0 > fa.total_pages - 1 THEN 0
                     ELSE (fa.total_pages - 1) - 0 + 1
          BY <5>1, FS_Interval, Zenon
        <5> QED
          BY <2>1, <5>2
      <4>3. Cardinality(FreePages(fa)) <= fa.total_pages
        BY <4>1, <4>2, FS_Subset
      <4>4. Cardinality(FreePages(fa)) \in Nat
        BY <4>1, FreePagesFinite
      <4> QED
        BY <4>1, <4>3, <4>4
    <3>3. CASE boot = "nomap"
      <4>1. fa.free_pages = Cardinality(FreePages(fa)) + MAX_PAGES
        BY <1>1, <3>3 DEF IInv, WellFormed, Extra
      <4>2. FreePages(fa) = {} /\ fa.total_pages = MAX_PAGES
        BY <1>1, <3>3 DEF HeldInv, Apart
      <4>3. Cardinality({}) = 0
        BY FS_EmptySet
      <4> QED
        BY <4>1, <4>2, <4>3, MaxPagesAssumption
    <3> QED
      BY <1>1, <3>1, <3>2, <3>3 DEF IInv, TypeOK
  <2> QED
    BY <2>1, <2>2 DEF stats
<1>2. IInv /\ HeldInv => UsedDoesNotUnderflow
  BY <1>1 DEF UsedDoesNotUnderflow
<1> QED
  BY <1>2, HeldInvAlways, PTL

\* The bitmap allocator is a frame pool: no page is handed out twice, a run
\* consists of free pages, and one page is refused only when none is left,
\* until a caller gives back a page it does not hold.
THEOREM PoolCorrect == Spec => PoolSpec
<1> DEFINE shown == <<answer[1], IF answer[2] = None THEN None
                                 ELSE answer[2] \div PAGE_SIZE>>
<1>1. Init => Pool!Init
  <2> SUFFICES ASSUME Init PROVE Pool!Init
    OBVIOUS
  <2>1. Allocatable(fa) = {}
    BY AllocatableIsFree, IInvInitially DEF Init
  <2> QED
    BY <2>1 DEF Init, Pool!Init
<1>2. ASSUME IInv, IInv', Apart, tidy', Next
      PROVE  Pool!Promise
  <2>0. /\ Allocatable(fa) = IF boot = "new" THEN {} ELSE FreePages(fa)
        /\ Allocatable(fa)' = IF boot' = "new" THEN {} ELSE FreePages(fa')
    <3>1. Allocatable(fa) = IF boot = "new" THEN {} ELSE FreePages(fa)
      BY <1>2, AllocatableIsFree
    <3>2. (Allocatable(fa) = IF boot = "new" THEN {} ELSE FreePages(fa))'
      BY <1>2, AllocatableIsFree, PTL
    <3> QED
      BY <3>1, <3>2
  <2>1. ASSUME NEW map \in MemoryMaps, Boot(map) PROVE Pool!Promise
    <3>1. /\ boot = "new" /\ boot' \in {"map", "nomap"}
          /\ UNCHANGED <<held, answer>>
          /\ FreePages(fa') \in SUBSET Pages
      BY <1>2, <2>1, BootStep DEF FreePages
    <3>2. Pool!Fill(FreePages(fa'))
      BY <1>2, <2>0, <3>1 DEF Pool!Fill, Apart
    <3> QED
      BY <3>1, <3>2 DEF Pool!Promise
  <2>2. ASSUME AllocFrame PROVE Pool!Promise
    <3>1. CASE /\ Allocatable(fa) = {}
               /\ UNCHANGED <<fa, boot, held>> /\ answer' = <<"one", None>>
      <4>1. Pool!Refuse("one")
        BY <3>1 DEF Pool!Refuse, Allocatable, FreePages
      <4> QED
        BY <4>1 DEF Pool!Promise
    <3>2. CASE \E s \in FreePages(fa) :
                 /\ boot # "new" /\ boot' = boot
                 /\ FreePages(fa') = FreePages(fa) \ {s}
                 /\ held' = held \cup {s}
                 /\ answer' = <<"one", s * PAGE_SIZE>>
      <4>1. PICK s \in FreePages(fa) :
                 /\ boot # "new" /\ boot' = boot
                 /\ FreePages(fa') = FreePages(fa) \ {s}
                 /\ held' = held \cup {s}
                 /\ answer' = <<"one", s * PAGE_SIZE>>
        BY <3>2
      <4>2. s \in Pages /\ s \in Nat /\ s .. s = {s} /\ s <= s
        BY DEF FreePages, Pages
      <4>3. shown' = <<"one", s>>
        BY <4>1, <4>2, PageOfPageAddress, NoneAssumption
      <4>4. Pool!Give("one", s, s)
        BY <2>0, <4>1, <4>2, <4>3 DEF Pool!Give
      <4> QED
        BY <4>2, <4>4 DEF Pool!Promise
    <3> QED
      BY <1>2, <2>2, <3>1, <3>2, AllocFrameStep
  <2>3. ASSUME NEW n \in Counts, AllocFrames(n) PROVE Pool!Promise
    <3>1. CASE UNCHANGED <<fa, boot, held>> /\ answer' = <<"run", None>>
      <4>1. Pool!Refuse("run")
        BY <3>1 DEF Pool!Refuse, Allocatable, FreePages
      <4> QED
        BY <4>1 DEF Pool!Promise
    <3>2. CASE \E s \in Nat :
                 /\ boot # "new" /\ boot' = boot /\ n \in Nat \ {0}
                 /\ s .. s + n - 1 \subseteq FreePages(fa)
                 /\ FreePages(fa') = FreePages(fa) \ (s .. s + n - 1)
                 /\ held' = held \cup (s .. s + n - 1)
                 /\ answer' = <<"run", s * PAGE_SIZE>>
      <4>1. PICK s \in Nat :
                 /\ boot # "new" /\ boot' = boot /\ n \in Nat \ {0}
                 /\ s .. s + n - 1 \subseteq FreePages(fa)
                 /\ FreePages(fa') = FreePages(fa) \ (s .. s + n - 1)
                 /\ held' = held \cup (s .. s + n - 1)
                 /\ answer' = <<"run", s * PAGE_SIZE>>
        BY <3>2
      <4>2. s \in s .. s + n - 1 /\ s + n - 1 \in s .. s + n - 1
            /\ s <= s + n - 1
        BY <4>1
      <4>3. s \in Pages /\ s + n - 1 \in Pages
        BY <4>1, <4>2 DEF FreePages
      <4>4. shown' = <<"run", s>>
        BY <4>1, PageOfPageAddress, NoneAssumption
      <4>5. Pool!Give("run", s, s + n - 1)
        BY <2>0, <4>1, <4>2, <4>4 DEF Pool!Give
      <4> QED
        BY <4>3, <4>5 DEF Pool!Promise
    <3> QED
      BY <1>2, <2>3, <3>1, <3>2, AllocFramesStep
  <2>4. ASSUME NEW S, S \subseteq held, held' = held \ S,
               boot' = boot, answer' = answer,
               boot # "new" =>
                 FreePages(fa') = FreePages(fa) \cup (S \cap Pages)
        PROVE  Pool!Promise
    <3>1. held \subseteq Pages /\ (boot = "new" => held = {})
      BY <1>2 DEF IInv, TypeOK, Apart
    <3>2. S \in SUBSET Pages /\ S \cap Pages = S
      BY <2>4, <3>1
    <3>3. Pool!TakeBack(S)
      BY <2>0, <2>4, <3>1, <3>2 DEF Pool!TakeBack
    <3> QED
      BY <3>2, <3>3 DEF Pool!Promise
  <2>5. ASSUME NEW addr \in Addresses, FreeFrame(addr) PROVE Pool!Promise
    <3>1. RunAt(addr, 1) \subseteq held
      BY <1>2, <2>5 DEF FreeFrame
    <3> QED
      BY <1>2, <2>4, <2>5, <3>1, FreeFrameStep
  <2>6. ASSUME NEW addr \in Addresses, NEW n \in Counts, FreeFrames(addr, n)
        PROVE  Pool!Promise
    <3>1. RunAt(addr, n) \subseteq held
      BY <1>2, <2>6 DEF FreeFrames
    <3> QED
      BY <1>2, <2>4, <2>6, <3>1, FreeFramesStep
  <2> QED
    BY <1>2, <2>1, <2>2, <2>3, <2>5, <2>6 DEF Next
<1>3. ASSUME UNCHANGED vars PROVE UNCHANGED Pool!poolVars
  BY <1>3 DEF vars, Pool!poolVars, Allocatable, FreePages
<1>4. ASSUME IInv, IInv', HeldInv, [Next]_vars
      PROVE  [Pool!Next]_(Pool!poolVars)
  <2>1. CASE UNCHANGED vars
    BY <1>3, <2>1
  <2>2. CASE Next /\ tidy'
    <3>1. tidy
      BY <1>4, <2>2, TidyStays
    <3>2. Pool!Promise
      BY <1>2, <1>4, <2>2, <3>1 DEF HeldInv
    <3> QED
      BY <2>2, <3>1, <3>2 DEF Pool!Next
  <2>3. CASE ~ tidy'
    BY <2>3 DEF Pool!Next, Pool!NoPromise
  <2> QED
    BY <1>4, <2>1, <2>2, <2>3
<1>5. Spec => []IInv /\ []HeldInv
  BY HeldInvAlways, PTL
<1> QED
  BY <1>1, <1>4, <1>5, PTL DEF Spec, PoolSpec, Pool!Spec
=============================================================================
