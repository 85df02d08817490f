------------------------------- MODULE Paging -------------------------------
(***************************************************************************)
(* The kernel's address space at work: paging::init, then mem::init for    *)
(* the frames, then a client that takes frames from the allocator, writes  *)
(* into them, maps and unmaps them (kernel/src/arch/x86_64/paging.rs) and  *)
(* gives them back, while the processor walks the tables at any time.      *)
(*                                                                         *)
(* Every caller of map_page in the kernel holds the heap's heap_end mutex  *)
(* and the kernel runs on one processor, so there is one call at a time;   *)
(* the processor's walks fall between the writes of the call.              *)
(***************************************************************************)
EXTENDS PageTables

CONSTANTS
  MemoryMap,   \* the boot memory map; it may offer the kernel's own tables
  Virts,       \* the virtual addresses looked at
  Targets,     \* the ones the client maps and unmaps
  Touched,     \* the ones the processor accesses
  MaxHeld,     \* bound: the number of frames the client holds at a time
  Junk         \* what a word of RAM may hold: at the start, or from a client

\* Virtual addresses are as wide as the five parts indices splits them into
\* (48 bits in the code).
ASSUME VirtsAssumption ==
  /\ Virts \subseteq 0 .. E * E * E * E * E - 1
  /\ Targets \subseteq Virts /\ Touched \subseteq Virts

VARIABLES
  mem,     \* physical memory, by frame and word
  fa,      \* FRAME_ALLOCATOR
  held,    \* frames the client got from alloc_frame
  tlb,     \* the processor's cached translations
  phase,   \* "start", then "paging" (paging::init ran), then "ready"
  call,    \* the map_page or unmap_page under way
  raw,     \* the new table that is linked and not yet zeroed, or None
  wild,    \* history: addresses the processor cached through a raw table
  intact   \* history: nobody has overwritten a table, taking its frame for
           \* free memory

vars == <<mem, fa, held, tlb, phase, call, raw, wild, intact>>

\* A call of map_page is at its levels 1 to 3, at the entry of the page (4) or
\* at invlpg (5); table is the table it has reached.  unmap_page is here only
\* when it is at its invlpg, with no frame.
Call(step, virt, frame, table) ==
  [step |-> step, virt |-> virt, frame |-> frame, table |-> table]

NoCall == Call(0, 0, None, KPML4)

Idle == intact /\ phase = "ready" /\ call.step = 0

\* The kernel's tables are in .bss and start out empty; other RAM holds
\* whatever the firmware and the boot loader left there.
Init ==
  /\ \E junk \in Junk :
       mem = [f \in Pages |-> IF f \in KernelTables THEN ZeroTable
                              ELSE [i \in Index |-> junk]]
  /\ fa = new
  /\ held = {}
  /\ tlb = << >>
  /\ phase = "start"
  /\ call = NoCall /\ raw = None
  /\ wild = {} /\ intact = TRUE

----------------------------------------------------------------------------
\* paging::init; loading CR3 empties the TLB.
InitPaging ==
  /\ phase = "start"
  /\ mem' = paging_init(mem)
  /\ tlb' = << >>
  /\ phase' = "paging"
  /\ UNCHANGED <<fa, held, call, raw, wild, intact>>

\* phys::init
InitFrames ==
  /\ phase = "paging"
  /\ fa' = init(fa, MemoryMap)
  /\ phase' = "ready"
  /\ UNCHANGED <<mem, held, tlb, call, raw, wild, intact>>

\* The client takes a frame.
Take ==
  /\ Idle
  /\ Cardinality(held) < MaxHeld
  /\ LET r == alloc(fa)
     IN  /\ r.ret # None
         /\ fa' = r.fa
         /\ held' = held \cup {r.ret \div PAGE_SIZE}
  /\ UNCHANGED <<mem, tlb, phase, call, raw, wild, intact>>

\* The client writes into a frame it was given.
Fill(frame) ==
  /\ Idle
  /\ frame \in held
  /\ \E junk \in Junk : mem' = [mem EXCEPT ![frame] = [i \in Index |-> junk]]
  /\ intact' = (frame \notin TableFrames(mem))
  /\ UNCHANGED <<fa, held, tlb, phase, call, raw, wild>>

\* The frames some address of Virts translates into.
Mapped == {translate(mem, v) \div PAGE_SIZE :
             v \in {u \in Virts : ~ IsIdentity(u) /\ translate(mem, u) # None}}

\* The client gives back a frame it holds and no longer maps.
GiveBack(frame) ==
  /\ Idle
  /\ frame \in held \ Mapped
  /\ fa' = free(fa, frame * PAGE_SIZE)
  /\ held' = held \ {frame}
  /\ UNCHANGED <<mem, tlb, phase, call, raw, wild, intact>>

----------------------------------------------------------------------------
(* map_page and unmap_page, write by write.                                *)

\* map_page is called for a frame the client holds.
MapPage(virt, frame) ==
  /\ Idle
  /\ frame \in held
  /\ call' = Call(1, virt, frame, KPML4)
  /\ UNCHANGED <<mem, fa, held, tlb, phase, raw, wild, intact>>

\* The index of the call's address in the table of a level.
LevelIndex(virt, step) ==
  CASE step = 1 -> indices(virt).pml4
    [] step = 2 -> indices(virt).pdpt
    [] OTHER    -> indices(virt).pd

AtLevel == intact /\ call.step \in 1 .. 3 /\ raw = None

Reach == [ok |-> TRUE, mem |-> mem, fa |-> fa, table |-> call.table]

\* A level whose entry is present.
Follow ==
  LET i == LevelIndex(call.virt, call.step)
  IN  /\ AtLevel
      /\ is_present(mem[call.table][i])
      /\ call' = Call(call.step + 1, call.virt, call.frame, Link(Reach, i).table)
      /\ UNCHANGED <<mem, fa, held, tlb, phase, raw, wild, intact>>

\* A level that gets a new table: the entry is written first.  A frame that
\* already is a table is lost here, zeroing it is all that follows.
LinkTable ==
  LET i == LevelIndex(call.virt, call.step)
      s == Link(Reach, i)
  IN  /\ AtLevel
      /\ ~ is_present(mem[call.table][i])
      /\ s.ok
      /\ mem' = s.mem /\ fa' = s.fa
      /\ call' = Call(call.step + 1, call.virt, call.frame, s.table)
      /\ raw' = s.table
      /\ intact' = (s.table \notin TableFrames(mem))
      /\ UNCHANGED <<held, tlb, phase, wild>>

\* A level that finds no frame for its table: Err, the tables linked so far
\* stay.
NoFrame ==
  LET i == LevelIndex(call.virt, call.step)
  IN  /\ AtLevel
      /\ ~ is_present(mem[call.table][i])
      /\ ~ Link(Reach, i).ok
      /\ call' = NoCall
      /\ UNCHANGED <<mem, fa, held, tlb, phase, raw, wild, intact>>

\* The new table is zeroed.
ZeroTheTable ==
  /\ intact /\ raw # None
  /\ mem' = ZeroFrame(mem, raw)
  /\ raw' = None
  /\ UNCHANGED <<fa, held, tlb, phase, call, wild, intact>>

\* The entry of the page is written.  Inside the identity mapping the table
\* reached is the first frame of a huge page, whatever it is used for.
WritePageEntry ==
  /\ intact /\ call.step = 4 /\ raw = None
  /\ mem' = [mem EXCEPT ![call.table][indices(call.virt).pt] =
                          PageEntry(call.frame * PAGE_SIZE, {"WRITABLE"})]
  /\ call' = Call(5, call.virt, call.frame, call.table)
  /\ intact' = ~ (IsIdentity(call.virt) /\ call.table \in TableFrames(mem))
  /\ UNCHANGED <<fa, held, tlb, phase, raw, wild>>

\* unmap_page up to its write; an Err changes nothing.
UnmapPage(virt) ==
  /\ Idle
  /\ LET r == unmap_page(mem, virt)
         t == r.table
     IN  /\ r.ok
         /\ mem' = r.mem
         /\ call' = Call(5, virt, None, t)
         /\ intact' = ~ (IsIdentity(virt) /\ t \in TableFrames(mem))
  /\ UNCHANGED <<fa, held, tlb, phase, raw, wild>>

\* Mutant of invlpg.
invlpg_nothing(virt) == tlb

\* invlpg: the cached translations of the page go, not those of its alias.
invlpg(virt) ==
  [v \in {w \in DOMAIN tlb : w \div E # virt \div E} |-> tlb[v]]

\* The last step of both calls.
Flush ==
  /\ intact /\ call.step = 5
  /\ tlb' = invlpg(call.virt)
  /\ wild' = wild \cap DOMAIN tlb'
  /\ call' = NoCall
  /\ UNCHANGED <<mem, fa, held, phase, raw, intact>>

----------------------------------------------------------------------------
\* Memory as it will be once the new table is zeroed.
Settled == IF raw = None THEN mem ELSE [mem EXCEPT ![raw] = ZeroTable]

\* The processor walks the tables and caches the translation, that of a raw
\* table too.
Walk(virt) ==
  /\ intact /\ phase # "start"
  /\ virt \notin DOMAIN tlb
  /\ translate(mem, virt) # None
  /\ tlb' = [v \in DOMAIN tlb \cup {virt} |->
               IF v = virt THEN translate(mem, virt) ELSE tlb[v]]
  /\ wild' = IF translate(mem, virt) = translate(Settled, virt) THEN wild
             ELSE wild \cup {virt}
  /\ UNCHANGED <<mem, fa, held, phase, call, raw, intact>>

\* What the machine does once one of its tables is overwritten is not
\* modelled.
Overwritten == ~ intact /\ UNCHANGED vars

Next ==
  \/ InitPaging
  \/ InitFrames
  \/ Take
  \/ \E frame \in Pages : Fill(frame)
  \/ \E frame \in Pages : GiveBack(frame)
  \/ \E virt \in Targets, frame \in Pages : MapPage(virt, frame)
  \/ Follow
  \/ LinkTable
  \/ NoFrame
  \/ ZeroTheTable
  \/ WritePageEntry
  \/ \E virt \in Targets : UnmapPage(virt)
  \/ Flush
  \/ \E virt \in Touched : Walk(virt)
  \/ Overwritten

Spec == Init /\ [][Next]_vars

----------------------------------------------------------------------------
(* Properties.  They hold until a table is overwritten: a frame of the     *)
(* kernel's own tables is handed out (bootinfo.rs and phys.rs free what    *)
(* the loader calls available, the kernel image included) and written, or  *)
(* map_page or unmap_page inside the identity mapping hits a huge page     *)
(* whose first frame is a table.                                           *)

\* Between any two writes of a call every offered frame that is not free is a
\* page table or held by the client, and the tables map_page made are never
\* held; every table is linked from one entry only: a map_page that fails half
\* way neither leaks a frame nor shares a table, and a table is not handed out.
FramesAccounted ==
  phase = "ready" /\ intact =>
    LET linked  == Pdpts(Settled) \cup Pds(Settled) \cup Pts(Settled)
        dynamic == linked \ KernelTables
        links   == Links(Settled, {KPML4} \cup Pdpts(Settled) \cup Pds(Settled))
    IN  /\ AvailablePages(MemoryMap) \ FreePages(fa) = dynamic \cup held
        /\ dynamic \cap held = {}
        /\ Cardinality(links) = Cardinality(linked) + 1

\* The page whose entry a call has changed and not flushed yet.
Pending(v) == call.step = 5 /\ v \div E = call.virt \div E

\* What the TLB may show.  Every cached translation is the one the tables
\* have, except at a page whose flush is pending and at one that is visible
\* through the other root entry too; or it was read from a new table between
\* the write that links it and the zeroing that follows (paging.rs:216-220,
\* 229-233, 242-246), and then its address is not mapped: nothing flushes such
\* an entry until the address is mapped, and then it goes.
TlbCoherent ==
  intact =>
    \A v \in DOMAIN tlb :
      (indices(v).pml4 \notin {0, E - 1} \/ IsIdentity(v)) /\ ~ Pending(v)
        => \/ tlb[v] = translate(Settled, v)
           \/ v \in wild /\ translate(Settled, v) = None

\* The tables implement an address space: map_page changes the page it is
\* asked to change and no other (its alias apart) in one write, the writes
\* before it and a failed call change no translation, and the identity mapping
\* never moves.  A table that is linked and not zeroed yet counts as empty:
\* what the processor may read in it is TlbCoherent's subject.
Space == INSTANCE AddressSpace
           WITH Address    <- Virts,
                Fixed      <- IsIdentity,
                FixedAt    <- Canonical,
                SamePageAs <- SamePage,
                OffsetOf   <- LAMBDA v : v % E,
                Unmapped   <- None,
                space      <- [v \in Virts |-> translate(Settled, v)],
                kept       <- intact
SpaceSpec == Space!Spec

\* What paging.rs:207 says of map_page: "Map virt -> phys".  A call outside
\* the identity mapping that gets as far as its invlpg has mapped its address
\* to its frame, whatever was mapped before and however many tables it made.
\* (Not what the code does inside the identity mapping: the huge page stays,
\* and the entry is written into the memory the huge page maps.)
MapPageMaps ==
  intact /\ call.step = 5 /\ call.frame # None /\ ~ IsIdentity(call.virt) =>
    translate(mem, call.virt) = call.frame * PAGE_SIZE + (call.virt % E)
=============================================================================
