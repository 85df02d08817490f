----------------------------- MODULE PageTables -----------------------------
(***************************************************************************)
(* Four-level page tables in physical memory: kernel/src/arch/x86_64/      *)
(* paging.rs as operators on a memory and a frame allocator.               *)
(*                                                                         *)
(* Memory is counted in 8-byte words, the size of a page table entry, so a *)
(* page of E words holds one table of E entries (512 in the code).  The    *)
(* tables of a level are frames like any other; the kernel's own tables    *)
(* KPML4, KPDPT and KPD[0 .. G-1] lie in frames of the kernel image.  The  *)
(* G tables KPD map the first G * E * E frames with huge pages of E        *)
(* frames, which is exactly the memory the frame allocator covers (4 GiB). *)
(***************************************************************************)
EXTENDS Frames

CONSTANTS
  E,       \* entries of a page table, and words of a page
  G,       \* number of page directories of the identity mapping
  KPML4,   \* frame of the root table
  KPDPT,   \* frame of the kernel's page directory pointer table
  KPD      \* the frames of the kernel's page directories, from 0 to G - 1

ASSUME TableSizeAssumption == E \in Nat /\ E > 1 /\ PAGE_SIZE = E
ASSUME IdentityAssumption  == G \in 1 .. E /\ MAX_PAGES = G * E * E
ASSUME KernelTablesAssumption ==
  /\ KPD \in [0 .. G - 1 -> Pages]
  /\ KPML4 \in Pages /\ KPDPT \in Pages /\ KPML4 # KPDPT
  /\ \A i \in 0 .. G - 1 : KPD[i] \notin {KPML4, KPDPT}
  /\ \A i, j \in 0 .. G - 1 : KPD[i] = KPD[j] => i = j

Index == 0 .. E - 1

KernelTables == {KPML4, KPDPT} \cup {KPD[i] : i \in 0 .. G - 1}

----------------------------------------------------------------------------
(* A word of memory, read as a page table entry.                           *)

PageTableEntry(addr, flags) ==
  [addr |-> page_align_down(addr), flags |-> flags]

empty == [addr |-> 0, flags |-> {}]

is_present(entry) == "PRESENT" \in entry.flags

is_huge_page(entry) == "HUGE_PAGE" \in entry.flags

\* The frame an entry points to.
FrameOf(entry) == entry.addr \div PAGE_SIZE

\* The contents of a zeroed table.
ZeroTable == [i \in Index |-> empty]

indices(virt) ==
  [pml4   |-> (virt \div (E * E * E * E)) % E,
   pdpt   |-> (virt \div (E * E * E)) % E,
   pd     |-> (virt \div (E * E)) % E,
   pt     |-> (virt \div E) % E,
   offset |-> virt % E]

----------------------------------------------------------------------------
\* paging::init.  The first and the last entry of the root table lead to the
\* same KPDPT, so its contents are visible at two ranges of addresses.
paging_init(mem) ==
  LET link(frame) == PageTableEntry(frame * PAGE_SIZE, {"PRESENT", "WRITABLE"})
      huge(j, i)  == PageTableEntry((j * E + i) * E * PAGE_SIZE,
                                    {"PRESENT", "WRITABLE", "HUGE_PAGE"})
  IN  [f \in Pages |->
         IF f = KPML4 THEN [mem[f] EXCEPT ![0] = link(KPDPT), ![E - 1] = link(KPDPT)]
         ELSE IF f = KPDPT
         THEN [i \in Index |-> IF i < G THEN link(KPD[i]) ELSE mem[f][i]]
         ELSE IF \E j \in 0 .. G - 1 : f = KPD[j]
         THEN [i \in Index |-> huge(CHOOSE j \in 0 .. G - 1 : f = KPD[j], i)]
         ELSE mem[f]]

\* Mutant: when the table below is missing its frame is taken twice.
Link_leaks(s, i) ==
  LET entry == s.mem[s.table][i]
      r     == alloc(alloc(s.fa).fa)
  IN  IF is_present(entry) THEN [s EXCEPT !.table = FrameOf(entry)]
      ELSE IF r.ret = None THEN [s EXCEPT !.ok = FALSE]
      ELSE LET fresh == PageTableEntry(r.ret, {"PRESENT", "WRITABLE"})
           IN  [ok |-> TRUE, fa |-> r.fa, table |-> FrameOf(fresh),
                mem |-> [s.mem EXCEPT ![s.table][i] = fresh]]

\* One level of map_page up to its "Zero the new table": follow entry i of
\* the current table, or take a frame and make it a present entry.  The
\* HUGE_PAGE flag of the entry is not looked at, and the words of the new
\* table are still what the frame held.
Link(s, i) ==
  LET entry == s.mem[s.table][i]
      r     == alloc(s.fa)
  IN  IF is_present(entry) THEN [s EXCEPT !.table = FrameOf(entry)]
      ELSE IF r.ret = None THEN [s EXCEPT !.ok = FALSE]
      ELSE LET fresh == PageTableEntry(r.ret, {"PRESENT", "WRITABLE"})
           IN  [ok |-> TRUE, fa |-> r.fa, table |-> FrameOf(fresh),
                mem |-> [s.mem EXCEPT ![s.table][i] = fresh]]

\* Mutant: the new table keeps what the frame held.
ZeroFrame_nothing(mem, frame) == mem

\* write_bytes on a new table.
ZeroFrame(mem, frame) == [mem EXCEPT ![frame] = ZeroTable]

\* The whole level: a table that Link made is zeroed.
Descend(s, i) ==
  LET r    == Link(s, i)
      made == r.ok /\ ~ is_present(s.mem[s.table][i])
  IN  IF ~ s.ok THEN s
      ELSE IF made THEN [r EXCEPT !.mem = ZeroFrame(@, r.table)]
      ELSE r

\* Mutant: the caller's flags are written as they are.
PageEntry_no_present(phys, flags) == PageTableEntry(phys, flags)

\* The entry map_page writes for the page itself.
PageEntry(phys, flags) == PageTableEntry(phys, flags \cup {"PRESENT"})

\* map_page: the three levels, then the entry of the page itself.  A frame
\* shortage on the way answers Err and keeps the tables linked so far.
map_page(mem, fa, virt, phys, flags) ==
  LET ix   == indices(virt)
      root == [ok |-> TRUE, mem |-> mem, fa |-> fa, table |-> KPML4]
      s    == Descend(Descend(Descend(root, ix.pml4), ix.pdpt), ix.pd)
  IN  IF s.ok
      THEN [s EXCEPT !.mem[s.table][ix.pt] = PageEntry(phys, flags)]
      ELSE s

\* unmap_page: Err unless all four entries are present; huge pages are not
\* told apart here either.
unmap_page(mem, virt) ==
  LET ix  == indices(virt)
      e4  == mem[KPML4][ix.pml4]
      e3  == mem[FrameOf(e4)][ix.pdpt]
      e2  == mem[FrameOf(e3)][ix.pd]
      pte == mem[FrameOf(e2)][ix.pt]
  IN  IF is_present(e4) /\ is_present(e3) /\ is_present(e2) /\ is_present(pte)
      THEN [ok |-> TRUE, ret |-> pte.addr, table |-> FrameOf(e2),
            mem |-> [mem EXCEPT ![FrameOf(e2)][ix.pt] = empty]]
      ELSE [ok |-> FALSE, ret |-> None, table |-> None, mem |-> mem]

\* translate, which is also what the processor does on a TLB miss.
translate(mem, virt) ==
  LET ix  == indices(virt)
      e4  == mem[KPML4][ix.pml4]
      e3  == mem[FrameOf(e4)][ix.pdpt]
      e2  == mem[FrameOf(e3)][ix.pd]
      pte == mem[FrameOf(e2)][ix.pt]
  IN  IF ~ is_present(e4) \/ ~ is_present(e3) THEN None
      ELSE IF is_huge_page(e3) THEN e3.addr + (virt % (E * E * E))
      ELSE IF ~ is_present(e2) THEN None
      ELSE IF is_huge_page(e2) THEN e2.addr + (virt % (E * E))
      ELSE IF ~ is_present(pte) THEN None
      ELSE pte.addr + ix.offset

----------------------------------------------------------------------------
(* What the properties speak about.                                        *)

\* The addresses of the identity mapping and of its copy at the top.
IsIdentity(virt) == indices(virt).pml4 \in {0, E - 1} /\ indices(virt).pdpt < G

\* The addresses two root entries show twice, in one form.
Canonical(virt) ==
  IF indices(virt).pml4 = E - 1 THEN virt % (E * E * E * E) ELSE virt

SamePage(v, w) == Canonical(v) \div E = Canonical(w) \div E

\* The entries of the tables at the frames fs that link a table of the next
\* level, as pairs of frame and index.
Links(mem, fs) ==
  {x \in fs \X Index : /\ is_present(mem[x[1]][x[2]])
                       /\ ~ is_huge_page(mem[x[1]][x[2]])}

Linked(mem, fs) == {FrameOf(mem[x[1]][x[2]]) : x \in Links(mem, fs)}

\* The frames of the tables of each level below the root.
Pdpts(mem) == Linked(mem, {KPML4})
Pds(mem)   == Linked(mem, Pdpts(mem))
Pts(mem)   == Linked(mem, Pds(mem))

\* Every frame that is a table.
TableFrames(mem) == {KPML4} \cup Pdpts(mem) \cup Pds(mem) \cup Pts(mem)
=============================================================================
