------------------------------ MODULE BootInfo ------------------------------
(***************************************************************************)
(* From the boot loader's tags to the frame allocator: the walk of         *)
(* BootInfo::from_bootloader (kernel/src/bootinfo.rs), then parse_mem_map  *)
(* (kernel/src/mem/mod.rs) and FrameAllocator::init.  Kernel goes on from  *)
(* there.                                                                  *)
(*                                                                         *)
(* The Multiboot2 information is a sequence of tags; a tag is a record     *)
(* [type, size, at], at being its offset from the first byte, for a memory *)
(* map with the entry size and the entries, for a framebuffer with its     *)
(* fb_type and its geometry.                                               *)
(***************************************************************************)
EXTENDS Frames, SequencesExt

CONSTANTS
  Infos,     \* tag sequences a boot loader may pass, the end tag included;
             \* the empty sequence stands for a null pointer
  CAP,       \* length of MEMORY_MAP_BUFFER, 128 in the code
  FALLBACK,  \* memory assumed without a map, 32 MiB in the code
  TextMode   \* width and height assumed without a tag, <<80, 25>> in the code

ASSUME BootAssumption ==
  CAP \in Nat \ {0} /\ FALLBACK \in Nat /\ TextMode \in Nat \X Nat

\* What Multiboot2 says of the information: the tags follow the header of 8
\* bytes and each other at multiples of 8, without overlap, and the end tag
\* is the last; a map is as long as its entries, and a line of the screen at
\* least as long as its pixels.
LaidOut(tags) ==
  /\ Len(tags) \in Nat \ {0} /\ DOMAIN tags = 1 .. Len(tags)
  /\ tags[1].at = 8
  /\ \A i \in DOMAIN tags :
       /\ tags[i].at \in Nat /\ tags[i].size \in Nat \ (0 .. 7)
       /\ tags[i].type = "end" <=> i = Len(tags)
       /\ i < Len(tags) =>
            tags[i + 1].at = tags[i].at + ((tags[i].size + 7) \div 8) * 8
       /\ \A j \in DOMAIN tags : i < j => tags[i].at + tags[i].size <= tags[j].at
       /\ tags[i].type = "memory_map" =>
            /\ Len(tags[i].entries) \in Nat
            /\ DOMAIN tags[i].entries = 1 .. Len(tags[i].entries)
            /\ tags[i].entry_size \in Nat \ {0}
            /\ tags[i].size = 16 + Len(tags[i].entries) * tags[i].entry_size
       /\ tags[i].type = "framebuffer" =>
            /\ {tags[i].width, tags[i].height, tags[i].pitch, tags[i].bpp} \subseteq Nat
            /\ tags[i].width * tags[i].bpp <= 8 * tags[i].pitch

ASSUME InfosAssumption == \A tags \in Infos : tags = << >> \/ LaidOut(tags)

VARIABLES
  info,               \* the tags
  addr,               \* offset of the tag being read
  entry_addr, count,  \* within a memory map tag
  MEMORY_MAP_BUFFER, MEMORY_MAP_COUNT,
  framebuffer,        \* width, height, pitch and bpp
  MEMORY_STATS,       \* total_memory, available_memory
  fa,                 \* FRAME_ALLOCATOR
  pc

bootVars == <<info, addr, entry_addr, count, MEMORY_MAP_BUFFER,
              MEMORY_MAP_COUNT, framebuffer, MEMORY_STATS, fa, pc>>

parser == <<addr, entry_addr, count, MEMORY_MAP_BUFFER, MEMORY_MAP_COUNT, framebuffer>>

----------------------------------------------------------------------------
(* The information in memory.                                              *)

\* The walk's own rounding.
Align8(n) == ((n + 7) \div 8) * 8

\* Where the information ends.
total_size == info[Len(info)].at + Align8(info[Len(info)].size)

\* The tag that begins at the offset the walk has reached.
Tag == info[CHOOSE i \in DOMAIN info : info[i].at = addr]

\* Types of memory in the tags and in the kernel.
MemoryType(mb_type) ==
  CASE mb_type = 1 -> "Available" [] mb_type = 3 -> "AcpiReclaimable"
    [] mb_type = 4 -> "AcpiNvs"   [] mb_type = 5 -> "BadMemory"
    [] OTHER -> "Reserved"

----------------------------------------------------------------------------
\* A frame buffer, without its address, shifts and masks.
FramebufferInfo(width, height, pitch, bpp) ==
  [width |-> width, height |-> height, pitch |-> pitch, bpp |-> bpp]

\* Text mode, which is assumed until a tag says otherwise.
DefaultFramebuffer == FramebufferInfo(TextMode[1], TextMode[2], 2 * TextMode[1], 16)

Unused == [base |-> 0, length |-> 0, mem_type |-> "Reserved"]

BootInit ==
  /\ info \in Infos
  /\ addr = 8 /\ entry_addr = 0 /\ count = 0
  /\ MEMORY_MAP_BUFFER = [i \in 0 .. CAP - 1 |-> Unused]
  /\ MEMORY_MAP_COUNT = 0
  /\ framebuffer = DefaultFramebuffer
  /\ MEMORY_STATS = [total_memory |-> 0, available_memory |-> 0]
  /\ fa = new
  /\ pc = IF info = << >> THEN "parsed" ELSE "tags"

\* Mutant: the walk does not go on.
Following_same == addr

\* The offset of the tag that follows.
Following == addr + Align8(Tag.size)

\* The walk ends at the end tag, or at the end of the information.
EndOfTags ==
  /\ pc = "tags"
  /\ addr >= total_size \/ Tag.type = "end"
  /\ pc' = "parsed"
  /\ UNCHANGED <<info, parser, MEMORY_STATS, fa>>

OtherTag ==
  /\ pc = "tags" /\ addr < total_size
  /\ Tag.type = "other"
  /\ addr' = Following
  /\ UNCHANGED <<info, entry_addr, count, MEMORY_MAP_BUFFER, MEMORY_MAP_COUNT,
                 framebuffer, MEMORY_STATS, fa, pc>>

\* Only RGB framebuffers are supported.
FramebufferTag ==
  /\ pc = "tags" /\ addr < total_size
  /\ Tag.type = "framebuffer"
  /\ IF Tag.fb_type = 1
     THEN /\ framebuffer' = FramebufferInfo(Tag.width, Tag.height, Tag.pitch, Tag.bpp)
          /\ addr' = Following
          /\ UNCHANGED pc
     ELSE pc' = "panicked" /\ UNCHANGED <<framebuffer, addr>>
  /\ UNCHANGED <<info, entry_addr, count, MEMORY_MAP_BUFFER, MEMORY_MAP_COUNT,
                 MEMORY_STATS, fa>>

\* Mutant: the entries are added to those of an earlier tag.
MemoryMapTag_adds ==
  /\ pc = "tags" /\ addr < total_size
  /\ Tag.type = "memory_map"
  /\ entry_addr' = addr + 16
  /\ count' = MEMORY_MAP_COUNT
  /\ pc' = "entries"
  /\ UNCHANGED <<info, addr, MEMORY_MAP_BUFFER, MEMORY_MAP_COUNT, framebuffer, MEMORY_STATS, fa>>

\* The loop over the entries begins, at the first place of the buffer.
MemoryMapTag ==
  /\ pc = "tags" /\ addr < total_size
  /\ Tag.type = "memory_map"
  /\ entry_addr' = addr + 16
  /\ count' = 0
  /\ pc' = "entries"
  /\ UNCHANGED <<info, addr, MEMORY_MAP_BUFFER, MEMORY_MAP_COUNT, framebuffer, MEMORY_STATS, fa>>

\* The loop's condition: a whole entry is left, and room for it.
EntryFits == entry_addr + Tag.entry_size <= addr + Tag.size /\ count < CAP

\* The entry at entry_addr.
EntryHere == Tag.entries[(entry_addr - (addr + 16)) \div Tag.entry_size + 1]

ReadEntry ==
  /\ pc = "entries" /\ EntryFits
  /\ MEMORY_MAP_BUFFER' =
       [MEMORY_MAP_BUFFER EXCEPT ![count] =
          [base |-> EntryHere.base, length |-> EntryHere.length,
           mem_type |-> MemoryType(EntryHere.mb_type)]]
  /\ count' = count + 1
  /\ entry_addr' = entry_addr + Tag.entry_size
  /\ UNCHANGED <<info, addr, MEMORY_MAP_COUNT, framebuffer, MEMORY_STATS, fa, pc>>

EndOfEntries ==
  /\ pc = "entries" /\ ~ EntryFits
  /\ MEMORY_MAP_COUNT' = count
  /\ addr' = Following
  /\ pc' = "tags"
  /\ UNCHANGED <<info, entry_addr, count, MEMORY_MAP_BUFFER, framebuffer, MEMORY_STATS, fa>>

\* The memory map the rest of the kernel is given.
Map == [i \in 1 .. MEMORY_MAP_COUNT |-> MEMORY_MAP_BUFFER[i - 1]]

\* Regions that count as RAM.
CountsAsRam ==
  {"Available", "AcpiReclaimable", "AcpiNvs", "Kernel", "Bootloader"}

\* Mutant: the last entry replaces the sum.
SumOf_last(types) ==
  FoldLeft(LAMBDA sum, e : IF e.mem_type \in types THEN e.length ELSE sum, 0, Map) % U64

\* The lengths of the entries of some types, added up.
SumOf(types) ==
  FoldSeq(LAMBDA e, sum : (IF e.mem_type \in types THEN e.length ELSE 0) + sum, 0, Map) % U64

parse_mem_map ==
  /\ pc = "parsed"
  /\ MEMORY_STATS' = IF MEMORY_MAP_COUNT = 0
              THEN [total_memory |-> FALLBACK, available_memory |-> FALLBACK]
              ELSE [total_memory     |-> SumOf(CountsAsRam),
                    available_memory |-> SumOf({"Available"})]
  /\ pc' = "counted"
  /\ UNCHANGED <<info, parser, fa>>

\* phys::init
InitFrames ==
  /\ pc = "counted"
  /\ fa' = init(fa, Map)
  /\ pc' = "frames"
  /\ UNCHANGED <<info, parser, MEMORY_STATS>>

BootNext ==
  \/ EndOfTags \/ OtherTag \/ FramebufferTag \/ MemoryMapTag
  \/ ReadEntry \/ EndOfEntries \/ parse_mem_map \/ InitFrames

----------------------------------------------------------------------------
(* Properties.                                                             *)

\* The tags of memory maps in front of the end tag.
MapTags == {i \in DOMAIN info : info[i].type = "memory_map"}

\* The kernel's map consists of the entries of the last memory map tag, in
\* order, without what does not fit into the buffer, and without anything
\* left over from another tag.
MapIsLastTag ==
  pc = "parsed" =>
    IF MapTags = {} THEN Map = << >>
    ELSE LET entries == info[Max(MapTags)].entries
         IN  /\ Len(Map) = Min({CAP, Len(entries)})
             /\ \A i \in DOMAIN Map :
                  /\ Map[i].base = entries[i].base
                  /\ Map[i].length = entries[i].length
                  /\ (Map[i].mem_type = "Available") = (entries[i].mb_type = 1)

\* The statistics never promise less memory than the frame allocator hands
\* out, nor more available memory than there is.
StatsCoverFrames ==
  pc = "frames" /\ MEMORY_MAP_COUNT > 0 =>
    /\ MEMORY_STATS.available_memory <= MEMORY_STATS.total_memory
    /\ Cardinality(FreePages(fa)) * PAGE_SIZE <= MEMORY_STATS.available_memory
=============================================================================
