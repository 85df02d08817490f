-------------------------- MODULE MCFrameAllocator --------------------------
(***************************************************************************)
(* Small instances of FrameAllocator.  A page is two units long, so that   *)
(* unaligned memory map entries and unaligned addresses exist; U64 leaves  *)
(* room above the last page for entries and addresses out of range.        *)
(***************************************************************************)
EXTENDS FrameAllocator

Entry(base, length, type) ==
  [base |-> base, length |-> length, mem_type |-> type]

\* No map; one unaligned entry; two fragments around a hole with a reserved
\* entry; overlapping entries that reach past MAX_PAGES; an entry whose end
\* wraps around; a map with nothing available.
mcMemoryMaps ==
  { << >>,
    << Entry(1, 9, "Available") >>,
    << Entry(0, 2, "Available"), Entry(2, 2, "Reserved"),
       Entry(4, 4, "Available") >>,
    << Entry(0, 6, "Available"), Entry(4, 8, "Available") >>,
    << Entry(6, 12, "Available"), Entry(2, 5, "Available") >>,
    << Entry(0, 8, "Reserved") >> }

\* Every address up to one page beyond the bitmap.
mcAddresses == 0 .. (MAX_PAGES + 1) * PAGE_SIZE - 1

mcCounts == 0 .. 3
=============================================================================
