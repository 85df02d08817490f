------------------------------ MODULE MCKernel ------------------------------
(***************************************************************************)
(* Every sequence of up to three tags, among them memory maps of different *)
(* lengths and entry sizes, tags whose size is no multiple of eight and    *)
(* frame buffers with and without padding, of 16 and 32 bits a pixel and   *)
(* without pixels; a buffer of two map entries and ten pages of two bytes. *)
(* The heap is at the third page, which the maps have and have not.        *)
(***************************************************************************)
EXTENDS Kernel

Entry(base, length, type) ==
  [base |-> base, length |-> length, mb_type |-> type]

MapTag(entry_size, entries) ==
  [type |-> "memory_map", size |-> 16 + entry_size * Len(entries),
   entry_size |-> entry_size, entries |-> entries]

FbTag(width, height, pitch, bpp, fb_type) ==
  [type |-> "framebuffer", size |-> 38, fb_type |-> fb_type,
   width |-> width, height |-> height, pitch |-> pitch, bpp |-> bpp]

mcTags ==
  { [type |-> "other", size |-> 13],
    FbTag(1, 1, 4, 32, 1), FbTag(1, 2, 6, 32, 1), FbTag(1, 2, 2, 16, 1),
    FbTag(0, 3, 0, 32, 1), FbTag(1, 1, 4, 32, 2),
    MapTag(24, << >>),
    MapTag(24, << Entry(1, 3, 1), Entry(10, 10, 1), Entry(4, 4, 1) >>),
    MapTag(28, << Entry(3, 9, 1), Entry(6, 6, 5) >>),
    MapTag(24, << Entry(0, 20, 1), Entry(20, 4, 3) >>) }

\* The tags one after the other, as a boot loader puts them.
Placed(tgs) ==
  LET at[i \in DOMAIN tgs] == IF i = 1 THEN 8 ELSE at[i - 1] + Align8(tgs[i - 1].size)
  IN  [i \in DOMAIN tgs |-> tgs[i] @@ [at |-> at[i]]]

mcInfos ==
  { << >> } \cup
  { Placed(Append(tgs, [type |-> "end", size |-> 8])) :
      tgs \in UNION {[1 .. n -> mcTags] : n \in 0 .. 3} }

mcTextMode == <<2, 1>>

mcProcessCounts == {1, 6}

mcDataLens == {0, 3, 9}
=============================================================================
