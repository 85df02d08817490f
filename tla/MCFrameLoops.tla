---------------------------- MODULE MCFrameLoops ----------------------------
(***************************************************************************)
(* Every allocator value of four pages that satisfies the invariants, and  *)
(* every call on it; init on maps with unaligned, overlapping, reserved,   *)
(* out-of-range and wrapping entries.                                      *)
(***************************************************************************)
EXTENDS FrameLoops

mcEntries ==
  [base : {0, 1, 5}, length : {0, 3, 5, 12}, mem_type : {"Available", "Reserved"}]

mcMemoryMaps == {<< >>} \cup {<<e>> : e \in mcEntries} \cup (mcEntries \X mcEntries)

mcStarts == 0 .. MAX_PAGES

mcCounts == 0 .. MAX_PAGES + 1
=============================================================================
