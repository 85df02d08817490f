------------------------------- MODULE MCHeap -------------------------------
(***************************************************************************)
(* Tables of three entries and two identity page directories: 18 frames of *)
(* three words, huge pages of three frames.  The heap starts at the third  *)
(* huge page, one huge page long, and may grow to eight frames, so that    *)
(* the cap cuts the last extension short.                                  *)
(***************************************************************************)
EXTENDS Heap

mcKPD == [i \in 0 .. 1 |-> 3 + i]

Entry(base, length, type) ==
  [base |-> base, length |-> length, mem_type |-> type]

\* The frames above the kernel: enough for the largest heap, and frames for
\* the initial heap and less than two extensions.
mcMemoryMaps ==
  { << Entry(0, 3, "Available"), Entry(3, 12, "Kernel"), Entry(15, 39, "Available") >>,
    << Entry(15, 21, "Available") >> }

mcLayouts == [size : {4, 9}, align : {1, 3}]

mcBigLayouts == [size : {6, 12}, align : {1}]

mcIrqLayouts == [size : {2}, align : {1}]
=============================================================================
