---------------------------- MODULE MCSegments ------------------------------
(***************************************************************************)
(* Bytes of radix 4.  The layouts have different digits in all places, and *)
(* kernel stacks that are aligned and not (they are arrays of bytes).      *)
(***************************************************************************)
EXTENDS Segments

mcLayouts ==
  [code : {23018}, tss : {4718}, boot_stack : {16384}, user_stack : {20001},
   kernel_stack : {8192}, ist_stack0 : {10255}]
  \cup
  [code : {40009}, tss : {50587}, boot_stack : {16384}, user_stack : {20001},
   kernel_stack : {8199}, ist_stack0 : {10240}]

\* Without and with an error code, on a stack of its own.
mcExceptions == {2, 6, 8, 13, 14, 17}

mcIrqs == {0, 1, 15}

\* The system call, a gate of ring 0, none.
mcInts == {128, 3, 48}
=============================================================================
