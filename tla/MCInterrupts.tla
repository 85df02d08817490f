---------------------------- MODULE MCInterrupts ----------------------------
(***************************************************************************)
(* The timer, the keyboard and the last lines of both controllers, which   *)
(* spurious interrupts use as well.                                        *)
(***************************************************************************)
EXTENDS Interrupts

mcIrqs == {0, 1, 7, 15}

mcNoIrqs == {}

mcPasses == {FALSE}

mcFails == {TRUE}
=============================================================================
