--------------------------- MODULE ProcessManager ---------------------------
(***************************************************************************)
(* The process manager of kernel/src/proc/manager.rs: process identifiers  *)
(* are handed out from a bitmap of WORDS words of WORD bits.  Processes    *)
(* are never removed.                                                      *)
(***************************************************************************)
EXTENDS Integers, Sequences, FiniteSets, FiniteSetsExt

CONSTANTS
  WORD,    \* bits of a word of the bitmap, 64 in the code
  WORDS    \* words of the bitmap, MAX_PROCESSES / 64 = 16 in the code

ASSUME WordAssumption  == WORD \in Nat \ {0}
ASSUME WordsAssumption == WORDS \in Nat \ {0}

MAX_PROCESSES == WORDS * WORD

VARIABLES
  processes,       \* the vector of processes, as their pids
  process_bitmap   \* the numbers of the set bits of each word

managerVars == <<processes, process_bitmap>>

Bits == 0 .. WORD - 1

\* Manager::new reserves pid 0 for the kernel.
ManagerInit ==
  /\ processes = << >>
  /\ process_bitmap = [i \in 0 .. WORDS - 1 |-> IF i = 0 THEN {0} ELSE {}]

\* The clear bits of a word; the loop skips words that equal u64::MAX.
FreeBits(i) == Bits \ process_bitmap[i]

\* The pids whose bit is clear, found word after word and bit after bit.
FreePids == UNION {{i * WORD + j : j \in FreeBits(i)} : i \in 0 .. WORDS - 1}

\* Mutant: the bit is not set.
WithBit_forgotten(pid) == process_bitmap

WithBit(pid) == [process_bitmap EXCEPT ![pid \div WORD] = @ \cup {pid % WORD}]

\* Manager::create_process, unless there is "No more PIDs available".
create_process ==
  /\ FreePids # {}
  /\ process_bitmap' = WithBit(Min(FreePids))
  /\ processes' = Append(processes, Min(FreePids))

\* The place in the vector where get_process finds a pid, or 0.
get_process(pid) ==
  LET found == {n \in DOMAIN processes : processes[n] = pid}
  IN  IF found = {} THEN 0 ELSE Min(found)

----------------------------------------------------------------------------
\* The bitmap says exactly which pids are in use, the kernel's pid 0 among
\* them, and each process is found under its own pid: no pid is given away
\* twice, and create_process finds one as long as one was never given away.
PidsAccounted ==
  /\ (0 .. MAX_PROCESSES - 1) \ FreePids = {0} \cup {processes[n] : n \in DOMAIN processes}
  /\ get_process(0) = 0
  /\ \A n \in DOMAIN processes : get_process(processes[n]) = n
=============================================================================
