---------------------------- MODULE KernelProofs ----------------------------
(***************************************************************************)
(* Proofs about Kernel, for every Multiboot2 information, every number of  *)
(* processes and every size of the bitmaps and buffers, and about          *)
(* Segments, for every layout, radix of an address and size of the stacks, *)
(* and for any interrupts, exceptions and traps.                           *)
(***************************************************************************)
EXTENDS Kernel, Segments, FramesProofs, SequenceTheorems

----------------------------------------------------------------------------
(* Process identifiers.                                                    *)

\* A pid below MAX_PROCESSES is a word of the bitmap and a bit of it.
LEMMA PidParts ==
  /\ MAX_PROCESSES \in Nat \ {0}
  /\ \A i \in 0 .. WORDS - 1, j \in Bits :
       /\ i * WORD + j \in 0 .. MAX_PROCESSES - 1
       /\ (i * WORD + j) \div WORD = i
       /\ (i * WORD + j) % WORD = j
  /\ \A p \in 0 .. MAX_PROCESSES - 1 :
       /\ p \div WORD \in 0 .. WORDS - 1
       /\ p % WORD \in Bits
       /\ p = (p \div WORD) * WORD + (p % WORD)
<1> USE WordAssumption, WordsAssumption
<1>1. MAX_PROCESSES \in Nat \ {0}
  BY DEF MAX_PROCESSES
<1>2. ASSUME NEW i \in 0 .. WORDS - 1, NEW j \in Bits
      PROVE  /\ i * WORD + j \in 0 .. MAX_PROCESSES - 1
             /\ (i * WORD + j) \div WORD = i
             /\ (i * WORD + j) % WORD = j
  <2>1. PICK k \in Nat : WORDS = i + 1 + k
    <3>1. WORDS - i - 1 \in Nat /\ WORDS = i + 1 + (WORDS - i - 1)
      OBVIOUS
    <3> QED
      BY <3>1
  <2>2. WORDS * WORD = i * WORD + WORD + k * WORD
    BY <2>1
  <2>3. i * WORD \in Nat /\ k * WORD \in Nat /\ j \in 0 .. WORD - 1
    BY <2>1 DEF Bits
  <2>4. i * WORD + j \in 0 .. MAX_PROCESSES - 1
    BY <2>2, <2>3 DEF MAX_PROCESSES
  <2>5. i \in Nat
    OBVIOUS
  <2>6. (i * WORD + j) \div WORD = i /\ (i * WORD + j) % WORD = j
    BY <2>3, <2>5, Parts
  <2> QED
    BY <2>4, <2>6
<1>3. ASSUME NEW p \in 0 .. MAX_PROCESSES - 1
      PROVE  /\ p \div WORD \in 0 .. WORDS - 1
             /\ p % WORD \in Bits
             /\ p = (p \div WORD) * WORD + (p % WORD)
  <2> DEFINE q == p \div WORD
  <2>1. /\ q \in Nat /\ p % WORD \in 0 .. WORD - 1
        /\ p = q * WORD + (p % WORD)
    <3>1. p \in Nat
      BY <1>1
    <3> QED
      BY <3>1, Division
  <2> HIDE DEF q
  <2>2. q < WORDS
    <3> SUFFICES ASSUME q >= WORDS PROVE FALSE
      BY <2>1
    <3>1. PICK k \in Nat : q = WORDS + k
      <4>1. q - WORDS \in Nat /\ q = WORDS + (q - WORDS)
        BY <2>1
      <4> QED
        BY <4>1
    <3>2. q * WORD = WORDS * WORD + k * WORD
      BY <3>1
    <3>3. k * WORD \in Nat
      BY <3>1
    <3> QED
      BY <1>1, <2>1, <3>2, <3>3 DEF MAX_PROCESSES
  <2>3. q \in 0 .. WORDS - 1
    BY <2>1, <2>2
  <2> QED
    BY <2>1, <2>3 DEF q, Bits
<1> QED
  BY <1>1, <1>2, <1>3

\* A bit is set for the kernel and for every process made so far, and no two
\* processes have the same pid.
PidInv ==
  /\ processes \in Seq(1 .. MAX_PROCESSES - 1)
  /\ process_bitmap \in [0 .. WORDS - 1 -> SUBSET Bits]
  /\ \A i \in 0 .. WORDS - 1, j \in Bits :
       j \in process_bitmap[i] <=>
         i * WORD + j = 0 \/ \E n \in DOMAIN processes : processes[n] = i * WORD + j
  /\ \A m, n \in DOMAIN processes : processes[m] = processes[n] => m = n

\* The free pids are those nobody has.
LEMMA FreePidsAre ==
  ASSUME PidInv
  PROVE  /\ FreePids \subseteq 0 .. MAX_PROCESSES - 1
         /\ \A p \in 0 .. MAX_PROCESSES - 1 :
              p \in FreePids <=> p # 0 /\ \A n \in DOMAIN processes : processes[n] # p
<1>1. ASSUME NEW p \in FreePids
      PROVE  \E i \in 0 .. WORDS - 1, j \in Bits :
               p = i * WORD + j /\ j \notin process_bitmap[i]
  BY <1>1 DEF FreePids, FreeBits
<1>2. ASSUME NEW i \in 0 .. WORDS - 1, NEW j \in Bits, j \notin process_bitmap[i]
      PROVE  i * WORD + j \in FreePids
  BY <1>2 DEF FreePids, FreeBits
<1>3. FreePids \subseteq 0 .. MAX_PROCESSES - 1
  BY <1>1, PidParts
<1>4. ASSUME NEW p \in 0 .. MAX_PROCESSES - 1, p \in FreePids
      PROVE  p # 0 /\ \A n \in DOMAIN processes : processes[n] # p
  <2>1. PICK i \in 0 .. WORDS - 1, j \in Bits :
          p = i * WORD + j /\ j \notin process_bitmap[i]
    BY <1>4, <1>1
  <2> QED
    BY <2>1 DEF PidInv
<1>5. ASSUME NEW p \in 0 .. MAX_PROCESSES - 1,
             p # 0, \A n \in DOMAIN processes : processes[n] # p
      PROVE  p \in FreePids
  <2>1. PICK i \in 0 .. WORDS - 1, j \in Bits : p = i * WORD + j
    BY PidParts
  <2>2. j \notin process_bitmap[i]
    BY <1>5, <2>1 DEF PidInv
  <2> QED
    BY <2>1, <2>2, <1>2
<1> QED
  BY <1>3, <1>4, <1>5

\* create_process gives a pid nobody has, and sets its bit.
LEMMA CreateKeepsPids ==
  ASSUME PidInv, create_process
  PROVE  PidInv'
<1> DEFINE pid == Min(FreePids)
<1>1. pid \in FreePids
  <2>1. FreePids \in SUBSET Nat
    BY FreePidsAre, PidParts
  <2> QED
    BY <2>1, MinIsLeast DEF create_process
<1>2. /\ pid \in 1 .. MAX_PROCESSES - 1
      /\ \A n \in DOMAIN processes : processes[n] # pid
  BY <1>1, FreePidsAre, PidParts
<1>3. /\ processes' = Append(processes, pid)
      /\ process_bitmap' = [process_bitmap EXCEPT ![pid \div WORD] = @ \cup {pid % WORD}]
  BY DEF create_process, WithBit
<1> HIDE DEF pid
<1>4. /\ processes' \in Seq(1 .. MAX_PROCESSES - 1)
      /\ DOMAIN processes' = DOMAIN processes \cup {Len(processes) + 1}
      /\ \A n \in DOMAIN processes : processes'[n] = processes[n]
      /\ processes'[Len(processes) + 1] = pid
      /\ Len(processes) + 1 \notin DOMAIN processes
  BY <1>2, <1>3, AppendProperties DEF PidInv
<1>5. /\ pid \div WORD \in 0 .. WORDS - 1 /\ pid % WORD \in Bits
      /\ pid = (pid \div WORD) * WORD + (pid % WORD)
  BY <1>2, PidParts
<1>6. process_bitmap' \in [0 .. WORDS - 1 -> SUBSET Bits]
  BY <1>3, <1>5 DEF PidInv
<1>7. ASSUME NEW i \in 0 .. WORDS - 1, NEW j \in Bits
      PROVE  j \in process_bitmap'[i] <=>
               j \in process_bitmap[i] \/ i * WORD + j = pid
  <2>1. i * WORD + j = pid => i = pid \div WORD /\ j = pid % WORD
    BY PidParts
  <2>2. i = pid \div WORD /\ j = pid % WORD => i * WORD + j = pid
    BY <1>5
  <2>3. j \in process_bitmap'[i] <=>
          j \in process_bitmap[i] \/ (i = pid \div WORD /\ j = pid % WORD)
    BY <1>3, <1>5 DEF PidInv
  <2> QED
    BY <2>1, <2>2, <2>3
<1>8. ASSUME NEW i \in 0 .. WORDS - 1, NEW j \in Bits
      PROVE  j \in process_bitmap'[i] <=>
               i * WORD + j = 0 \/ \E n \in DOMAIN processes' : processes'[n] = i * WORD + j
  <2> DEFINE p == i * WORD + j
  <2>1. j \in process_bitmap[i] <=> p = 0 \/ \E n \in DOMAIN processes : processes[n] = p
    BY DEF PidInv
  <2>2. j \in process_bitmap'[i] <=> j \in process_bitmap[i] \/ p = pid
    BY <1>7
  <2> HIDE DEF p
  <2>3. (\E n \in DOMAIN processes' : processes'[n] = p)
          <=> (\E n \in DOMAIN processes : processes[n] = p) \/ p = pid
    BY <1>4
  <2>4. j \in process_bitmap'[i] <=> p = 0 \/ \E n \in DOMAIN processes' : processes'[n] = p
    BY <2>1, <2>2, <2>3
  <2> QED
    BY <2>4 DEF p
<1>9. \A m, n \in DOMAIN processes' : processes'[m] = processes'[n] => m = n
  <2>1. \A m, n \in DOMAIN processes : processes[m] = processes[n] => m = n
    BY DEF PidInv
  <2> QED
    BY <1>2, <1>4, <2>1
<1> QED
  BY <1>4, <1>6, <1>8, <1>9 DEF PidInv

\* The invariant of the process table holds at the start.
LEMMA InitPids == Init => PidInv
<1> SUFFICES ASSUME Init PROVE PidInv
  OBVIOUS
<1>1. /\ processes = << >>
      /\ process_bitmap = [i \in 0 .. WORDS - 1 |-> IF i = 0 THEN {0} ELSE {}]
  BY DEF Init, ManagerInit
<1>2. processes \in Seq(1 .. MAX_PROCESSES - 1) /\ DOMAIN processes = {}
  BY <1>1
<1>3. 0 \in Bits
  BY WordAssumption DEF Bits
<1>4. process_bitmap \in [0 .. WORDS - 1 -> SUBSET Bits]
  BY <1>1, <1>3
<1>5. ASSUME NEW i \in 0 .. WORDS - 1, NEW j \in Bits
      PROVE  j \in process_bitmap[i] <=> i * WORD + j = 0
  <2>1. i = 0 /\ j = 0 => i * WORD + j = 0
    BY WordAssumption
  <2>2. i * WORD + j = 0 => i = 0 /\ j = 0
    <3> SUFFICES ASSUME i * WORD + j = 0 PROVE i = 0 /\ j = 0
      OBVIOUS
    <3>1. 0 \div WORD = i /\ 0 % WORD = j
      BY PidParts
    <3> QED
      BY <3>1, WordAssumption
  <2>3. j \in process_bitmap[i] <=> i = 0 /\ j = 0
    BY <1>1
  <2> QED
    BY <2>1, <2>2, <2>3
<1> QED
  BY <1>2, <1>4, <1>5 DEF PidInv

\* Every step keeps it.
LEMMA NextPids ==
  ASSUME PidInv, [Next]_vars
  PROVE  PidInv'
<1>1. CASE CreateProcess
  BY <1>1, CreateKeepsPids DEF CreateProcess
<1>2. CASE UNCHANGED managerVars
  BY <1>2 DEF managerVars, PidInv, Bits, MAX_PROCESSES
<1>3. CreateProcess \/ UNCHANGED managerVars
  BY DEF Next, MainFlow, Halted, OtherSync, OtherWrite, InitHeap, InitDrivers,
         NoMorePids, EnterLoop, Draw, Sync, Astray, vars
<1> QED
  BY <1>1, <1>2, <1>3

\* Whatever kernel_main asks for, the bitmap says exactly which pids are in
\* use, no pid is given away twice, and get_process finds each process.
THEOREM PidsCorrect == Spec => []PidsAccounted
<1>1. PidInv => PidsAccounted
  <2> SUFFICES ASSUME PidInv PROVE PidsAccounted
    OBVIOUS
  <2>1. \A n \in DOMAIN processes : processes[n] \in 1 .. MAX_PROCESSES - 1
    BY ElementOfSeq, LenProperties DEF PidInv
  <2>2. (0 .. MAX_PROCESSES - 1) \ FreePids
          = {0} \cup {processes[n] : n \in DOMAIN processes}
    BY <2>1, FreePidsAre, PidParts
  <2>3. get_process(0) = 0
    BY <2>1 DEF get_process
  <2>4. ASSUME NEW n \in DOMAIN processes
        PROVE  get_process(processes[n]) = n
    <3> DEFINE found == {m \in DOMAIN processes : processes[m] = processes[n]}
    <3>1. found = {n}
      BY DEF PidInv
    <3>2. n \in Nat
      BY DEF PidInv
    <3>3. Min(found) \in found
      <4>1. found \in SUBSET Nat /\ found # {}
        BY <3>1, <3>2
      <4> QED
        BY <4>1, MinIsLeast
    <3>4. get_process(processes[n]) = Min(found)
      BY <3>1 DEF get_process
    <3> HIDE DEF found
    <3> QED
      BY <3>1, <3>3, <3>4
  <2> QED
    BY <2>2, <2>3, <2>4 DEF PidsAccounted
<1> QED
  BY <1>1, InitPids, NextPids, PTL DEF Spec

----------------------------------------------------------------------------
(* The walk over the tags.                                                 *)

\* The kernel's form of an entry of a tag.
Converted(e) ==
  [base |-> e.base, length |-> e.length, mem_type |-> MemoryType(e.mb_type)]

\* The first n places of the buffer hold the first n entries of tag j.
Filled(j, n) ==
  \A i \in 0 .. n - 1 : MEMORY_MAP_BUFFER[i] = Converted(info[j].entries[i + 1])

\* Tag j is the last memory map among the first n tags.
LastMap(n, j) ==
  /\ j \in 1 .. n /\ info[j].type = "memory_map"
  /\ \A i \in j + 1 .. n : info[i].type # "memory_map"

\* The map is that of the last memory map among the first n tags.
MapOf(n) ==
  \/ /\ \A i \in 1 .. n : info[i].type # "memory_map"
     /\ MEMORY_MAP_COUNT = 0
  \/ \E j \in 1 .. n :
       /\ LastMap(n, j)
       /\ MEMORY_MAP_COUNT <= CAP /\ MEMORY_MAP_COUNT <= Len(info[j].entries)
       /\ MEMORY_MAP_COUNT = CAP \/ MEMORY_MAP_COUNT = Len(info[j].entries)
       /\ Filled(j, MEMORY_MAP_COUNT)

\* The walk stands at the start of tag k.
At(k) == k \in DOMAIN info /\ info[k].at = addr

\* Where the walk is, and what it has stored by then: all of the maps in
\* front of the tag, or the first entries of the map it is in.
WalkInv ==
  /\ info = << >> \/ LaidOut(info)
  /\ MEMORY_MAP_BUFFER = [i \in 0 .. CAP - 1 |-> MEMORY_MAP_BUFFER[i]]
  /\ MEMORY_MAP_COUNT \in 0 .. CAP
  /\ pc = "tags" => /\ LaidOut(info)
                    /\ \E k \in DOMAIN info : At(k) /\ MapOf(k - 1)
  /\ pc = "entries" =>
       /\ LaidOut(info)
       /\ count \in 0 .. CAP
       /\ \E k \in DOMAIN info :
            /\ At(k)
            /\ info[k].type = "memory_map"
            /\ count <= Len(info[k].entries)
            /\ entry_addr = addr + 16 + count * info[k].entry_size
            /\ Filled(k, count)
  /\ pc = "parsed" =>
       \/ info = << >> /\ MEMORY_MAP_COUNT = 0
       \/ LaidOut(info) /\ MapOf(Len(info))

\* The walk reads the tag it stands at; unless that is the last, the next tag
\* follows where it looks for it; and no tag lies behind the end.
LEMMA TagHere ==
  ASSUME LaidOut(info), NEW k, At(k)
  PROVE  /\ k \in 1 .. Len(info) /\ Len(info) \in Nat
         /\ Tag = info[k]
         /\ k < Len(info) => k + 1 \in DOMAIN info /\ info[k + 1].at = Following
         /\ addr \in Nat /\ total_size \in Nat /\ addr < total_size
<1> DEFINE n     == Len(info)
           at(i) == info[i].at
           sz(i) == info[i].size
<1>1. n \in Nat \ {0} /\ DOMAIN info = 1 .. n
  BY DEF LaidOut
<1>2. \A i \in 1 .. n : at(i) \in Nat /\ sz(i) \in Nat \ (0 .. 7)
  BY <1>1 DEF LaidOut
<1>3. \A i, j \in 1 .. n : i < j => at(i) + sz(i) <= at(j)
  BY <1>1 DEF LaidOut
<1>4. \A i \in 1 .. n : i < n => at(i + 1) = at(i) + Align8(sz(i))
  BY <1>1 DEF LaidOut, Align8
<1>5. k \in 1 .. n /\ at(k) = addr
  BY <1>1 DEF At
<1>6. Following = addr + Align8(Tag.size)
  BY DEF Following
<1>7. total_size = at(n) + Align8(sz(n))
  BY DEF total_size
<1>8. Tag = info[k]
  <2>1. \A i \in 1 .. n : at(i) = addr => i = k
    <3> HIDE DEF n, at, sz
    <3> SUFFICES ASSUME NEW i \in 1 .. n, at(i) = addr, i # k
                 PROVE  FALSE
      OBVIOUS
    <3>1. i < k \/ k < i
      BY <1>1, <1>5
    <3> QED
      BY <1>1, <1>2, <1>3, <1>5, <3>1
  <2>2. (CHOOSE i \in DOMAIN info : info[i].at = addr) = k
    <3>1. \A i \in DOMAIN info : info[i].at = addr <=> i = k
      BY <1>1, <1>5, <2>1
    <3>2. k \in DOMAIN info
      BY <1>1, <1>5
    <3> QED
      BY <3>1, <3>2
  <2> QED
    BY <2>2 DEF Tag
<1>9. Tag.size = sz(k)
  BY <1>8
<1>10. k < n => k + 1 \in DOMAIN info /\ at(k + 1) = Following
  <2> HIDE DEF n, at, sz
  <2> QED
    BY <1>1, <1>4, <1>5, <1>6, <1>9
<1>11. total_size \in Nat /\ addr < total_size
  <2>1. sz(n) <= Align8(sz(n)) /\ Align8(sz(n)) \in Nat
    BY <1>1, <1>2 DEF Align8
  <2> HIDE DEF n, at, sz
  <2>2. n \in 1 .. n /\ (k < n \/ k = n)
    BY <1>1, <1>5
  <2>3. addr <= at(n)
    BY <1>2, <1>3, <1>5, <2>2
  <2> QED
    BY <1>2, <1>5, <1>7, <2>1, <2>2, <2>3
<1>12. addr \in Nat
  BY <1>2, <1>5
<1> QED
  BY <1>1, <1>5, <1>8, <1>10, <1>11, <1>12

\* What the walk knows of a memory map it stands at.
LEMMA MapHere ==
  ASSUME LaidOut(info), NEW k, At(k), info[k].type = "memory_map"
  PROVE  /\ Len(info[k].entries) \in Nat
         /\ info[k].entry_size \in Nat \ {0}
         /\ info[k].size = 16 + Len(info[k].entries) * info[k].entry_size
<1>1. k \in DOMAIN info
  BY DEF At
<1> QED
  BY <1>1 DEF LaidOut

\* A tag that is not the end tag is not the last.
LEMMA NotLast ==
  ASSUME LaidOut(info), NEW k, At(k), info[k].type # "end"
  PROVE  k < Len(info)
<1>1. k \in DOMAIN info
  BY DEF At
<1>2. info[k].type = "end" <=> k = Len(info)
  BY <1>1 DEF LaidOut
<1> QED
  BY <1>2, TagHere

\* The invariant of the walk over the tags holds at the start.
LEMMA InitWalk == Init => WalkInv
<1> SUFFICES ASSUME Init PROVE WalkInv
  OBVIOUS
<1>1. /\ info \in Infos /\ addr = 8
      /\ MEMORY_MAP_BUFFER = [i \in 0 .. CAP - 1 |-> Unused]
      /\ MEMORY_MAP_COUNT = 0
      /\ pc = IF info = << >> THEN "parsed" ELSE "tags"
  BY DEF Init, BootInit
<1>2. info = << >> \/ LaidOut(info)
  BY <1>1, InfosAssumption
<1>3. MEMORY_MAP_COUNT \in 0 .. CAP
  BY <1>1, BootAssumption
<1>4. MEMORY_MAP_BUFFER = [i \in 0 .. CAP - 1 |-> MEMORY_MAP_BUFFER[i]]
  BY <1>1
<1>5. ASSUME info # << >>
      PROVE  LaidOut(info) /\ At(1) /\ MapOf(1 - 1)
  <2>1. LaidOut(info) /\ At(1)
    BY <1>1, <1>2, <1>5 DEF LaidOut, At
  <2>2. MapOf(0)
    BY <1>1 DEF MapOf
  <2> QED
    BY <2>1, <2>2
<1> QED
  BY <1>1, <1>2, <1>3, <1>4, <1>5 DEF WalkInv, At

\* A tag that is no memory map leaves the map as it was.
LEMMA MapOfNext ==
  ASSUME NEW k \in Nat \ {0}, MapOf(k - 1), info[k].type # "memory_map"
  PROVE  MapOf(k)
<1>1. \A i \in 1 .. k : i \in 1 .. k - 1 \/ i = k
  OBVIOUS
<1>2. CASE \A i \in 1 .. k - 1 : info[i].type # "memory_map"
  <2>1. MEMORY_MAP_COUNT = 0
    <3>1. ~ \E j \in 1 .. k - 1 : LastMap(k - 1, j)
      BY <1>2 DEF LastMap
    <3> QED
      BY <3>1 DEF MapOf
  <2> QED
    BY <1>1, <1>2, <2>1 DEF MapOf
<1>3. ASSUME NEW j \in 1 .. k - 1, LastMap(k - 1, j)
      PROVE  j \in 1 .. k /\ LastMap(k, j)
  BY <1>1, <1>3 DEF LastMap
<1> QED
  BY <1>2, <1>3 DEF MapOf

\* What is said of the map and of the place of the walk depends on the tags,
\* the buffer, the counter and the address only.
LEMMA MapOfSame ==
  ASSUME info' = info, MEMORY_MAP_BUFFER' = MEMORY_MAP_BUFFER,
         MEMORY_MAP_COUNT' = MEMORY_MAP_COUNT, NEW n
  PROVE  MapOf(n)' <=> MapOf(n)
BY DEF MapOf, LastMap, Filled


\* The steps of the walk over a tag that is no memory map.
LEMMA OverTag ==
  ASSUME WalkInv, pc = "tags", NEW k, At(k), MapOf(k - 1), LaidOut(info),
         Tag.type \notin {"memory_map", "end"}, pc' = pc, addr' = Following,
         UNCHANGED <<info, MEMORY_MAP_BUFFER, MEMORY_MAP_COUNT>>
  PROVE  WalkInv'
<1>1. Tag = info[k] /\ k \in 1 .. Len(info) /\ Len(info) \in Nat
  BY TagHere
<1>2. k < Len(info)
  BY <1>1, NotLast
<1>3. k + 1 \in DOMAIN info /\ info[k + 1].at = Following
  BY <1>2, TagHere
<1>4. MapOf((k + 1) - 1)
  <2>1. MapOf(k)
    BY <1>1, MapOfNext
  <2>2. (k + 1) - 1 = k
    BY <1>1
  <2> QED
    BY <2>1, <2>2
<1>5. At(k + 1)' /\ MapOf((k + 1) - 1)' /\ k + 1 \in DOMAIN info'
  BY <1>3, <1>4, MapOfSame DEF At
<1>6. LaidOut(info')
  BY DEF LaidOut
<1> QED
  BY <1>5, <1>6 DEF WalkInv

\* One entry of a memory map is read into its place.
LEMMA ReadKeepsWalk ==
  ASSUME WalkInv, ReadEntry
  PROVE  WalkInv'
<1>1. pc = "entries" /\ EntryFits
  BY DEF ReadEntry
<1>2. LaidOut(info) /\ count \in 0 .. CAP
  BY <1>1 DEF WalkInv
<1>3. PICK k \in DOMAIN info :
        /\ At(k) /\ info[k].type = "memory_map"
        /\ count <= Len(info[k].entries)
        /\ entry_addr = addr + 16 + count * info[k].entry_size
        /\ Filled(k, count)
  BY <1>1 DEF WalkInv
<1>4. Tag = info[k] /\ addr \in Nat
  BY <1>2, <1>3, TagHere
<1> DEFINE es == info[k].entry_size
           n  == Len(info[k].entries)
<1>5. n \in Nat /\ es \in Nat \ {0} /\ info[k].size = 16 + n * es
  BY <1>2, <1>3, MapHere
<1>6. EntryFits <=> entry_addr + es <= addr + (16 + n * es) /\ count < CAP
  BY <1>4, <1>5 DEF EntryFits
<1>7. EntryHere = info[k].entries[(entry_addr - (addr + 16)) \div es + 1]
  BY <1>4 DEF EntryHere
<1>8. entry_addr = addr + 16 + count * es /\ count <= n
  BY <1>3
<1>9. CAP \in Nat \ {0}
  BY BootAssumption
<1>10. /\ entry_addr' = entry_addr + es
       /\ count' = count + 1
       /\ MEMORY_MAP_BUFFER' = [MEMORY_MAP_BUFFER EXCEPT ![count] = Converted(EntryHere)]
       /\ UNCHANGED <<info, addr, MEMORY_MAP_COUNT, pc>>
  BY <1>4 DEF ReadEntry, Converted
<1> HIDE DEF es, n
<1>11. count \in Nat /\ count * es \in Nat /\ n * es \in Nat /\ (count + 1) * es = count * es + es
  BY <1>2, <1>5
<1>12. (count + 1) * es <= n * es /\ count < CAP
  BY <1>1, <1>4, <1>5, <1>6, <1>8, <1>11
<1>13. count + 1 <= n
  BY <1>5, <1>11, <1>12, ProductOrder
<1>14. EntryHere = info[k].entries[count + 1]
  <2>1. entry_addr - (addr + 16) = count * es + 0
    BY <1>4, <1>8, <1>11
  <2>2. (count * es + 0) \div es = count
    BY <1>5, <1>11, Parts
  <2> QED
    BY <1>7, <2>1, <2>2
<1>15. entry_addr' = addr + 16 + (count + 1) * es
  BY <1>4, <1>5, <1>8, <1>10, <1>11
<1>16. Filled(k, count)'
  <2>1. MEMORY_MAP_BUFFER'[count] = Converted(info[k].entries[count + 1])
    BY <1>9, <1>10, <1>11, <1>12, <1>14 DEF WalkInv
  <2>2. \A i \in 0 .. count - 1 : MEMORY_MAP_BUFFER'[i] = MEMORY_MAP_BUFFER[i]
    BY <1>10, <1>11
  <2>3. \A i \in 0 .. count - 1 :
          MEMORY_MAP_BUFFER[i] = Converted(info[k].entries[i + 1])
    BY <1>3 DEF Filled
  <2>4. \A i \in 0 .. (count + 1) - 1 : i \in 0 .. count - 1 \/ i = count
    BY <1>11
  <2>5. \A i \in 0 .. (count + 1) - 1 :
          MEMORY_MAP_BUFFER'[i] = Converted(info[k].entries[i + 1])
    BY <2>1, <2>2, <2>3, <2>4
  <2>6. info' = info /\ count' = count + 1
    BY <1>10
  <2>7. \A i \in 0 .. count' - 1 :
          MEMORY_MAP_BUFFER'[i] = Converted(info'[k].entries[i + 1])
    BY <2>5, <2>6
  <2> QED
    BY <2>7 DEF Filled, Converted, MemoryType
<1>17. At(k)' /\ k \in DOMAIN info' /\ info'[k].type = "memory_map"
  BY <1>3, <1>10 DEF At
<1>18. /\ count' \in 0 .. CAP /\ count' <= Len(info'[k].entries)
       /\ entry_addr' = addr' + 16 + count' * info'[k].entry_size
  BY <1>9, <1>10, <1>11, <1>12, <1>13, <1>15 DEF n, es
<1>19. MEMORY_MAP_BUFFER' = [i \in 0 .. CAP - 1 |-> MEMORY_MAP_BUFFER'[i]]
  BY <1>10 DEF WalkInv
<1>20. LaidOut(info')
  BY <1>2, <1>10
<1> QED
  BY <1>1, <1>10, <1>16, <1>17, <1>18, <1>19, <1>20 DEF WalkInv

\* The counter is set once the loop over the entries ends: at the end of the
\* tag or of the buffer.
LEMMA EndKeepsWalk ==
  ASSUME WalkInv, EndOfEntries
  PROVE  WalkInv'
<1>1. pc = "entries" /\ ~ EntryFits
  BY DEF EndOfEntries
<1>2. LaidOut(info) /\ count \in 0 .. CAP
  BY <1>1 DEF WalkInv
<1>3. PICK k \in DOMAIN info :
        /\ At(k) /\ info[k].type = "memory_map"
        /\ count <= Len(info[k].entries)
        /\ entry_addr = addr + 16 + count * info[k].entry_size
        /\ Filled(k, count)
  BY <1>1 DEF WalkInv
<1>4. Tag = info[k] /\ addr \in Nat /\ k \in 1 .. Len(info) /\ Len(info) \in Nat
  BY <1>2, <1>3, TagHere
<1> DEFINE es == info[k].entry_size
           n  == Len(info[k].entries)
<1>5. n \in Nat /\ es \in Nat \ {0} /\ info[k].size = 16 + n * es
  BY <1>2, <1>3, MapHere
<1>6. EntryFits <=> entry_addr + es <= addr + (16 + n * es) /\ count < CAP
  BY <1>4, <1>5 DEF EntryFits
<1>8. entry_addr = addr + 16 + count * es /\ count <= n
  BY <1>3
<1>9. CAP \in Nat \ {0}
  BY BootAssumption
<1>10. /\ MEMORY_MAP_COUNT' = count
       /\ addr' = Following
       /\ pc' = "tags"
       /\ UNCHANGED <<info, MEMORY_MAP_BUFFER>>
  BY DEF EndOfEntries
<1>11. k < Len(info) /\ k + 1 \in DOMAIN info /\ info[k + 1].at = Following
  BY <1>2, <1>3, NotLast, TagHere
<1>12. count = CAP \/ count = n
  <2> HIDE DEF es, n
  <2> SUFFICES ASSUME count < CAP, count < n
               PROVE  FALSE
    BY <1>2, <1>5, <1>8, <1>9
  <2>1. count \in Nat /\ count * es \in Nat /\ n * es \in Nat
        /\ (count + 1) * es = count * es + es
    BY <1>2, <1>5
  <2>2. count + 1 <= n
    BY <1>5, <2>1
  <2>3. (count + 1) * es <= n * es
    BY <1>5, <2>1, <2>2, ProductOrder
  <2> QED
    BY <1>1, <1>4, <1>5, <1>6, <1>8, <2>1, <2>3
<1>13. LastMap(k, k)
  BY <1>3, <1>4 DEF LastMap
<1>14. MapOf(k)'
  <2>1. LastMap(k, k)'
    BY <1>10, <1>13 DEF LastMap
  <2>2. Filled(k, MEMORY_MAP_COUNT)'
    BY <1>3, <1>10 DEF Filled
  <2>3. /\ MEMORY_MAP_COUNT' <= CAP /\ MEMORY_MAP_COUNT' <= Len(info'[k].entries)
        /\ MEMORY_MAP_COUNT' = CAP \/ MEMORY_MAP_COUNT' = Len(info'[k].entries)
    BY <1>2, <1>3, <1>9, <1>10, <1>12
  <2>4. k \in 1 .. k
    BY <1>4
  <2> QED
    BY <2>1, <2>2, <2>3, <2>4 DEF MapOf
<1>15. At(k + 1)' /\ k + 1 \in DOMAIN info' /\ MapOf((k + 1) - 1)'
  <2>1. (k + 1) - 1 = k
    BY <1>4
  <2> QED
    BY <1>10, <1>11, <1>14, <2>1 DEF At
<1>16. MEMORY_MAP_COUNT' \in 0 .. CAP
  BY <1>2, <1>10
<1>17. LaidOut(info')
  BY <1>2, <1>10
<1> QED
  BY <1>10, <1>15, <1>16, <1>17 DEF WalkInv

\* Every step keeps it.
LEMMA NextWalk ==
  ASSUME WalkInv, [Next]_vars
  PROVE  WalkInv'
<1>1. ASSUME EndOfTags
      PROVE  WalkInv'
  <2>1. /\ pc = "tags"
        /\ pc' = "parsed" /\ UNCHANGED <<info, MEMORY_MAP_BUFFER, MEMORY_MAP_COUNT>>
    BY <1>1 DEF EndOfTags, parser
  <2>2. LaidOut(info) /\ \E k \in DOMAIN info : At(k) /\ MapOf(k - 1)
    BY <2>1 DEF WalkInv, EndOfTags
  <2>3. PICK k \in DOMAIN info : At(k) /\ MapOf(k - 1)
    BY <2>2
  <2>4. /\ Tag = info[k] /\ k \in 1 .. Len(info) /\ Len(info) \in Nat
        /\ addr \in Nat /\ total_size \in Nat /\ addr < total_size
    BY <2>2, <2>3, TagHere
  <2>5. Tag.type = "end"
    <3>1. ~ (addr >= total_size)
      BY <2>4
    <3> QED
      BY <1>1, <3>1 DEF EndOfTags
  <2>6. k = Len(info)
    BY <2>2, <2>3, <2>4, <2>5 DEF LaidOut
  <2>7. MapOf(Len(info))
    BY <2>3, <2>4, <2>5, <2>6, MapOfNext
  <2>8. MapOf(Len(info))'
    BY <2>1, <2>7 DEF MapOf, LastMap, Filled
  <2> QED
    BY <2>1, <2>2, <2>8 DEF WalkInv
<1>2. ASSUME OtherTag
      PROVE  WalkInv'
  <2>1. /\ pc = "tags" /\ Tag.type = "other" /\ addr' = Following /\ pc' = pc
        /\ UNCHANGED <<info, MEMORY_MAP_BUFFER, MEMORY_MAP_COUNT>>
    BY <1>2 DEF OtherTag
  <2> QED
    BY <2>1, OverTag DEF WalkInv
<1>3. ASSUME FramebufferTag
      PROVE  WalkInv'
  <2>1. /\ pc = "tags" /\ Tag.type = "framebuffer"
        /\ UNCHANGED <<info, MEMORY_MAP_BUFFER, MEMORY_MAP_COUNT>>
        /\ (pc' = pc /\ addr' = Following) \/ pc' = "panicked"
    BY <1>3 DEF FramebufferTag
  <2>2. CASE pc' = pc /\ addr' = Following
    BY <2>1, <2>2, OverTag DEF WalkInv
  <2>3. CASE pc' = "panicked"
    BY <2>1, <2>3 DEF WalkInv
  <2> QED
    BY <2>1, <2>2, <2>3
<1>4. ASSUME MemoryMapTag
      PROVE  WalkInv'
  <2>1. /\ pc = "tags" /\ Tag.type = "memory_map" /\ entry_addr' = addr + 16
        /\ count' = 0 /\ pc' = "entries"
        /\ UNCHANGED <<info, addr, MEMORY_MAP_BUFFER, MEMORY_MAP_COUNT>>
    BY <1>4 DEF MemoryMapTag
  <2>2. LaidOut(info) /\ \E k \in DOMAIN info : At(k)
    BY <2>1 DEF WalkInv
  <2>3. PICK k \in DOMAIN info : At(k)
    BY <2>2
  <2>4. Tag = info[k] /\ addr \in Nat
    BY <2>2, <2>3, TagHere
  <2>5. Len(info[k].entries) \in Nat /\ info[k].entry_size \in Nat \ {0}
    BY <2>1, <2>2, <2>3, <2>4, MapHere
  <2>6. /\ At(k)' /\ k \in DOMAIN info' /\ info'[k].type = "memory_map"
    BY <2>1, <2>3, <2>4 DEF At
  <2>7. /\ count' \in 0 .. CAP /\ count' <= Len(info'[k].entries)
        /\ entry_addr' = addr' + 16 + count' * info'[k].entry_size
    BY <2>1, <2>4, <2>5, BootAssumption
  <2>8. Filled(k, count)'
    BY <2>1 DEF Filled
  <2> QED
    BY <2>1, <2>2, <2>6, <2>7, <2>8 DEF WalkInv
<1>5. ASSUME UNCHANGED <<info, MEMORY_MAP_BUFFER, MEMORY_MAP_COUNT>>,
             pc' \notin {"tags", "entries", "parsed"}
      PROVE  WalkInv'
  BY <1>5 DEF WalkInv
<1>6. ASSUME UNCHANGED bootVars
      PROVE  WalkInv'
  BY <1>6 DEF WalkInv, bootVars, At, MapOf, LastMap, Filled
<1>7. BootNext \/ ~ BootNext
  OBVIOUS
<1>8. ASSUME BootNext
      PROVE  WalkInv'
  <2>1. ASSUME parse_mem_map \/ InitFrames
        PROVE  WalkInv'
    BY <2>1, <1>5 DEF parse_mem_map, InitFrames, parser
  <2> QED
    BY <1>8, <1>1, <1>2, <1>3, <1>4, <2>1, ReadKeepsWalk, EndKeepsWalk DEF BootNext
<1>9. ASSUME \/ InitHeap \/ InitDrivers \/ CreateProcess \/ NoMorePids \/ EnterLoop
             \/ Draw \/ Sync \/ Astray
      PROVE  WalkInv'
  <2>1. UNCHANGED <<info, MEMORY_MAP_BUFFER, MEMORY_MAP_COUNT>>
    BY <1>9 DEF InitHeap, InitDrivers, CreateProcess, NoMorePids, EnterLoop, Draw, Sync,
                Astray, tags, parser
  <2>2. pc' \notin {"tags", "entries", "parsed"}
    BY <1>9 DEF InitHeap, InitDrivers, CreateProcess, NoMorePids, EnterLoop, Draw, Sync,
                Astray, panic
  <2> QED
    BY <2>1, <2>2, <1>5
<1>10. ASSUME Halted \/ OtherSync \/ (\E n \in DataLens : OtherWrite(n)) \/ UNCHANGED vars
       PROVE  WalkInv'
  BY <1>10, <1>6 DEF Halted, OtherSync, OtherWrite, vars
<1> QED
  BY <1>8, <1>9, <1>10 DEF Next, MainFlow

\* The kernel's map is made of the entries of the last memory map tag, in
\* order, as many as the buffer has room for, whatever tags there are.
THEOREM MapCorrect == Spec => []MapIsLastTag
<1>1. WalkInv => MapIsLastTag
  <2> SUFFICES ASSUME WalkInv, pc = "parsed"
               PROVE  IF MapTags = {} THEN Map = << >>
                      ELSE LET entries == info[Max(MapTags)].entries
                           IN  /\ Len(Map) = Min({CAP, Len(entries)})
                               /\ \A i \in DOMAIN Map :
                                    /\ Map[i].base = entries[i].base
                                    /\ Map[i].length = entries[i].length
                                    /\ (Map[i].mem_type = "Available")
                                         = (entries[i].mb_type = 1)
    BY DEF MapIsLastTag
  <2>1. MEMORY_MAP_COUNT \in Nat
    BY BootAssumption DEF WalkInv
  <2>2. MEMORY_MAP_COUNT = 0 => Map = << >>
    BY DEF Map
  <2>3. CASE info = << >> /\ MEMORY_MAP_COUNT = 0
    <3>1. MapTags = {}
      BY <2>3 DEF MapTags
    <3> QED
      BY <2>2, <2>3, <3>1
  <2>4. CASE LaidOut(info) /\ MapOf(Len(info))
    <3>1. Len(info) \in Nat /\ DOMAIN info = 1 .. Len(info)
      BY <2>4 DEF LaidOut
    <3>2. CASE \A i \in 1 .. Len(info) : info[i].type # "memory_map"
      <4>1. MapTags = {}
        BY <3>1, <3>2 DEF MapTags
      <4>2. MEMORY_MAP_COUNT = 0
        BY <2>4, <3>2 DEF MapOf, LastMap
      <4> QED
        BY <2>2, <4>1, <4>2
    <3>3. CASE \E i \in 1 .. Len(info) : info[i].type = "memory_map"
      <4>1. PICK j \in 1 .. Len(info) :
              /\ LastMap(Len(info), j)
              /\ MEMORY_MAP_COUNT <= CAP /\ MEMORY_MAP_COUNT <= Len(info[j].entries)
              /\ MEMORY_MAP_COUNT = CAP \/ MEMORY_MAP_COUNT = Len(info[j].entries)
              /\ Filled(j, MEMORY_MAP_COUNT)
        BY <2>4, <3>3 DEF MapOf
      <4> DEFINE es == info[j].entries
      <4>2. j \in MapTags /\ \A i \in MapTags : i <= j
        BY <3>1, <4>1 DEF MapTags, LastMap
      <4>3. Max(MapTags) = j
        <5>1. MapTags \in SUBSET (0 .. Len(info)) /\ MapTags # {}
          BY <3>1, <4>2 DEF MapTags
        <5>2. Max(MapTags) \in MapTags /\ \A y \in MapTags : y <= Max(MapTags)
          BY <3>1, <5>1, MaxIsGreatest
        <5>3. Max(MapTags) \in Nat
          <6>1. \A y \in MapTags : y \in Nat
            BY <3>1 DEF MapTags
          <6> QED
            BY <5>2, <6>1
        <5>4. j <= Max(MapTags) /\ Max(MapTags) <= j
          BY <4>2, <5>2
        <5> QED
          BY <3>1, <5>3, <5>4
      <4>4. Len(es) \in Nat
        BY <2>4, <3>1, <4>1 DEF LaidOut, LastMap
      <4>5. Min({CAP, Len(es)}) = MEMORY_MAP_COUNT
        <5> DEFINE S == {CAP, Len(es)}
        <5>1. S \in SUBSET Nat /\ S # {}
          BY <4>4, BootAssumption
        <5>2. Min(S) \in S /\ \A y \in S : Min(S) <= y
          BY <5>1, MinIsLeast
        <5>3. Min(S) \in {CAP, Len(es)} /\ Min(S) <= CAP /\ Min(S) <= Len(es)
          BY <5>2
        <5>4. CAP \in Nat
          BY BootAssumption
        <5> HIDE DEF S
        <5>5. Min(S) = MEMORY_MAP_COUNT
          BY <2>1, <4>1, <4>4, <5>3, <5>4
        <5> QED
          BY <5>5 DEF S
      <4>6. Len(Map) = MEMORY_MAP_COUNT /\ DOMAIN Map = 1 .. MEMORY_MAP_COUNT
        BY <2>1 DEF Map
      <4>7. ASSUME NEW i \in 1 .. MEMORY_MAP_COUNT
            PROVE  /\ Map[i].base = es[i].base
                   /\ Map[i].length = es[i].length
                   /\ (Map[i].mem_type = "Available") = (es[i].mb_type = 1)
        <5>1. Map[i] = MEMORY_MAP_BUFFER[i - 1]
          BY DEF Map
        <5>2. i - 1 \in 0 .. MEMORY_MAP_COUNT - 1 /\ (i - 1) + 1 = i
          BY <2>1
        <5>3. Map[i] = Converted(es[i])
          <6>1. MEMORY_MAP_BUFFER[i - 1] = Converted(info[j].entries[(i - 1) + 1])
            BY <4>1, <5>2 DEF Filled
          <6> QED
            BY <5>1, <5>2, <6>1
        <5>4. /\ Map[i].base = es[i].base
              /\ Map[i].length = es[i].length
              /\ Map[i].mem_type = MemoryType(es[i].mb_type)
          BY <5>3 DEF Converted
        <5>5. (MemoryType(es[i].mb_type) = "Available") <=> (es[i].mb_type = 1)
          BY DEF MemoryType
        <5> QED
          BY <5>4, <5>5
      <4> QED
        BY <4>2, <4>3, <4>5, <4>6, <4>7
    <3> QED
      BY <3>2, <3>3
  <2> QED
    BY <2>3, <2>4 DEF WalkInv
<1> QED
  BY <1>1, InitWalk, NextWalk, PTL DEF Spec

----------------------------------------------------------------------------
(* The screen.                                                             *)

FramebufferType == [width : Nat, height : Nat, pitch : Nat, bpp : Nat]

\* A line of the frame buffer has room for its pixels; nothing is drawn before
\* the screen has been given the geometry of the frame buffer, which does not
\* change from then on; and a painted screen has four bytes a pixel.
ScreenInv ==
  /\ framebuffer \in FramebufferType
  /\ framebuffer.width * framebuffer.bpp <= 8 * framebuffer.pitch
  /\ DOMAIN screen = {"width", "height", "bits_per_pixel", "stride", "len", "filled"}
  /\ video \subseteq 0 .. framebuffer.pitch * framebuffer.height - 1
  /\ pc \in {"tags", "entries", "parsed"} => video = {}
  /\ pc \in {"process", "loop", "drawn"} =>
       /\ screen.width = framebuffer.width
       /\ screen.height = framebuffer.height
       /\ screen.len = buffer_size(framebuffer)
  /\ pc = "drawn" => /\ screen.filled = screen.len
                     /\ screen.len = screen.width * screen.height * 4

\* The back buffer is not longer than the frame buffer.
LEMMA BufferFits ==
  ASSUME NEW fb \in FramebufferType, fb.width * fb.bpp <= 8 * fb.pitch
  PROVE  buffer_size(fb) \in Nat /\ buffer_size(fb) <= fb.pitch * fb.height
<1> DEFINE w == fb.width
           h == fb.height
           p == fb.pitch
           b == fb.bpp
<1>1. w \in Nat /\ h \in Nat /\ p \in Nat /\ b \in Nat
  BY DEF FramebufferType
<1>2. w * b <= 8 * p
  OBVIOUS
<1>3. buffer_size(fb) = (w * h * b) \div 8
  BY DEF buffer_size
<1> HIDE DEF w, h, p, b
<1>4. PICK k \in Nat : 8 * p = w * b + k
  <2>1. w * b \in Nat /\ 8 * p - w * b \in Nat /\ 8 * p = w * b + (8 * p - w * b)
    BY <1>1, <1>2
  <2> QED
    BY <2>1
<1>5. 8 * (p * h) = w * h * b + k * h
  <2>1. 8 * (p * h) = (8 * p) * h
    BY <1>1
  <2>2. (8 * p) * h = (w * b + k) * h
    BY <1>4
  <2>3. (w * b + k) * h = w * h * b + k * h
    BY <1>1, <1>4
  <2> QED
    BY <2>1, <2>2, <2>3
<1>6. k * h \in Nat /\ w * h * b \in Nat /\ p * h \in Nat
  BY <1>1, <1>4
<1>7. (w * h * b) \div 8 \in Nat /\ (w * h * b) \div 8 <= p * h
  BY <1>5, <1>6
<1> QED
  BY <1>3, <1>7 DEF h, p

\* The invariant of the screen holds at the start.
LEMMA InitScreenInv == Init => ScreenInv
<1> SUFFICES ASSUME Init PROVE ScreenInv
  OBVIOUS
<1>1. /\ framebuffer = DefaultFramebuffer /\ screen = NewScreen /\ video = {}
      /\ pc \in {"parsed", "tags"}
  BY DEF Init, BootInit
<1>2. TextMode[1] \in Nat /\ TextMode[2] \in Nat
  BY BootAssumption
<1>3. framebuffer \in FramebufferType
  BY <1>1, <1>2 DEF FramebufferType, DefaultFramebuffer, FramebufferInfo
<1>4. framebuffer.width * framebuffer.bpp <= 8 * framebuffer.pitch
  BY <1>1, <1>2 DEF DefaultFramebuffer, FramebufferInfo
<1>5. DOMAIN screen = {"width", "height", "bits_per_pixel", "stride", "len", "filled"}
  BY <1>1 DEF NewScreen
<1> QED
  BY <1>1, <1>3, <1>4, <1>5 DEF ScreenInv

\* A frame buffer tag replaces the geometry before anything is drawn.
LEMMA TagKeepsScreen ==
  ASSUME WalkInv, ScreenInv, FramebufferTag, UNCHANGED drivers
  PROVE  ScreenInv'
<1>1. /\ pc = "tags" /\ Tag.type = "framebuffer"
      /\ pc' \in {"tags", "panicked"}
  BY DEF FramebufferTag
<1>2. LaidOut(info) /\ \E k \in DOMAIN info : At(k)
  BY <1>1 DEF WalkInv
<1>3. PICK k \in DOMAIN info : At(k)
  BY <1>2
<1>4. Tag = info[k]
  BY <1>2, <1>3, TagHere
<1>5. /\ {Tag.width, Tag.height, Tag.pitch, Tag.bpp} \subseteq Nat
      /\ Tag.width * Tag.bpp <= 8 * Tag.pitch
  BY <1>1, <1>2, <1>4 DEF LaidOut
<1>6. \/ framebuffer' = framebuffer
      \/ framebuffer' = [width |-> Tag.width, height |-> Tag.height,
                         pitch |-> Tag.pitch, bpp |-> Tag.bpp]
  BY DEF FramebufferTag, FramebufferInfo
<1>7. /\ framebuffer' \in FramebufferType
      /\ framebuffer'.width * framebuffer'.bpp <= 8 * framebuffer'.pitch
  BY <1>5, <1>6 DEF ScreenInv, FramebufferType
<1>8. screen' = screen /\ video' = video /\ video = {}
  BY <1>1 DEF ScreenInv, drivers
<1> QED
  BY <1>1, <1>7, <1>8 DEF ScreenInv

\* Every step keeps it, given the invariant of the walk.
LEMMA NextScreen ==
  ASSUME WalkInv, ScreenInv, [Next]_vars
  PROVE  ScreenInv'
<1>1. CASE BootNext /\ UNCHANGED <<managerVars, heap, drivers, wanted>>
  <2>1. CASE FramebufferTag
    BY <1>1, <2>1, TagKeepsScreen
  <2>2. CASE ~ FramebufferTag
    <3>1. /\ framebuffer' = framebuffer /\ screen' = screen /\ video' = video
      BY <1>1, <2>2 DEF BootNext, EndOfTags, OtherTag, MemoryMapTag, ReadEntry,
                        EndOfEntries, parse_mem_map, InitFrames, parser, drivers
    <3>2. /\ pc \in {"tags", "entries", "parsed", "counted"}
          /\ pc' \in {"tags", "entries", "parsed", "counted", "frames"}
          /\ pc = "counted" => pc' = "frames"
      BY <1>1, <2>2 DEF BootNext, EndOfTags, OtherTag, MemoryMapTag, ReadEntry,
                        EndOfEntries, parse_mem_map, InitFrames
    <3> QED
      BY <3>1, <3>2 DEF ScreenInv
  <2> QED
    BY <2>1, <2>2
<1>2. CASE InitHeap
  <2>1. UNCHANGED <<framebuffer, screen, video>> /\ pc' \in {"drivers", "panicked"}
    BY <1>2 DEF InitHeap, panic, tags, parser, drivers
  <2> QED
    BY <2>1 DEF ScreenInv
<1>3. CASE InitDrivers
  <2>1. /\ UNCHANGED <<framebuffer, video>>
        /\ \/ pc' = "process" /\ screen' = InitScreen(framebuffer)
           \/ pc' = "panicked" /\ screen' = screen
    BY <1>3 DEF InitDrivers, panic, tags, parser
  <2>2. CASE pc' = "process" /\ screen' = InitScreen(framebuffer)
    <3>1. /\ DOMAIN screen' = {"width", "height", "bits_per_pixel", "stride", "len", "filled"}
          /\ screen'.width = framebuffer.width
          /\ screen'.height = framebuffer.height
          /\ screen'.len = buffer_size(framebuffer)
      BY <2>2 DEF InitScreen
    <3>2. buffer_size(framebuffer)' = buffer_size(framebuffer)
      BY <2>1 DEF buffer_size
    <3> QED
      BY <2>1, <2>2, <3>1, <3>2 DEF ScreenInv
  <2>3. CASE pc' = "panicked" /\ screen' = screen
    BY <2>1, <2>3 DEF ScreenInv
  <2> QED
    BY <2>1, <2>2, <2>3
<1>4. CASE CreateProcess \/ NoMorePids \/ EnterLoop
  <2>1. /\ UNCHANGED <<framebuffer, screen, video>>
        /\ pc = "process" /\ pc' \in {"process", "panicked", "loop"}
    BY <1>4 DEF CreateProcess, NoMorePids, EnterLoop, panic, tags, parser, drivers
  <2> QED
    BY <2>1 DEF ScreenInv, buffer_size
<1>5. CASE Draw
  <2>1. /\ UNCHANGED <<framebuffer, video>> /\ pc = "loop"
        /\ \/ pc' = "panicked" /\ screen' = screen
           \/ from_bytes(screen) /\ screen' = paint(screen) /\ pc' \in {"drawn", "panicked"}
    BY <1>5 DEF Draw, panic, tags, parser
  <2>2. CASE pc' = "panicked" /\ screen' = screen
    BY <2>1, <2>2 DEF ScreenInv
  <2>3. CASE from_bytes(screen) /\ screen' = paint(screen) /\ pc' \in {"drawn", "panicked"}
    <3>1. /\ DOMAIN screen' = DOMAIN screen
          /\ screen'.width = screen.width /\ screen'.height = screen.height
          /\ screen'.len = screen.len /\ screen'.filled = screen.len
      BY <2>3 DEF paint, ScreenInv
    <3>2. screen.len = screen.width * screen.height * 4
      BY <2>3 DEF from_bytes
    <3>3. buffer_size(framebuffer)' = buffer_size(framebuffer)
      BY <2>1 DEF buffer_size
    <3> QED
      BY <2>1, <2>3, <3>1, <3>2, <3>3 DEF ScreenInv
  <2> QED
    BY <2>1, <2>2, <2>3
<1>6. CASE Sync \/ OtherSync
  <2>1. /\ UNCHANGED <<framebuffer, screen>> /\ video' = video \cup sync(screen)
        /\ pc \in {"drawn", "process"} /\ pc' \in {"loop", "process"}
    BY <1>6 DEF Sync, OtherSync, tags, parser, bootVars
  <2>2. sync(screen) \subseteq 0 .. framebuffer.pitch * framebuffer.height - 1
    <3>1. screen.len = buffer_size(framebuffer)
      BY <2>1 DEF ScreenInv
    <3>2. buffer_size(framebuffer) \in Nat
          /\ buffer_size(framebuffer) <= framebuffer.pitch * framebuffer.height
      BY BufferFits DEF ScreenInv
    <3>3. framebuffer.pitch * framebuffer.height \in Nat
      BY DEF ScreenInv, FramebufferType
    <3> QED
      BY <3>1, <3>2, <3>3 DEF sync
  <2>3. buffer_size(framebuffer)' = buffer_size(framebuffer)
    BY <2>1 DEF buffer_size
  <2> QED
    BY <2>1, <2>2, <2>3 DEF ScreenInv
<1>7. CASE \E n \in DataLens : OtherWrite(n)
  <2>1. PICK n \in DataLens : OtherWrite(n)
    BY <1>7
  <2>2. UNCHANGED <<framebuffer, video, pc>> /\ pc = "process" /\ screen' = write(screen, n)
    BY <2>1 DEF OtherWrite, bootVars
  <2>3. /\ DOMAIN screen' = DOMAIN screen
        /\ screen'.width = screen.width /\ screen'.height = screen.height
        /\ screen'.len = screen.len
    BY <2>2 DEF write, ScreenInv
  <2>4. buffer_size(framebuffer)' = buffer_size(framebuffer)
    BY <2>2 DEF buffer_size
  <2> QED
    BY <2>2, <2>3, <2>4 DEF ScreenInv
<1>8. CASE Halted \/ UNCHANGED vars
  <2>1. UNCHANGED <<framebuffer, screen, video, pc>>
    BY <1>8 DEF Halted, vars, bootVars
  <2> QED
    BY <2>1 DEF ScreenInv, buffer_size
<1>9. CASE Astray
  <2>1. UNCHANGED <<framebuffer, screen, video>> /\ pc' = "lost"
        /\ pc \in {"drivers", "process", "loop", "drawn"}
    BY <1>9 DEF Astray, tags, parser, drivers
  <2> QED
    BY <2>1 DEF ScreenInv, buffer_size
<1> QED
  BY <1>1, <1>2, <1>3, <1>4, <1>5, <1>6, <1>7, <1>8, <1>9 DEF Next, MainFlow

\* Whatever geometry the tags give, sync stays inside the frame buffer, and
\* where lines have no padding a round of the drawing loop covers all of it.
THEOREM SyncCorrect == Spec => []SyncCoversScreen
<1> DEFINE Inv == WalkInv /\ ScreenInv
<1>1. Init => Inv
  BY InitWalk, InitScreenInv
<1>2. Inv /\ [Next]_vars => Inv'
  BY NextWalk, NextScreen
<1>3. Inv => SyncCoversScreen
  <2> SUFFICES ASSUME ScreenInv PROVE SyncCoversScreen
    OBVIOUS
  <2>1. ASSUME pc = "drawn", framebuffer.pitch = 4 * framebuffer.width
        PROVE  /\ screen.filled = screen.len
               /\ sync(screen) = 0 .. framebuffer.pitch * framebuffer.height - 1
    <3> DEFINE w == framebuffer.width
               h == framebuffer.height
    <3>1. screen.filled = screen.len /\ screen.len = w * h * 4
      BY <2>1 DEF ScreenInv
    <3>2. w \in Nat /\ h \in Nat
      BY DEF ScreenInv, FramebufferType
    <3>3. framebuffer.pitch * framebuffer.height = (4 * w) * h
      BY <2>1
    <3> HIDE DEF w, h
    <3>4. (4 * w) * h = w * h * 4
      BY <3>2
    <3> QED
      BY <3>1, <3>3, <3>4 DEF sync
  <2> QED
    BY <2>1 DEF SyncCoversScreen, ScreenInv
<1> QED
  BY <1>1, <1>2, <1>3, PTL DEF Spec

----------------------------------------------------------------------------
(* The invariant of the descriptor tables and of the entry code.           *)

\* What is in a register.
Values == Regs \cup {"scratch"} \cup Int
RegFiles == [Regs -> Values]
Rips == [at : Int, step : 0 .. 3]

CpuType ==
  [cs : {KERNEL_CODE_SELECTOR, USER_CODE_SELECTOR},
   ss : {0, KERNEL_DATA_SELECTOR, USER_DATA_SELECTOR}, rsp : Int, rip : Rips,
   iflag : BOOLEAN, regs : RegFiles]

Causes ==
  [kind : {"irq"}, n : 0 .. 15] \cup [kind : {"exception"}, n : 0 .. 31]
    \cup [kind : {"int"}, n : 0 .. 255]

Entries == [cause : Causes, cpu : CpuType]

SegmentsType ==
  /\ layout \in Layouts /\ next \in 1 .. 11
  /\ cpu \in CpuType /\ saved \in Seq(Entries)
  /\ events \in 0 .. MaxEvents /\ Len(saved) <= events

\* The tables, from instruction to instruction of arch::init.
KernelTop(l) == StackPointer(l.kernel_stack, KERNEL_STACK_LEN)
IstTop(l) == StackPointer(l.ist_stack0, IST_STACK0_LEN)

TablesFit ==
  /\ TSS \in [rsps : [1 .. 3 -> Int], ists : [1 .. 7 -> Int]]
  /\ next > 1 => TSS.rsps[1] = KernelTop(layout) /\ TSS.ists[1] = IstTop(layout)
  /\ next > 2 => tss_entry = TssEntry(layout.tss, SizeOfTss - 1)
  /\ next > 3 => gdtr = SizeOfGdt - 1
  /\ next > 6 => tr = [base |-> layout.tss, limit |-> SizeOfTss - 1]
  /\ next > 7 => IDT = idt_entries
  /\ idtr = IF next > 8 THEN 4095 ELSE -1
  /\ next > 9 => pic
  /\ cpu.iflag => next = 11
  /\ shutdown # NoCause => shutdown.kind = "exception" /\ next <= 8

\* The vector an entry of saved was handled as.
V(e) == Meant(e.cause)

\* What the processor and push_regs put on the stack.
Word(m, a, x) == a \in DOMAIN m /\ m[a] = x
Frame(m, a, was) ==
  /\ Word(m, a, was.rip) /\ Word(m, a + 8, was.cs) /\ Word(m, a + 16, was.iflag)
  /\ Word(m, a + 24, was.rsp) /\ Word(m, a + 32, was.ss)
Kept(m, a, was) == \A i \in 1 .. 15 : Word(m, a + 8 * (i - 1), was.regs[popped_regs[i]])

\* Where the frame is, registers aside, and its error code aside.
Low(c) == c.rsp + IF c.rip.step \in {1, 2} THEN 120 ELSE 0
ErrorLen(v) == IF v \in WithError THEN 8 ELSE 0

\* In the state c the handler of vector v runs, having interrupted was.
Inside(l, m, c, v, was) ==
  /\ c.rip.at = l.code + 16 * v /\ c.cs = KERNEL_CODE_SELECTOR
  /\ c.iflag => v = 128
  /\ c.rip.step = 3 => v >= 32
  /\ Frame(m, Low(c) + ErrorLen(v), was)
  /\ v \in WithError => Word(m, Low(c), "error")
  /\ c.rip.step \in {1, 2} => Kept(m, c.rsp, was)
  /\ c.rip.step \in {0, 1, 3} => c.regs = was.regs
  /\ c.rip.step = 2 /\ v < 32 => c.regs["rdi"] = c.rsp

\* The top of the stack the handlers of s use, and how far k of them got.
Base(l, was) == IF was.cs = USER_CODE_SELECTOR THEN KernelTop(l) ELSE l.boot_stack
Top(l, s) == IF \E i \in DOMAIN s : V(s[i]) = 8 THEN IstTop(l) ELSE Base(l, s[1].cpu)
Stacked(c, v, top, k) ==
  Low(c) + ErrorLen(v) <= top - 40 /\ Low(c) >= top - 183 * k + 120

\* The main flow, or a program.
Outside(l, c) == c.cs = KERNEL_CODE_SELECTOR => c.rsp = l.boot_stack

\* A handler that will return was entered from outside, or interrupts the one
\* of system calls that was.
Returns ==
  /\ next = 11 /\ Len(saved) \in {1, 2}
  /\ Len(saved) = 2 =>
       /\ V(saved[1]) = 128 /\ V(saved[2]) # 128
       /\ Inside(layout, mem, saved[2].cpu, 128, saved[1].cpu)
       /\ Stacked(saved[2].cpu, 128, Base(layout, saved[1].cpu), 1)
       /\ Low(cpu) <= saved[2].cpu.rsp

HandlersFit ==
  /\ saved = << >> => Outside(layout, cpu) /\ (next < 11 => cpu.cs = KERNEL_CODE_SELECTOR)
  /\ saved # << >> =>
       /\ next > 8
       /\ Inside(layout, mem, cpu, V(saved[Len(saved)]), saved[Len(saved)].cpu)
       /\ Stacked(cpu, V(saved[Len(saved)]), Top(layout, saved), Len(saved))
       /\ Outside(layout, saved[1].cpu)
       /\ \A i \in 2 .. Len(saved) : saved[i].cpu.cs = KERNEL_CODE_SELECTOR
       /\ V(saved[Len(saved)]) >= 32 => Returns

SegmentsInv == SegmentsType /\ TablesFit /\ HandlersFit

----------------------------------------------------------------------------
(* Addresses taken apart and put together again.                           *)

LEMMA Radices ==
  RADIX \in Nat \ {0} /\ RADIX2 \in Nat \ {0} /\ RADIX3 \in Nat \ {0} /\ RADIX4 \in Nat \ {0}
<1>1. \A a, b \in Nat \ {0} : a * b \in Nat \ {0}
  OBVIOUS
<1>2. RADIX \in Nat \ {0}
  BY SegmentsAssumption
<1>3. RADIX2 \in Nat \ {0}
  BY <1>1, <1>2 DEF RADIX2
<1> QED
  BY <1>1, <1>2, <1>3 DEF RADIX3, RADIX4

\* A number below the square of d has two digits of radix d.
LEMMA HighDigit ==
  ASSUME NEW a \in Nat, NEW d \in Nat \ {0}, a < d * d
  PROVE  (a \div d) % d = a \div d
<1> DEFINE q == a \div d
           r == a % d
<1>1. q \in Nat /\ r \in 0 .. d - 1 /\ a = q * d + r
  BY Division
<1> HIDE DEF q, r
<1>2. q < d
  BY <1>1, QuotientBound
<1>3. q % d = q
  BY <1>1, <1>2
<1> QED
  BY <1>3 DEF q

\* A number and its parts in radix d.
LEMMA TwoDigits ==
  ASSUME NEW a \in Nat, NEW d \in Nat \ {0}
  PROVE  (a % d) + ((a \div d) % d) * d + (a \div (d * d)) * (d * d) = a
<1> DEFINE q == a \div d
           r == a % d
           t == q \div d
           s == q % d
<1>1. q \in Nat /\ r \in 0 .. d - 1 /\ a = q * d + r
  BY Division
<1>2. a \div (d * d) = t
  BY DivideTwice
<1> HIDE DEF q, r
<1>3. t \in Nat /\ s \in 0 .. d - 1 /\ q = t * d + s
  BY <1>1, Division
<1> HIDE DEF t, s
<1>4. q * d = t * (d * d) + s * d
  BY <1>3
<1>5. t * (d * d) \in Nat /\ s * d \in Nat /\ q * d \in Nat
  BY <1>1, <1>3
<1>6. r + s * d + t * (d * d) = a
  BY <1>1, <1>4, <1>5
<1> QED
  BY <1>2, <1>6 DEF r, s, q

\* The same, a part of size b * b and then two of size b.
LEMMA ThreeDigits ==
  ASSUME NEW a \in Nat, NEW c \in Nat \ {0}, NEW b \in Nat \ {0}
  PROVE  (a % c) + ((a \div c) % b) * c + ((a \div (c * b)) % b) * (c * b)
           + (a \div ((c * b) * b)) * ((c * b) * b) = a
<1> DEFINE q == a \div c
           r == a % c
<1>1. q \in Nat /\ r \in 0 .. c - 1 /\ a = q * c + r
  BY Division
<1>2. a \div (c * b) = q \div b
  BY DivideTwice
<1>3. a \div ((c * b) * b) = q \div (b * b)
  <2>1. b * b \in Nat \ {0} /\ (c * b) * b = c * (b * b)
    OBVIOUS
  <2>2. q \div (b * b) = a \div (c * (b * b))
    BY <2>1, DivideTwice
  <2> QED
    BY <2>1, <2>2
<1> HIDE DEF q, r
<1> DEFINE x == q % b
           y == (q \div b) % b
           z == q \div (b * b)
<1>4. x \in Nat /\ y \in Nat /\ z \in Nat
  <2>1. q \div b \in Nat /\ x \in Nat
    BY <1>1, Division
  <2>2. y \in Nat
    BY <2>1, Division
  <2>3. b * b \in Nat \ {0}
    OBVIOUS
  <2>4. z \in Nat
    BY <1>1, <2>3, Division
  <2> QED
    BY <2>1, <2>2, <2>4
<1>5. x + y * b + z * (b * b) = q
  BY <1>1, TwoDigits
<1> HIDE DEF x, y, z
<1>6. q * c = x * c + y * (c * b) + z * ((c * b) * b)
  <2>1. y * b \in Nat /\ z * (b * b) \in Nat
    BY <1>4
  <2>2. q * c = x * c + (y * b) * c + (z * (b * b)) * c
    BY <1>4, <1>5, <2>1
  <2>3. (y * b) * c = y * (c * b) /\ (z * (b * b)) * c = z * ((c * b) * b)
    BY <1>4
  <2> QED
    BY <2>2, <2>3
<1>7. x * c \in Nat /\ y * (c * b) \in Nat /\ z * ((c * b) * b) \in Nat
  BY <1>4
<1>8. r + x * c + y * (c * b) + z * ((c * b) * b) = a
  BY <1>1, <1>6, <1>7
<1> QED
  BY <1>2, <1>3, <1>8 DEF r, x, y, z, q

\* The offset of a gate is the address it was built from.
LEMMA OffsetJoined ==
  ASSUME NEW a \in Address
  PROVE  /\ a \in Nat
         /\ (a % RADIX2) + ((a \div RADIX2) % RADIX2) * RADIX2
              + ((a \div RADIX4) % RADIX4) * RADIX4 = a
<1>1. a \in Nat /\ a < RADIX4 * RADIX4
  BY Radices DEF Address
<1>2. (a \div RADIX4) % RADIX4 = a \div RADIX4
  BY <1>1, Radices, HighDigit
<1>3. (a % RADIX2) + ((a \div RADIX2) % RADIX2) * RADIX2
        + (a \div (RADIX2 * RADIX2)) * (RADIX2 * RADIX2) = a
  BY <1>1, Radices, TwoDigits
<1> QED
  BY <1>1, <1>2, <1>3, Zenon DEF RADIX4

\* The base of the TSS is the address its descriptor was built from.
LEMMA BaseJoined ==
  ASSUME NEW a \in Address, NEW size
  PROVE  Joined(TssEntry(a, size)) = a /\ TssEntry(a, size).length = size
           /\ TssEntry(a, size).flags1 = 137
<1>1. a \in Nat /\ a < RADIX4 * RADIX4
  BY Radices DEF Address
<1>2. (a \div RADIX4) % RADIX4 = a \div RADIX4
  BY <1>1, Radices, HighDigit
<1>3. RADIX2 * RADIX = RADIX3 /\ RADIX3 * RADIX = RADIX4
  <2>1. \A x, y \in Nat : x * (y * y) = (x * y) * y
    OBVIOUS
  <2> QED
    BY <2>1, Radices DEF RADIX3, RADIX4, RADIX2
<1>4. (a % RADIX2) + ((a \div RADIX2) % RADIX) * RADIX2
        + ((a \div (RADIX2 * RADIX)) % RADIX) * (RADIX2 * RADIX)
        + (a \div ((RADIX2 * RADIX) * RADIX)) * ((RADIX2 * RADIX) * RADIX) = a
  BY <1>1, Radices, ThreeDigits
<1>5. (a % RADIX2) + ((a \div RADIX2) % RADIX) * RADIX2
        + ((a \div RADIX3) % RADIX) * RADIX3 + ((a \div RADIX4) % RADIX4) * RADIX4 = a
  BY <1>2, <1>3, <1>4, Zenon
<1>6. /\ TssEntry(a, size).base_low = a % RADIX2
      /\ TssEntry(a, size).base_mid = (a \div RADIX2) % RADIX
      /\ TssEntry(a, size).base_high = (a \div RADIX3) % RADIX
      /\ TssEntry(a, size).base_upper = (a \div RADIX4) % RADIX4
      /\ TssEntry(a, size).length = size /\ TssEntry(a, size).flags1 = 137
  BY DEF TssEntry
<1> QED
  BY <1>5, <1>6, Zenon DEF Joined

----------------------------------------------------------------------------
(* The tables.                                                             *)

\* The parts of a layout.
LEMMA LayoutParts ==
  ASSUME layout \in Layouts
  PROVE  /\ layout.tss \in Address /\ layout.code \in Nat /\ layout.boot_stack \in Nat
         /\ layout.kernel_stack \in Nat /\ layout.ist_stack0 \in Nat
         /\ layout.user_stack \in Nat /\ KernelTop(layout) \in Int /\ IstTop(layout) \in Int
<1>1. /\ layout \in [code : Address, tss : Address, boot_stack : Address, user_stack : Address,
                     kernel_stack : Address, ist_stack0 : Address]
      /\ KERNEL_STACK_LEN \in Nat /\ IST_STACK0_LEN \in Nat
  BY SegmentsAssumption
<1>2. \A a \in Address : a \in Nat
  BY OffsetJoined
<1>3. /\ layout.code \in Address /\ layout.tss \in Address /\ layout.boot_stack \in Address
      /\ layout.kernel_stack \in Address /\ layout.ist_stack0 \in Address
      /\ layout.user_stack \in Address
  BY <1>1
<1>4. /\ layout.code \in Nat /\ layout.boot_stack \in Nat
      /\ layout.kernel_stack \in Nat /\ layout.ist_stack0 \in Nat /\ layout.user_stack \in Nat
  BY <1>2, <1>3
<1>5. KernelTop(layout) \in Int /\ IstTop(layout) \in Int
  BY <1>1, <1>4 DEF KernelTop, IstTop, StackPointer
<1> QED
  BY <1>3, <1>4, <1>5

\* Where the handlers are.
LEMMA HandlersAre ==
  ASSUME layout \in Layouts
  PROVE  /\ \A v \in 0 .. 255 : Handler(v) \in Address /\ Handler(v) \in Nat
         /\ \A v, w \in 0 .. 255 : Handler(v) = Handler(w) => v = w
<1>1. layout.code \in Nat
  BY LayoutParts
<1>2. layout.code + 16 * 256 \in Address
  BY SegmentsAssumption
<1>3. RADIX4 * RADIX4 \in Nat
  BY Radices
<1>4. ASSUME NEW v \in 0 .. 255
      PROVE  Handler(v) \in Address /\ Handler(v) \in Nat
  BY <1>1, <1>2, <1>3 DEF Handler, Address
<1>5. ASSUME NEW v \in 0 .. 255, NEW w \in 0 .. 255, Handler(v) = Handler(w)
      PROVE  v = w
  BY <1>1, <1>5 DEF Handler
<1> QED
  BY <1>4, <1>5

\* What the processor finds in a gate.
Leads(g, h) == g.offset_low + g.offset_mid * RADIX2 + g.offset_high * RADIX4 = h

EntryHolds(g, h, ist, gate_type, dpl) ==
  /\ g.present = TRUE /\ g.selector = 8 /\ g.ist = ist /\ g.dpl = dpl /\ g.type = gate_type
  /\ Leads(g, h)

LEMMA EntryIs ==
  ASSUME NEW h \in Address, NEW ist, NEW gate_type, NEW dpl
  PROVE  EntryHolds(IdtEntry(h, KERNEL_CODE_SELECTOR, ist, gate_type, dpl), h, ist, gate_type, dpl)
<1> DEFINE g == IdtEntry(h, KERNEL_CODE_SELECTOR, ist, gate_type, dpl)
<1>1. (h % RADIX2) + ((h \div RADIX2) % RADIX2) * RADIX2 + ((h \div RADIX4) % RADIX4) * RADIX4 = h
  BY OffsetJoined
<1>2. /\ g.present = TRUE /\ g.selector = 8 /\ g.ist = ist /\ g.dpl = dpl /\ g.type = gate_type
      /\ g.offset_low = h % RADIX2 /\ g.offset_mid = (h \div RADIX2) % RADIX2
      /\ g.offset_high = (h \div RADIX4) % RADIX4
  BY DEF IdtEntry, KERNEL_CODE_SELECTOR
<1> HIDE DEF g
<1>3. Leads(g, h)
  BY <1>1, <1>2, Zenon DEF Leads
<1>4. EntryHolds(g, h, ist, gate_type, dpl)
  BY <1>2, <1>3, Zenon DEF EntryHolds
<1> QED
  BY <1>4 DEF g

\* The gates idt::init sets up.
GateFits(g, v) ==
  /\ g.present = TRUE /\ g.selector = 8 /\ g.ist = (IF v = 8 THEN 1 ELSE 0)
  /\ g.dpl = (IF v = 128 THEN 3 ELSE 0)
  /\ g.type = (IF v = 128 THEN "trap" ELSE "interrupt") /\ Leads(g, Handler(v))

LEMMA GatesAre ==
  ASSUME layout \in Layouts, NEW v \in 0 .. 255
  PROVE  IF v \in Handled THEN GateFits(idt_entries[v], v) ELSE idt_entries[v].present = FALSE
<1>1. Handler(v) \in Address
  BY HandlersAre
<1>2. idt_entries[v] =
        CASE v = 8 -> IdtEntry(Handler(v), KERNEL_CODE_SELECTOR, 1, "interrupt", 0)
          [] v = 128 -> IdtEntry(Handler(v), KERNEL_CODE_SELECTOR, 0, "trap", 3)
          [] v \in Handled \ {8, 128} -> set_handler(Handler(v))
          [] OTHER -> NullIdtEntry
  BY Zenon DEF idt_entries
<1>3. CASE v = 8
  <2>1. idt_entries[v] = IdtEntry(Handler(v), KERNEL_CODE_SELECTOR, 1, "interrupt", 0)
    BY <1>2, <1>3
  <2>2. EntryHolds(idt_entries[v], Handler(v), 1, "interrupt", 0)
    BY <1>1, <2>1, EntryIs, Zenon
  <2>3. GateFits(idt_entries[v], v)
    BY <1>3, <2>2 DEF GateFits, EntryHolds
  <2> QED
    BY <1>3, <2>3 DEF Handled
<1>4. CASE v = 128
  <2>1. idt_entries[v] = IdtEntry(Handler(v), KERNEL_CODE_SELECTOR, 0, "trap", 3)
    BY <1>2, <1>4
  <2>2. EntryHolds(idt_entries[v], Handler(v), 0, "trap", 3)
    BY <1>1, <2>1, EntryIs, Zenon
  <2>3. GateFits(idt_entries[v], v)
    BY <1>4, <2>2 DEF GateFits, EntryHolds
  <2> QED
    BY <1>4, <2>3 DEF Handled
<1>5. CASE v \in Handled \ {8, 128}
  <2>1. idt_entries[v] = IdtEntry(Handler(v), KERNEL_CODE_SELECTOR, 0, "interrupt", 0)
    BY <1>2, <1>5 DEF set_handler
  <2>2. EntryHolds(idt_entries[v], Handler(v), 0, "interrupt", 0)
    BY <1>1, <2>1, EntryIs, Zenon
  <2>3. GateFits(idt_entries[v], v)
    BY <1>5, <2>2 DEF GateFits, EntryHolds
  <2> QED
    BY <1>5, <2>3
<1>6. CASE v \notin Handled
  <2>1. v # 8 /\ v # 128
    BY <1>6 DEF Handled
  <2>2. idt_entries[v] = NullIdtEntry
    BY <1>2, <1>6, <2>1
  <2> QED
    BY <1>6, <2>2 DEF NullIdtEntry
<1> QED
  BY <1>3, <1>4, <1>5, <1>6

----------------------------------------------------------------------------
(* The way into a handler.                                                 *)

\* The fields of a context.
LEMMA CpuParts ==
  ASSUME NEW c \in CpuType
  PROVE  /\ c.cs \in {8, 27} /\ c.ss \in {0, 16, 35} /\ c.rsp \in Int
         /\ c.rip \in Rips /\ c.rip.at \in Int /\ c.rip.step \in 0 .. 3
         /\ c.iflag \in BOOLEAN /\ c.regs \in [Regs -> Values] /\ Low(c) \in Int
<1>1. /\ c.cs \in {8, 27} /\ c.ss \in {0, 16, 35} /\ c.rsp \in Int
      /\ c.rip \in Rips /\ c.iflag \in BOOLEAN /\ c.regs \in [Regs -> Values]
  BY DEF CpuType, KERNEL_CODE_SELECTOR, USER_CODE_SELECTOR, KERNEL_DATA_SELECTOR,
         USER_DATA_SELECTOR, RegFiles
<1>2. c.rip.at \in Int /\ c.rip.step \in 0 .. 3
  BY <1>1 DEF Rips
<1>3. Low(c) \in Int
  BY <1>1 DEF Low
<1> QED
  BY <1>1, <1>2, <1>3

LEMMA Rings ==
  ASSUME cpu \in CpuType
  PROVE  /\ Cpl \in {0, 3}
         /\ Cpl = 0 <=> cpu.cs = 8
         /\ Cpl = 3 <=> cpu.cs = 27
<1>1. cpu.cs \in {8, 27}
  BY CpuParts
<1>2. 8 % 4 = 0 /\ 27 % 4 = 3
  OBVIOUS
<1> QED
  BY <1>1, <1>2 DEF Cpl, Rpl

\* Vectors of causes.
LEMMA MeantIs ==
  ASSUME NEW c \in Causes
  PROVE  /\ Meant(c) \in Handled /\ Meant(c) \in 0 .. 255
         /\ c.kind = "irq" => c.n \in 0 .. 15 /\ Meant(c) = 32 + c.n
         /\ c.kind = "exception" =>
              c.n \in 0 .. 31 /\ Meant(c) = IF c.n \in Handled THEN c.n ELSE 13
         /\ c.kind = "int" => c.n \in 0 .. 255 /\ Meant(c) = IF c.n = 128 THEN 128 ELSE 13
         /\ c.kind \in {"irq", "exception", "int"}
<1>1. /\ c.kind = "irq" => c.n \in 0 .. 15
      /\ c.kind = "exception" => c.n \in 0 .. 31
      /\ c.kind = "int" => c.n \in 0 .. 255
      /\ c.kind \in {"irq", "exception", "int"}
  BY DEF Causes
<1>2. /\ c.kind = "irq" => Meant(c) = 32 + c.n
      /\ c.kind = "exception" => Meant(c) = IF c.n \in Handled THEN c.n ELSE 13
      /\ c.kind = "int" => Meant(c) = IF c.n = 128 THEN 128 ELSE 13
  BY DEF Meant
<1>3. Handled \subseteq 0 .. 255 /\ 13 \in Handled /\ 128 \in Handled
        /\ \A i \in 0 .. 15 : 32 + i \in Handled
  BY DEF Handled
<1>4. Meant(c) \in Handled
  BY <1>1, <1>2, <1>3
<1> QED
  BY <1>1, <1>2, <1>3, <1>4

\* The segment the gates lead to.
LEMMA CodeSegment ==
  ASSUME gdtr = SizeOfGdt - 1
  PROVE  IsCode(Descriptor(8)) /\ Dpl(Descriptor(8)) = 0
<1>1. Len(Gdt) = 5 /\ Gdt[2] = code
  BY DEF Gdt
<1>2. 8 \div 8 = 1 /\ gdtr = 55
  BY <1>1 DEF SizeOfGdt
<1>3. Descriptor(8) = code
  BY <1>1, <1>2 DEF Descriptor
<1>4. code.access = {"PRESENT", "EXECUTABLE", "READ_WRITE"} \cup {"DESCRIPTOR"}
        /\ code.granularity = {"4K", "LONG_MODE"}
  BY DEF code, GdtEntry
<1>5. IsCode(code) /\ Dpl(code) = 0
  BY <1>4 DEF IsCode, Dpl
<1> QED
  BY <1>3, <1>5

\* Which stack a gate leads to.
LEMMA GateStack ==
  ASSUME SegmentsInv, next > 8, NEW v \in Handled
  PROVE  /\ GateFits(IDT[v], v)
         /\ Switches(IDT[v]) <=> v = 8 \/ Cpl # 0
         /\ InTss(StackOffset(IDT[v]))
         /\ FieldAt(StackOffset(IDT[v])) = IF v = 8 THEN IstTop(layout) ELSE KernelTop(layout)
<1>1. /\ layout \in Layouts /\ next \in 1 .. 11 /\ IDT = idt_entries
      /\ tr = [base |-> layout.tss, limit |-> SizeOfTss - 1]
      /\ TSS.rsps[1] = KernelTop(layout) /\ TSS.ists[1] = IstTop(layout)
  BY DEF SegmentsInv, SegmentsType, TablesFit
<1>2. v \in 0 .. 255
  BY DEF Handled
<1>3. GateFits(IDT[v], v)
  BY <1>1, <1>2, GatesAre
<1>4. IDT[v].ist = IF v = 8 THEN 1 ELSE 0
  BY <1>3 DEF GateFits
<1>5. Switches(IDT[v]) <=> v = 8 \/ Cpl # 0
  BY <1>4 DEF Switches
<1>6. StackOffset(IDT[v]) = IF v = 8 THEN 36 ELSE 4
  BY <1>4 DEF StackOffset
<1>7. RspsAt = 4 /\ IstsAt = 36 /\ SizeOfTss = 104
  BY DEF RspsAt, IstsAt, SizeOfTss
<1>8. InTss(4) /\ InTss(36)
  BY <1>1, <1>7 DEF InTss
<1>9. FieldAt(4) = KernelTop(layout)
  <2>1. (4 - 4) \div 8 + 1 = 1
    OBVIOUS
  <2>2. FieldAt(4) = TSS.rsps[(4 - 4) \div 8 + 1]
    BY <1>7 DEF FieldAt
  <2> QED
    BY <1>1, <2>1, <2>2
<1>10. FieldAt(36) = IstTop(layout)
  <2>1. (36 - 36) \div 8 + 1 = 1
    OBVIOUS
  <2>2. FieldAt(36) = TSS.ists[(36 - 36) \div 8 + 1]
    BY <1>7 DEF FieldAt
  <2> QED
    BY <1>1, <2>1, <2>2
<1> QED
  BY <1>3, <1>5, <1>6, <1>8, <1>9, <1>10

\* The gates that can be gone through.
LEMMA GatesOpen ==
  ASSUME SegmentsInv, next > 8, NEW v \in 0 .. 255, NEW b \in BOOLEAN
  PROVE  Deliverable(v, b) <=> v \in Handled /\ (b => v = 128 \/ Cpl = 0)
<1>1. /\ layout \in Layouts /\ IDT = idt_entries /\ idtr = 4095 /\ gdtr = SizeOfGdt - 1
      /\ cpu \in CpuType
  BY DEF SegmentsInv, SegmentsType, TablesFit
<1>2. CASE v \in Handled
  <2>1. /\ IDT[v].present = TRUE /\ IDT[v].selector = 8
        /\ IDT[v].dpl = (IF v = 128 THEN 3 ELSE 0)
    BY <1>2, GateStack DEF GateFits
  <2>2. InTss(StackOffset(IDT[v]))
    BY <1>2, GateStack
  <2>3. IsCode(Descriptor(8)) /\ Dpl(Descriptor(8)) = 0
    BY <1>1, CodeSegment
  <2>4. Cpl \in {0, 3}
    BY <1>1, Rings
  <2>5. 16 * v + 15 <= idtr
    BY <1>1
  <2>6. Dpl(Descriptor(IDT[v].selector)) <= Cpl /\ IsCode(Descriptor(IDT[v].selector))
    BY <2>1, <2>3, <2>4
  <2>7. IDT[v].dpl >= Cpl <=> v = 128 \/ Cpl = 0
    BY <2>1, <2>4
  <2> QED
    BY <1>2, <2>1, <2>2, <2>5, <2>6, <2>7 DEF Deliverable
<1>3. CASE v \notin Handled
  <2>1. IDT[v].present = FALSE
    BY <1>1, <1>3, GatesAre
  <2> QED
    BY <1>3, <2>1 DEF Deliverable
<1> QED
  BY <1>2, <1>3

LEMMA TakenIs ==
  ASSUME SegmentsInv, next > 8, NEW v \in 0 .. 255, NEW b \in BOOLEAN
  PROVE  Taken(v, b) = IF v \in Handled /\ (b => v = 128 \/ Cpl = 0) THEN v ELSE 13
<1>1. Deliverable(v, b) <=> v \in Handled /\ (b => v = 128 \/ Cpl = 0)
  BY GatesOpen
<1>2. 13 \in Handled /\ 13 \in 0 .. 255
  BY DEF Handled
<1>3. Deliverable(13, FALSE)
  BY <1>2, GatesOpen
<1> QED
  BY <1>1, <1>3 DEF Taken

\* Until the IDT is loaded none is.
LEMMA NoneTaken ==
  ASSUME SegmentsInv, ~ (next > 8), NEW v \in 0 .. 255, NEW b \in BOOLEAN
  PROVE  Taken(v, b) = NoVector
<1>1. idtr = -1
  BY DEF SegmentsInv, TablesFit
<1>2. ASSUME NEW w \in 0 .. 255, NEW d \in BOOLEAN
      PROVE  ~ Deliverable(w, d)
  <2>1. ~ (16 * w + 15 <= idtr)
    BY <1>1
  <2> QED
    BY <2>1 DEF Deliverable
<1>3. 13 \in 0 .. 255 /\ 8 \in 0 .. 255
  OBVIOUS
<1> QED
  BY <1>2, <1>3 DEF Taken

----------------------------------------------------------------------------
(* What is on the stacks.                                                  *)

\* From sp on upwards m2 has the words of m.
Keeps(m, m2, sp) == \A a \in Int : \A x : a >= sp /\ Word(m, a, x) => Word(m2, a, x)

LEMMA Pushed ==
  ASSUME NEW sp \in Int, NEW words, NEW n \in Nat, DOMAIN words = 1 .. n
  PROVE  /\ \A i \in 1 .. n : Word(Push(sp, words), sp - 8 * i, words[i])
         /\ Keeps(mem, Push(sp, words), sp)
<1> DEFINE at == {sp - 8 * i : i \in DOMAIN words}
           p == [a \in DOMAIN mem \cup at |-> IF a \in at THEN words[(sp - a) \div 8] ELSE mem[a]]
<1>1. Push(sp, words) = p
  BY DEF Push
<1>2. ASSUME NEW i \in 1 .. n
      PROVE  Word(p, sp - 8 * i, words[i])
  <2>1. sp - 8 * i \in at
    OBVIOUS
  <2>2. (sp - (sp - 8 * i)) \div 8 = i
    <3>1. sp - (sp - 8 * i) = 8 * i
      OBVIOUS
    <3>2. (8 * i) \div 8 = i
      OBVIOUS
    <3> QED
      BY <3>1, <3>2
  <2>3. p[sp - 8 * i] = words[(sp - (sp - 8 * i)) \div 8]
    BY <2>1
  <2>4. p[sp - 8 * i] = words[i]
    BY <2>2, <2>3, Zenon
  <2> QED
    BY <2>1, <2>4 DEF Word
<1>3. ASSUME NEW a \in Int, NEW x, a >= sp, Word(mem, a, x)
      PROVE  Word(p, a, x)
  <2>1. a \notin at
    BY <1>3
  <2>2. a \in DOMAIN mem /\ mem[a] = x
    BY <1>3 DEF Word
  <2> QED
    BY <2>1, <2>2 DEF Word
<1> HIDE DEF p
<1> QED
  BY <1>1, <1>2, <1>3 DEF Keeps

LEMMA FrameKept ==
  ASSUME NEW m, NEW m2, NEW sp \in Int, NEW a \in Int, NEW was,
         Keeps(m, m2, sp), a >= sp, Frame(m, a, was)
  PROVE  Frame(m2, a, was)
<1>1. a + 8 \in Int /\ a + 16 \in Int /\ a + 24 \in Int /\ a + 32 \in Int
        /\ a + 8 >= sp /\ a + 16 >= sp /\ a + 24 >= sp /\ a + 32 >= sp
  OBVIOUS
<1> QED
  BY <1>1 DEF Keeps, Frame

LEMMA RegsKept ==
  ASSUME NEW m, NEW m2, NEW sp \in Int, NEW a \in Int, NEW was,
         Keeps(m, m2, sp), a >= sp, Kept(m, a, was)
  PROVE  Kept(m2, a, was)
<1> SUFFICES ASSUME NEW i \in 1 .. 15
             PROVE  Word(m2, a + 8 * (i - 1), was.regs[popped_regs[i]])
  BY DEF Kept
<1>1. a + 8 * (i - 1) \in Int /\ a + 8 * (i - 1) >= sp
  OBVIOUS
<1>2. Word(m, a + 8 * (i - 1), was.regs[popped_regs[i]])
  BY DEF Kept
<1> QED
  BY <1>1, <1>2 DEF Keeps

LEMMA ErrorLength ==
  ASSUME NEW v
  PROVE  ErrorLen(v) \in {0, 8}
BY DEF ErrorLen

\* A handler's stack stays as it is when words are pushed below.
LEMMA InsideKept ==
  ASSUME NEW m, NEW m2, NEW sp \in Int, NEW c \in CpuType, NEW v, NEW was,
         Keeps(m, m2, sp), c.rsp >= sp, Inside(layout, m, c, v, was)
  PROVE  Inside(layout, m2, c, v, was)
<1>1. c.rsp \in Int /\ Low(c) \in Int
  BY CpuParts
<1>2. Low(c) >= sp
  BY <1>1 DEF Low
<1>3. Low(c) + ErrorLen(v) \in Int /\ Low(c) + ErrorLen(v) >= sp
  BY <1>1, <1>2, ErrorLength
<1>4. Frame(m, Low(c) + ErrorLen(v), was)
  BY DEF Inside
<1>5. Frame(m2, Low(c) + ErrorLen(v), was)
  BY <1>3, <1>4, FrameKept
<1>6. v \in WithError => Word(m2, Low(c), "error")
  BY <1>1, <1>2 DEF Inside, Keeps
<1>7. c.rip.step \in {1, 2} => Kept(m2, c.rsp, was)
  <2> SUFFICES ASSUME c.rip.step \in {1, 2}
               PROVE  Kept(m2, c.rsp, was)
    OBVIOUS
  <2>1. Kept(m, c.rsp, was)
    BY DEF Inside
  <2> QED
    BY <1>1, <2>1, RegsKept
<1> QED
  BY <1>5, <1>6, <1>7 DEF Inside

----------------------------------------------------------------------------
(* A handler is entered.                                                   *)

LEMMA FrameWords ==
  ASSUME NEW a, NEW b, NEW c, NEW d, NEW e
  PROVE  /\ <<a, b, c, d, e>> \o << >> = <<a, b, c, d, e>>
         /\ <<a, b, c, d, e>> \o <<"error">> = <<a, b, c, d, e, "error">>
<1>1. <<a, b, c, d, e>> \o <<"error">> = <<a, b, c, d, e, "error">>
  <2> DEFINE S == {a, b, c, d, e, "error"}
             s == <<a, b, c, d, e>>
             t == <<"error">>
             u == <<a, b, c, d, e, "error">>
  <2>1. s \in Seq(S) /\ t \in Seq(S) /\ u \in Seq(S) /\ Len(s) = 5 /\ Len(t) = 1 /\ Len(u) = 6
    OBVIOUS
  <2>2. (\A i \in 1 .. 5 : s[i] = u[i]) /\ t[1] = u[6]
    <3>1. \A i \in 1 .. 5 : i = 1 \/ i = 2 \/ i = 3 \/ i = 4 \/ i = 5
      OBVIOUS
    <3>2. s[1] = u[1] /\ s[2] = u[2] /\ s[3] = u[3] /\ s[4] = u[4] /\ s[5] = u[5]
      OBVIOUS
    <3>3. t[1] = u[6]
      OBVIOUS
    <3> HIDE DEF s, t, u
    <3> QED
      BY <3>1, <3>2, <3>3
  <2> HIDE DEF S, s, t, u
  <2>3. PICK x : x = s \o t
    OBVIOUS
  <2>4. /\ x \in Seq(S) /\ Len(x) = Len(s) + Len(t)
        /\ \A i \in 1 .. Len(s) + Len(t) : x[i] = IF i <= Len(s) THEN s[i] ELSE t[i - Len(s)]
    BY <2>1, <2>3, ConcatProperties, Zenon
  <2>5. \A i \in 1 .. 6 : x[i] = u[i]
    <3> SUFFICES ASSUME NEW i \in 1 .. 6
                 PROVE  x[i] = u[i]
      OBVIOUS
    <3>1. x[i] = IF i <= 5 THEN s[i] ELSE t[i - 5]
      BY <2>1, <2>4
    <3>2. CASE i <= 5
      BY <2>2, <3>1, <3>2
    <3>3. CASE i = 6
      BY <2>2, <3>1, <3>3
    <3> QED
      BY <3>2, <3>3
  <2>6. Len(x) = Len(u) /\ \A i \in 1 .. Len(x) : x[i] = u[i]
    BY <2>1, <2>4, <2>5
  <2>7. x = u
    BY <2>1, <2>4, <2>6, SeqEqual, Zenon
  <2> QED
    BY <2>3, <2>7 DEF s, t, u
<1>2. <<a, b, c, d, e>> \in Seq({a, b, c, d, e})
  OBVIOUS
<1>3. <<a, b, c, d, e>> \o << >> = <<a, b, c, d, e>>
  BY <1>2, ConcatEmptySeq, Zenon
<1> QED
  BY <1>1, <1>3, Zenon

\* A context made of its fields.
Context(cs, ss, rsp, rip, iflag, regs) ==
  [cs |-> cs, ss |-> ss, rsp |-> rsp, rip |-> rip, iflag |-> iflag, regs |-> regs]

LEMMA ContextIs ==
  ASSUME NEW cs \in {8, 27}, NEW ss \in {0, 16, 35}, NEW rsp \in Int, NEW rip \in Rips,
         NEW iflag \in BOOLEAN, NEW regs \in [Regs -> Values]
  PROVE  Context(cs, ss, rsp, rip, iflag, regs) \in CpuType
BY DEF Context, CpuType, KERNEL_CODE_SELECTOR, USER_CODE_SELECTOR, KERNEL_DATA_SELECTOR,
       USER_DATA_SELECTOR, RegFiles

LEMMA ContextParts ==
  ASSUME NEW cs, NEW ss, NEW rsp, NEW rip, NEW iflag, NEW regs
  PROVE  LET c == Context(cs, ss, rsp, rip, iflag, regs)
         IN  /\ c.cs = cs /\ c.ss = ss /\ c.rsp = rsp /\ c.rip = rip /\ c.iflag = iflag
             /\ c.regs = regs
BY DEF Context

\* Where the frame starts, and the largest multiple of 16 below.
Old(v) == IF v = 8 THEN IstTop(layout) ELSE IF Cpl # 0 THEN KernelTop(layout) ELSE cpu.rsp
Aligned(a) == (a \div 16) * 16

LEMMA AlignedIs ==
  ASSUME NEW a \in Int
  PROVE  Aligned(a) \in Int /\ Aligned(a) <= a /\ Aligned(a) >= a - 15
BY DEF Aligned

LEMMA Entered ==
  ASSUME SegmentsInv, next > 8, NEW cause \in Causes, NEW v, v = Meant(cause),
         NEW error \in BOOLEAN, error <=> v \in WithError, Enter(cause, v, error)
  PROVE  /\ cpu' \in CpuType /\ Inside(layout, mem', cpu', v, cpu)
         /\ saved' = Append(saved, [cause |-> cause, cpu |-> cpu])
         /\ Low(cpu') = cpu'.rsp /\ cpu'.rsp + ErrorLen(v) <= Old(v) - 40 /\ cpu'.rsp >= Old(v) - 63
         /\ v # 8 /\ Cpl = 0 => Keeps(mem, mem', cpu.rsp)
         /\ cpu'.iflag => cpu.iflag /\ v = 128
<1> DEFINE gate == IDT[v]
           sp == Aligned(Old(v))
           five == <<cpu.ss, cpu.rsp, cpu.iflag, cpu.cs, cpu.rip>>
           frame == IF error THEN <<cpu.ss, cpu.rsp, cpu.iflag, cpu.cs, cpu.rip, "error">> ELSE five
           n == IF error THEN 6 ELSE 5
<1>1. layout \in Layouts /\ cpu \in CpuType /\ v \in Handled /\ v \in 0 .. 255
  BY MeantIs DEF SegmentsInv, SegmentsType
<1>2. GateFits(gate, v)
  BY <1>1, GateStack
<1>3. Old(v) = IF Switches(gate) THEN FieldAt(StackOffset(gate)) ELSE cpu.rsp
  BY <1>1, GateStack DEF Old
<1>4. Old(v) \in Int /\ cpu.rsp \in Int
  BY <1>1, LayoutParts, CpuParts DEF Old
<1>5. sp \in Int /\ sp <= Old(v) /\ sp >= Old(v) - 15
  BY <1>4, AlignedIs
<1>6. five \o (IF error THEN <<"error">> ELSE << >>) = frame
  BY FrameWords
<1>7. DOMAIN frame = 1 .. n /\ Len(frame) = n /\ n \in Nat
  <2>1. CASE error
    BY <2>1
  <2>2. CASE ~ error
    BY <2>2
  <2> QED
    BY <2>1, <2>2
<1>8. sp = ((IF Switches(gate) THEN FieldAt(StackOffset(gate)) ELSE cpu.rsp) \div 16) * 16
  BY <1>3, Zenon DEF Aligned
<1> HIDE DEF sp
<1>9. /\ mem' = Push(sp, frame)
      /\ cpu' = [cpu EXCEPT
           !.cs = gate.selector, !.ss = IF Cpl # 0 THEN 0 ELSE @,
           !.rsp = sp - 8 * Len(frame), !.iflag = @ /\ gate.type = "trap",
           !.rip = [at |-> gate.offset_low + gate.offset_mid * RADIX2
                             + gate.offset_high * RADIX4,
                    step |-> 0]]
      /\ saved' = Append(saved, [cause |-> cause, cpu |-> cpu])
  BY <1>6, <1>8, Zenon DEF Enter
<1> DEFINE rip == [at |-> Handler(v), step |-> 0]
<1>10. gate.selector = 8 /\ (gate.type = "trap" <=> v = 128)
         /\ gate.offset_low + gate.offset_mid * RADIX2 + gate.offset_high * RADIX4 = Handler(v)
  BY <1>2 DEF GateFits, Leads
<1>11. Handler(v) \in Int
  <2>1. Handler(v) \in Nat
    BY <1>1, HandlersAre
  <2> QED
    BY <2>1
<1>12. /\ cpu'.cs = 8 /\ cpu'.ss = (IF Cpl # 0 THEN 0 ELSE cpu.ss)
       /\ cpu'.rsp = sp - 8 * n /\ cpu'.iflag = (cpu.iflag /\ gate.type = "trap")
       /\ cpu'.rip = rip /\ cpu'.regs = cpu.regs
  <2>1. cpu' = [cpu EXCEPT
           !.cs = 8, !.ss = IF Cpl # 0 THEN 0 ELSE @,
           !.rsp = sp - 8 * n, !.iflag = @ /\ gate.type = "trap",
           !.rip = rip]
    BY <1>7, <1>9, <1>10, Zenon
  <2> HIDE DEF rip, gate, n, frame
  <2> QED
    BY <1>1, <2>1 DEF CpuType
<1>13. cpu' \in CpuType
  <2>1. cpu' = Context(cpu'.cs, cpu'.ss, cpu'.rsp, cpu'.rip, cpu'.iflag, cpu'.regs)
    BY <1>1, <1>9 DEF CpuType, Context
  <2>2. cpu'.cs \in {8, 27} /\ cpu'.ss \in {0, 16, 35}
    BY <1>1, <1>12, CpuParts
  <2>3. cpu'.rsp \in Int
    BY <1>5, <1>12
  <2>4. cpu'.rip \in Rips
    BY <1>11, <1>12 DEF Rips
  <2>5. cpu'.iflag \in BOOLEAN /\ cpu'.regs \in [Regs -> Values]
    BY <1>1, <1>12, CpuParts
  <2>6. Context(cpu'.cs, cpu'.ss, cpu'.rsp, cpu'.rip, cpu'.iflag, cpu'.regs) \in CpuType
    BY <2>2, <2>3, <2>4, <2>5, ContextIs
  <2> QED
    BY <2>1, <2>6, Zenon
<1>14. Low(cpu') = cpu'.rsp /\ cpu'.rsp \in Int /\ cpu'.rip.step = 0 /\ cpu'.rip.at = Handler(v)
  BY <1>5, <1>12 DEF Low
<1>15. cpu'.rsp + ErrorLen(v) <= Old(v) - 40 /\ cpu'.rsp >= Old(v) - 63
  BY <1>4, <1>5, <1>12 DEF ErrorLen
<1>16. /\ \A i \in 1 .. n : Word(mem', sp - 8 * i, frame[i])
       /\ Keeps(mem, mem', sp)
  <2> HIDE DEF frame, n
  <2>1. /\ \A i \in 1 .. n : Word(Push(sp, frame), sp - 8 * i, frame[i])
        /\ Keeps(mem, Push(sp, frame), sp)
    BY <1>5, <1>7, Pushed
  <2> QED
    BY <1>9, <2>1
<1>17. Frame(mem', Low(cpu') + ErrorLen(v), cpu)
  <2> DEFINE a == sp - 40
  <2>1. Low(cpu') + ErrorLen(v) = a
    BY <1>5, <1>12, <1>14 DEF ErrorLen
  <2>2. /\ frame[1] = cpu.ss /\ frame[2] = cpu.rsp /\ frame[3] = cpu.iflag
        /\ frame[4] = cpu.cs /\ frame[5] = cpu.rip
    OBVIOUS
  <2>3. 1 \in 1 .. n /\ 2 \in 1 .. n /\ 3 \in 1 .. n /\ 4 \in 1 .. n /\ 5 \in 1 .. n
    OBVIOUS
  <2> HIDE DEF frame, n
  <2>4. /\ Word(mem', sp - 8 * 1, cpu.ss) /\ Word(mem', sp - 8 * 2, cpu.rsp)
        /\ Word(mem', sp - 8 * 3, cpu.iflag) /\ Word(mem', sp - 8 * 4, cpu.cs)
        /\ Word(mem', sp - 8 * 5, cpu.rip)
    BY <1>16, <2>2, <2>3, Zenon
  <2>5. /\ sp - 8 * 1 = a + 32 /\ sp - 8 * 2 = a + 24 /\ sp - 8 * 3 = a + 16
        /\ sp - 8 * 4 = a + 8 /\ sp - 8 * 5 = a
    BY <1>5
  <2> HIDE DEF a
  <2> QED
    BY <2>1, <2>4, <2>5, Zenon DEF Frame
<1>18. v \in WithError => Word(mem', Low(cpu'), "error")
  <2> SUFFICES ASSUME v \in WithError
               PROVE  Word(mem', Low(cpu'), "error")
    OBVIOUS
  <2>1. frame[6] = "error" /\ 6 \in 1 .. n /\ Low(cpu') = sp - 8 * 6
    BY <1>12, <1>14
  <2> HIDE DEF frame, n
  <2> QED
    BY <1>16, <2>1, Zenon
<1>19. cpu'.iflag => cpu.iflag /\ v = 128
  BY <1>10, <1>12
<1>20. Inside(layout, mem', cpu', v, cpu)
  <2>1. cpu'.rip.step # 1 /\ cpu'.rip.step # 2 /\ cpu'.rip.step # 3
    BY <1>14
  <2>2. cpu'.regs = cpu.regs /\ cpu'.cs = KERNEL_CODE_SELECTOR
    BY <1>12 DEF KERNEL_CODE_SELECTOR
  <2> QED
    BY <1>14, <1>17, <1>18, <1>19, <2>1, <2>2 DEF Inside, Handler
<1>21. v # 8 /\ Cpl = 0 => Keeps(mem, mem', cpu.rsp)
  <2> SUFFICES ASSUME v # 8, Cpl = 0
               PROVE  Keeps(mem, mem', cpu.rsp)
    OBVIOUS
  <2>1. sp <= cpu.rsp
    BY <1>4, <1>5 DEF Old
  <2> QED
    BY <1>4, <1>5, <1>16, <2>1 DEF Keeps
<1> HIDE DEF frame, n, gate
<1> QED
  BY <1>9, <1>13, <1>14, <1>15, <1>19, <1>20, <1>21

LEMMA TablesKept ==
  ASSUME TablesFit, UNCHANGED tables, next' = next, cpu'.iflag => cpu.iflag,
         shutdown' = shutdown \/ (shutdown'.kind = "exception" /\ next <= 8)
  PROVE  TablesFit'
<1>1. layout' = layout /\ TSS' = TSS /\ IDT' = IDT /\ tss_entry' = tss_entry
        /\ gdtr' = gdtr /\ tr' = tr /\ idtr' = idtr /\ pic' = pic
  BY DEF tables
<1>2. idt_entries' = idt_entries
  BY <1>1 DEF idt_entries, Handler
<1>3. /\ TSS' \in [rsps : [1 .. 3 -> Int], ists : [1 .. 7 -> Int]]
      /\ next' > 1 => TSS'.rsps[1] = KernelTop(layout') /\ TSS'.ists[1] = IstTop(layout')
      /\ next' > 2 => tss_entry' = TssEntry(layout'.tss, SizeOfTss - 1)
      /\ next' > 3 => gdtr' = SizeOfGdt - 1
      /\ next' > 6 => tr' = [base |-> layout'.tss, limit |-> SizeOfTss - 1]
      /\ next' > 7 => IDT' = idt_entries'
      /\ idtr' = IF next' > 8 THEN 4095 ELSE -1
      /\ next' > 9 => pic'
  BY <1>1, <1>2 DEF TablesFit
<1>4. cpu'.iflag => next' = 11
  BY DEF TablesFit
<1>5. shutdown' # NoCause => shutdown'.kind = "exception" /\ next' <= 8
  BY DEF TablesFit
<1> QED
  BY <1>3, <1>4, <1>5, Zenon DEF TablesFit

\* Whatever arrives once the IDT is loaded gets to the handler it is meant for.
Arises(cause, v, b) ==
  \/ cause.kind = "exception" /\ v = cause.n /\ b = FALSE
  \/ cause.kind = "irq" /\ v = 32 + cause.n /\ b = FALSE /\ cpu.iflag
  \/ cause.kind = "int" /\ v = cause.n /\ b = TRUE /\ Cpl = 3

LEMMA TakenAsMeant ==
  ASSUME SegmentsInv, next > 8, NEW cause \in Causes, NEW v \in 0 .. 255, NEW b \in BOOLEAN,
         Arises(cause, v, b)
  PROVE  /\ Taken(v, b) = Meant(cause)
         /\ Meant(cause) \in HasErrorCode /\ (~ Deliverable(v, b) \/ cause.kind = "exception")
              <=> Meant(cause) \in WithError
<1>1. Taken(v, b) = IF v \in Handled /\ (b => v = 128 \/ Cpl = 0) THEN v ELSE 13
  BY TakenIs
<1>2. Deliverable(v, b) <=> v \in Handled /\ (b => v = 128 \/ Cpl = 0)
  BY GatesOpen
<1>3. HasErrorCode = WithError /\ \A w \in WithError : w < 32
  BY DEF HasErrorCode, WithError
<1>4. CASE cause.kind = "exception"
  BY <1>1, <1>3, <1>4, MeantIs DEF Arises
<1>5. CASE cause.kind = "irq"
  <2>1. cause.n \in 0 .. 15 /\ Meant(cause) = 32 + cause.n /\ Meant(cause) \in Handled
    BY <1>5, MeantIs
  <2>2. v = Meant(cause) /\ b = FALSE
    BY <1>5, <2>1 DEF Arises
  <2>3. Meant(cause) \notin WithError
    BY <1>3, <2>1
  <2> QED
    BY <1>1, <1>3, <2>1, <2>2, <2>3
<1>6. CASE cause.kind = "int"
  <2>1. Meant(cause) = (IF v = 128 THEN 128 ELSE 13) /\ b = TRUE /\ Cpl = 3
    BY <1>6, MeantIs DEF Arises
  <2>2. 128 \in Handled
    BY DEF Handled
  <2>3. 128 \notin WithError
    BY <1>3
  <2>4. CASE v = 128
    BY <1>1, <1>3, <2>1, <2>2, <2>3, <2>4
  <2>5. CASE v # 128
    <3>1. Taken(v, b) = 13 /\ ~ Deliverable(v, b) /\ Meant(cause) = 13
      <4>1. b /\ Meant(cause) = 13
        BY <2>1, <2>5
      <4>2. ~ (v = 128 \/ Cpl = 0)
        BY <2>1, <2>5
      <4>3. ~ (b => v = 128 \/ Cpl = 0)
        BY <4>1, <4>2, Zenon
      <4>4. Taken(v, b) = 13
        BY <1>1, <4>3, Zenon
      <4>5. ~ Deliverable(v, b)
        BY <1>2, <4>3, Zenon
      <4> QED
        BY <4>1, <4>4, <4>5
    <3>2. 13 \in WithError
      BY DEF WithError
    <3> QED
      BY <1>3, <3>1, <3>2
  <2> QED
    BY <2>4, <2>5
<1> QED
  BY <1>4, <1>5, <1>6, MeantIs

LEMMA Unloaded ==
  ASSUME SegmentsInv, ~ (next > 8), NEW cause \in Causes, NEW v, NEW b, Arises(cause, v, b)
  PROVE  cause.kind = "exception" /\ next <= 8 /\ saved = << >>
<1>1. next \in 1 .. 11 /\ cpu \in CpuType
  BY DEF SegmentsInv, SegmentsType
<1>2. ~ cpu.iflag /\ saved = << >>
  BY <1>1 DEF SegmentsInv, TablesFit, HandlersFit
<1>3. cpu.cs = 8
  BY <1>1, <1>2 DEF SegmentsInv, HandlersFit, KERNEL_CODE_SELECTOR
<1>4. Cpl # 3
  BY <1>1, <1>3, Rings
<1> QED
  BY <1>1, <1>2, <1>4 DEF Arises

\* The sequence of what was interrupted grows.
LEMMA Interrupted ==
  ASSUME NEW s \in Seq(Entries), NEW e \in Entries, NEW l
  PROVE  /\ Append(s, e) \in Seq(Entries) /\ Append(s, e) # << >>
         /\ Len(Append(s, e)) = Len(s) + 1 /\ Append(s, e)[Len(s) + 1] = e
         /\ \A i \in 1 .. Len(s) : Append(s, e)[i] = s[i]
         /\ s # << >> => Len(s) \in Nat \ {0} /\ Append(s, e)[1] = s[1]
         /\ Top(l, Append(s, e)) =
              IF V(e) = 8 THEN IstTop(l)
              ELSE IF s = << >> THEN Base(l, e.cpu) ELSE Top(l, s)
<1>1. /\ Append(s, e) \in Seq(Entries) /\ Append(s, e) # << >>
      /\ Len(Append(s, e)) = Len(s) + 1 /\ Append(s, e)[Len(s) + 1] = e
      /\ \A i \in 1 .. Len(s) : Append(s, e)[i] = s[i]
  BY AppendProperties
<1>2. Len(s) \in Nat /\ (s = << >> <=> Len(s) = 0) /\ DOMAIN s = 1 .. Len(s)
  OBVIOUS
<1>3. s # << >> => Len(s) \in Nat \ {0} /\ Append(s, e)[1] = s[1]
  BY <1>1, <1>2
<1>4. PICK t : t = Append(s, e)
  OBVIOUS
<1>5. /\ DOMAIN t = 1 .. Len(s) + 1 /\ t[Len(s) + 1] = e
      /\ \A i \in 1 .. Len(s) : t[i] = s[i]
      /\ s # << >> => t[1] = s[1]
  <2>1. t \in Seq(Entries) /\ Len(t) = Len(s) + 1
    BY <1>1, <1>4, Zenon
  <2>2. DOMAIN t = 1 .. Len(s) + 1
    BY <2>1
  <2> QED
    BY <1>1, <1>3, <1>4, <2>2, Zenon
<1>6. (\E i \in DOMAIN t : V(t[i]) = 8) <=> V(e) = 8 \/ \E i \in DOMAIN s : V(s[i]) = 8
  BY <1>2, <1>5
<1>7. s = << >> => t[1] = e /\ DOMAIN s = {}
  BY <1>2, <1>5
<1>8. Top(l, t) = IF V(e) = 8 THEN IstTop(l)
                  ELSE IF s = << >> THEN Base(l, e.cpu) ELSE Top(l, s)
  BY <1>5, <1>6, <1>7 DEF Top
<1> QED
  BY <1>1, <1>3, <1>4, <1>8, Zenon

\* An event: a handler is entered, or there is no IDT yet.
LEMMA Arrival ==
  ASSUME SegmentsInv, NEW cause \in Causes, NEW v \in 0 .. 255, NEW b \in BOOLEAN,
         Arises(cause, v, b), Arrive(cause, v, b)
  PROVE  SegmentsInv'
<1> DEFINE e == [cause |-> cause, cpu |-> cpu]
           w == Meant(cause)
<1>1. /\ layout \in Layouts /\ next \in 1 .. 11 /\ cpu \in CpuType /\ saved \in Seq(Entries)
      /\ events \in 0 .. MaxEvents /\ Len(saved) <= events /\ TablesFit /\ MaxEvents \in Nat
      /\ cpu.rsp \in Int
  BY CpuParts, SegmentsAssumption DEF SegmentsInv, SegmentsType
<1>2. /\ layout' = layout /\ next' = next /\ events' = events + 1 /\ events < MaxEvents
      /\ UNCHANGED tables
  BY DEF Arrive, tables
<1>3. events' \in 0 .. MaxEvents
  BY <1>1, <1>2
<1>4. CASE next > 8
  <2>1. /\ Taken(v, b) = w
        /\ w \in HasErrorCode /\ (~ Deliverable(v, b) \/ cause.kind = "exception")
             <=> w \in WithError
    BY <1>4, TakenAsMeant
  <2>2. w \in Handled /\ w \in 0 .. 255 /\ w # NoVector
    BY MeantIs DEF NoVector
  <2>3. PICK error \in BOOLEAN :
          error = (w \in HasErrorCode /\ (~ Deliverable(v, b) \/ cause.kind = "exception"))
    OBVIOUS
  <2>4. error <=> w \in WithError
    BY <2>1, <2>3
  <2>5. Enter(cause, w, error) /\ shutdown' = shutdown
    BY <2>1, <2>2, <2>3 DEF Arrive
  <2>6. /\ cpu' \in CpuType /\ Inside(layout, mem', cpu', w, cpu)
        /\ saved' = Append(saved, e)
        /\ Low(cpu') = cpu'.rsp /\ cpu'.rsp + ErrorLen(w) <= Old(w) - 40 /\ cpu'.rsp >= Old(w) - 63
        /\ w # 8 /\ Cpl = 0 => Keeps(mem, mem', cpu.rsp)
        /\ cpu'.iflag => cpu.iflag /\ w = 128
    BY <1>4, <2>4, <2>5, Entered
  <2>7. e \in Entries /\ V(e) = w /\ e.cpu = cpu
    BY <1>1 DEF Entries, V
  <2> HIDE DEF e
  <2>8. /\ saved' \in Seq(Entries) /\ saved' # << >> /\ Len(saved') = Len(saved) + 1
        /\ saved'[Len(saved) + 1] = e
        /\ \A i \in 1 .. Len(saved) : saved'[i] = saved[i]
        /\ saved # << >> => Len(saved) \in Nat \ {0} /\ saved'[1] = saved[1]
        /\ Top(layout, saved') =
              IF V(e) = 8 THEN IstTop(layout)
              ELSE IF saved = << >> THEN Base(layout, e.cpu) ELSE Top(layout, saved)
    <3>1. PICK t : t = Append(saved, e)
      OBVIOUS
    <3>2. /\ t \in Seq(Entries) /\ t # << >> /\ Len(t) = Len(saved) + 1
          /\ t[Len(saved) + 1] = e
          /\ \A i \in 1 .. Len(saved) : t[i] = saved[i]
          /\ saved # << >> => Len(saved) \in Nat \ {0} /\ t[1] = saved[1]
          /\ Top(layout, t) =
                IF V(e) = 8 THEN IstTop(layout)
                ELSE IF saved = << >> THEN Base(layout, e.cpu) ELSE Top(layout, saved)
      BY <1>1, <2>7, <3>1, Interrupted
    <3> QED
      BY <2>6, <3>1, <3>2, Zenon
  <2>9. Len(saved) \in Nat /\ (saved = << >> <=> Len(saved) = 0)
    BY <1>1
  <2>10. SegmentsType'
    BY <1>1, <1>2, <1>3, <2>6, <2>8, <2>9 DEF SegmentsType
  <2>11. TablesFit'
    BY <1>1, <1>2, <2>5, <2>6, TablesKept
  <2>12. saved'[Len(saved')] = e
    BY <2>8, Zenon
  <2>13. Outside(layout, saved'[1].cpu)
    <3>1. CASE saved = << >>
      <4>1. saved'[1] = e
        BY <2>8, <2>9, <3>1
      <4> QED
        BY <2>7, <3>1, <4>1 DEF SegmentsInv, HandlersFit
    <3>2. CASE saved # << >>
      BY <2>8, <3>2 DEF SegmentsInv, HandlersFit
    <3> QED
      BY <3>1, <3>2
  <2>14. /\ saved = << >> => Old(w) = IF w = 8 THEN IstTop(layout) ELSE Base(layout, cpu)
         /\ saved # << >> => Cpl = 0
    <3>1. cpu.cs \in {8, 27} /\ (Cpl = 0 <=> cpu.cs = 8)
      BY <1>1, Rings, CpuParts
    <3>2. saved # << >> => cpu.cs = 8
      BY DEF SegmentsInv, HandlersFit, Inside, KERNEL_CODE_SELECTOR
    <3>3. saved = << >> => (cpu.cs = 8 => cpu.rsp = layout.boot_stack)
      BY DEF SegmentsInv, HandlersFit, Outside, KERNEL_CODE_SELECTOR
    <3> QED
      BY <3>1, <3>2, <3>3 DEF Old, Base, USER_CODE_SELECTOR
  <2>15. Stacked(cpu', w, Top(layout, saved'), Len(saved) + 1)
    <3>1. PICK top : top = Top(layout, saved')
      OBVIOUS
    <3>2. top \in Int /\ Old(w) \in Int
      <4>1. KernelTop(layout) \in Int /\ IstTop(layout) \in Int /\ layout.boot_stack \in Int
        BY <1>1, LayoutParts
      <4> QED
        BY <1>1, <3>1, <4>1 DEF Top, Base, Old
    <3>3. Old(w) <= top /\ Old(w) >= top - 183 * Len(saved)
      <4>1. CASE w = 8 \/ saved = << >>
        <5>1. top = Old(w)
          BY <2>7, <2>8, <2>14, <3>1, <4>1 DEF Old
        <5> QED
          BY <2>9, <3>2, <5>1
      <4>2. CASE w # 8 /\ saved # << >>
        <5>1. top = Top(layout, saved) /\ Old(w) = cpu.rsp
          BY <2>7, <2>8, <2>14, <3>1, <4>2 DEF Old
        <5>2. Stacked(cpu, V(saved[Len(saved)]), top, Len(saved))
          BY <4>2, <5>1 DEF SegmentsInv, HandlersFit
        <5>3. Low(cpu) <= cpu.rsp + 120 /\ cpu.rsp <= Low(cpu)
          BY <1>1 DEF Low
        <5>4. Low(cpu) \in Int /\ cpu.rsp \in Int
          BY <1>1, CpuParts
        <5>5. PICK n \in {0, 8} : n = ErrorLen(V(saved[Len(saved)]))
          BY ErrorLength
        <5>6. Low(cpu) + n <= top - 40 /\ Low(cpu) >= top - 183 * Len(saved) + 120
          BY <5>2, <5>5 DEF Stacked
        <5>7. PICK low \in Int, rsp \in Int : low = Low(cpu) /\ rsp = cpu.rsp
          BY <5>4
        <5>8. rsp <= top /\ rsp >= top - 183 * Len(saved)
          BY <2>9, <3>2, <5>3, <5>5, <5>6, <5>7
        <5> QED
          BY <5>1, <5>7, <5>8
      <4> QED
        BY <4>1, <4>2
    <3>4. cpu'.rsp \in Int
      BY <2>6, CpuParts
    <3> QED
      <4>1. Stacked(cpu', w, top, Len(saved) + 1)
        BY <2>6, <2>9, <3>2, <3>3, <3>4, ErrorLength DEF Stacked
      <4> QED
        BY <3>1, <4>1, Zenon
  <2>16. w >= 32 => Returns'
    <3> SUFFICES ASSUME w >= 32
                 PROVE  Returns'
      OBVIOUS
    <3>1. CASE saved = << >>
      <4>1. next = 11
        <5>1. CASE cause.kind = "irq"
          BY <1>1, <5>1 DEF Arises, TablesFit
        <5>2. CASE cause.kind = "int"
          <6>1. cpu.cs = 27
            BY <1>1, <5>2, Rings DEF Arises
          <6>2. next < 11 => cpu.cs = 8
            BY <3>1 DEF SegmentsInv, HandlersFit, KERNEL_CODE_SELECTOR
          <6> QED
            BY <1>1, <6>1, <6>2
        <5>3. cause.kind # "exception"
          <6>1. \A n \in 0 .. 31 : ~ (n >= 32)
            OBVIOUS
          <6> QED
            BY <6>1, MeantIs
        <5> QED
          BY <5>1, <5>2, <5>3, MeantIs
      <4>2. Len(saved') = 1
        BY <2>8, <2>9, <3>1
      <4> QED
        BY <1>2, <4>1, <4>2 DEF Returns
    <3>2. CASE saved # << >>
      <4>1. Cpl = 0
        BY <2>14, <3>2
      <4>2. cause.kind = "irq" /\ cpu.iflag /\ w # 128 /\ w # 8
        <5>1. cause.kind # "exception"
          <6>1. \A n \in 0 .. 31 : ~ (n >= 32)
            OBVIOUS
          <6> QED
            BY <6>1, MeantIs
        <5>2. cause.kind # "int"
          BY <4>1 DEF Arises
        <5>3. cause.kind = "irq" /\ cpu.iflag
          BY <5>1, <5>2 DEF Arises
        <5>4. cause.n \in 0 .. 15 /\ w = 32 + cause.n
          BY <5>3, MeantIs
        <5> QED
          BY <5>3, <5>4
      <4>3. V(saved[Len(saved)]) = 128 /\ Inside(layout, mem, cpu, 128, saved[Len(saved)].cpu)
        BY <3>2, <4>2 DEF SegmentsInv, HandlersFit, Inside
      <4>4. Returns
        BY <3>2, <4>3 DEF SegmentsInv, HandlersFit
      <4>5. Len(saved) = 1 /\ next = 11
        BY <4>3, <4>4 DEF Returns
      <4>6. /\ Len(saved') = 2 /\ saved'[1] = saved[1] /\ saved'[2] = e
        BY <2>8, <4>5
      <4>7. Inside(layout, mem', cpu, 128, saved[1].cpu)
        <5>1. Keeps(mem, mem', cpu.rsp)
          BY <2>6, <4>1, <4>2
        <5>2. cpu.rsp >= cpu.rsp
          BY <1>1
        <5>3. Inside(layout, mem, cpu, 128, saved[1].cpu)
          BY <4>3, <4>5
        <5> QED
          BY <1>1, <5>1, <5>2, <5>3, InsideKept, Zenon
      <4>8. Stacked(cpu, 128, Base(layout, saved[1].cpu), 1)
        <5>1. Stacked(cpu, 128, Top(layout, saved), 1)
          BY <3>2, <4>3, <4>5 DEF SegmentsInv, HandlersFit
        <5>2. DOMAIN saved = {1}
          BY <1>1, <4>5
        <5>3. V(saved[1]) = 128
          BY <4>3, <4>5
        <5>4. ~ \E i \in DOMAIN saved : V(saved[i]) = 8
          BY <5>2, <5>3
        <5>5. Top(layout, saved) = Base(layout, saved[1].cpu)
          BY <5>4 DEF Top
        <5> QED
          BY <5>1, <5>5
      <4>9. Low(cpu') <= cpu.rsp
        <5>1. Old(w) = cpu.rsp
          BY <4>1, <4>2 DEF Old
        <5>2. cpu'.rsp \in Int /\ cpu.rsp \in Int
          BY <1>1, <2>6, CpuParts
        <5>3. PICK n \in {0, 8} : n = ErrorLen(w)
          BY ErrorLength
        <5>4. Low(cpu') = cpu'.rsp /\ cpu'.rsp + n <= cpu.rsp - 40
          BY <2>6, <5>1, <5>3
        <5> QED
          BY <5>2, <5>3, <5>4
      <4>10. V(saved'[1]) = 128 /\ V(saved'[2]) # 128
        BY <2>7, <4>2, <4>3, <4>5, <4>6
      <4>11. /\ Inside(layout', mem', saved'[2].cpu, 128, saved'[1].cpu)
             /\ Stacked(saved'[2].cpu, 128, Base(layout', saved'[1].cpu), 1)
             /\ Low(cpu') <= saved'[2].cpu.rsp
        BY <1>2, <2>7, <4>6, <4>7, <4>8, <4>9, Zenon
      <4> QED
        BY <1>2, <4>5, <4>6, <4>10, <4>11 DEF Returns
    <3> QED
      BY <3>1, <3>2
  <2>17. \A i \in 2 .. Len(saved') : saved'[i].cpu.cs = KERNEL_CODE_SELECTOR
    <3> SUFFICES ASSUME NEW i \in 2 .. Len(saved')
                 PROVE  saved'[i].cpu.cs = 8
      BY DEF KERNEL_CODE_SELECTOR
    <3>1. CASE i = Len(saved) + 1
      <4>1. cpu.cs = 8
        BY <1>1, <2>8, <2>9, <2>14, <3>1, Rings
      <4> QED
        BY <2>7, <2>8, <3>1, <4>1
    <3>2. CASE i \in 2 .. Len(saved)
      <4>1. saved # << >> /\ i \in 1 .. Len(saved)
        BY <2>9, <3>2
      <4>2. saved[i].cpu.cs = 8
        BY <3>2, <4>1 DEF SegmentsInv, HandlersFit, KERNEL_CODE_SELECTOR
      <4> QED
        BY <2>8, <4>1, <4>2
    <3> QED
      BY <2>8, <2>9, <3>1, <3>2
  <2>18. HandlersFit'
    <3>1. V(saved'[Len(saved')]) = w /\ saved'[Len(saved')].cpu = cpu
      BY <2>7, <2>12, Zenon
    <3>2. Inside(layout', mem', cpu', V(saved'[Len(saved')]), saved'[Len(saved')].cpu)
      BY <1>2, <2>6, <3>1, Zenon
    <3>3. Stacked(cpu', V(saved'[Len(saved')]), Top(layout', saved'), Len(saved'))
      BY <1>2, <2>8, <2>15, <3>1, Zenon
    <3>4. Outside(layout', saved'[1].cpu)
      BY <1>2, <2>13, Zenon
    <3>5. next' > 8
      BY <1>2, <1>4
    <3>6. V(saved'[Len(saved')]) >= 32 => Returns'
      BY <2>16, <3>1, Zenon
    <3> QED
      BY <2>8, <2>17, <3>2, <3>3, <3>4, <3>5, <3>6, Zenon DEF HandlersFit
  <2> QED
    BY <2>10, <2>11, <2>18 DEF SegmentsInv
<1>5. CASE ~ (next > 8)
  <2>1. cause.kind = "exception" /\ next <= 8 /\ saved = << >>
    BY <1>5, Unloaded
  <2>2. Taken(v, b) = NoVector
    BY <1>5, NoneTaken
  <2>3. shutdown' = cause /\ UNCHANGED <<cpu, mem, saved>>
    BY <2>2 DEF Arrive
  <2>4. SegmentsType'
    BY <1>1, <1>2, <1>3, <2>3 DEF SegmentsType
  <2>5. TablesFit'
    BY <1>1, <1>2, <2>1, <2>3, TablesKept
  <2>6. HandlersFit'
    BY <1>2, <2>1, <2>3 DEF SegmentsInv, HandlersFit
  <2> QED
    BY <2>4, <2>5, <2>6 DEF SegmentsInv
<1> QED
  BY <1>4, <1>5

----------------------------------------------------------------------------
(* The entry code of the handlers.                                         *)

\* The handler that runs is the one of what came last.
Latest == saved[Len(saved)]

LEMMA RunningIs ==
  ASSUME SegmentsInv, NEW S, NEW k, AtStep(S, k)
  PROVE  /\ saved # << >> /\ saved \in Seq(Entries) /\ Latest \in Entries
         /\ V(Latest) \in S /\ V(Latest) \in Handled /\ V(Latest) \in 0 .. 255
         /\ Running = {V(Latest)} /\ cpu.rip.step = k /\ shutdown = NoCause
         /\ Inside(layout, mem, cpu, V(Latest), Latest.cpu)
         /\ cpu \in CpuType /\ layout \in Layouts /\ Latest.cpu \in CpuType
<1>1. /\ saved \in Seq(Entries) /\ layout \in Layouts /\ cpu \in CpuType
  BY DEF SegmentsInv, SegmentsType
<1>2. Running \cap S # {} /\ cpu.rip.step = k /\ shutdown = NoCause
  BY DEF AtStep
<1>3. saved # << >>
  BY <1>2 DEF Running
<1>4. Latest \in Entries
  BY <1>1, <1>3 DEF Latest
<1>5. Latest.cause \in Causes /\ Latest.cpu \in CpuType
  BY <1>4 DEF Entries
<1>6. V(Latest) \in Handled /\ V(Latest) \in 0 .. 255
  BY <1>5, MeantIs DEF V
<1>7. Inside(layout, mem, cpu, V(Latest), Latest.cpu)
  BY <1>3 DEF SegmentsInv, HandlersFit, Latest
<1>8. cpu.rip.at = Handler(V(Latest))
  BY <1>7 DEF Inside, Handler
<1>9. Handled \subseteq 0 .. 255
  BY DEF Handled
<1>10. \A w \in Handled : Handler(w) = Handler(V(Latest)) => w = V(Latest)
  BY <1>1, <1>6, <1>9, HandlersAre
<1>11. Running = {V(Latest)}
  BY <1>3, <1>6, <1>8, <1>10 DEF Running
<1>12. V(Latest) \in S
  BY <1>2, <1>11
<1> QED
  BY <1>1, <1>2, <1>3, <1>4, <1>5, <1>6, <1>7, <1>11, <1>12

\* A step of a handler that leaves its frame where it is.
LEMMA HandlerStep ==
  ASSUME SegmentsInv, saved # << >>, UNCHANGED <<tables, next, saved, shutdown, events>>,
         cpu' \in CpuType, cpu'.iflag => cpu.iflag, Low(cpu') = Low(cpu),
         Keeps(mem, mem', Low(cpu)), Inside(layout, mem', cpu', V(Latest), Latest.cpu)
  PROVE  SegmentsInv'
<1>1. layout' = layout /\ next' = next /\ saved' = saved /\ shutdown' = shutdown
        /\ events' = events /\ UNCHANGED tables
  BY DEF tables
<1>2. SegmentsType'
  BY <1>1 DEF SegmentsInv, SegmentsType
<1>3. TablesFit'
  BY <1>1, TablesKept DEF SegmentsInv
<1>4. Stacked(cpu', V(saved[Len(saved)]), Top(layout, saved), Len(saved))
  <2>1. Stacked(cpu, V(saved[Len(saved)]), Top(layout, saved), Len(saved))
    BY DEF SegmentsInv, HandlersFit
  <2> QED
    BY <2>1 DEF Stacked
<1>5. ASSUME Returns
      PROVE  Returns'
  <2>1. next' = 11 /\ Len(saved') \in {1, 2}
    BY <1>1, <1>5 DEF Returns
  <2>2. ASSUME Len(saved) = 2
        PROVE  /\ V(saved[1]) = 128 /\ V(saved[2]) # 128
               /\ Inside(layout, mem', saved[2].cpu, 128, saved[1].cpu)
               /\ Stacked(saved[2].cpu, 128, Base(layout, saved[1].cpu), 1)
               /\ Low(cpu') <= saved[2].cpu.rsp
    <3>1. /\ V(saved[1]) = 128 /\ V(saved[2]) # 128
          /\ Inside(layout, mem, saved[2].cpu, 128, saved[1].cpu)
          /\ Stacked(saved[2].cpu, 128, Base(layout, saved[1].cpu), 1)
          /\ Low(cpu) <= saved[2].cpu.rsp
      BY <1>5, <2>2 DEF Returns
    <3>2. saved \in Seq(Entries) /\ cpu \in CpuType
      BY DEF SegmentsInv, SegmentsType
    <3>3. saved[2] \in Entries
      <4>1. 2 \in 1 .. Len(saved)
        BY <2>2
      <4> QED
        BY <3>2, <4>1, ElementOfSeq, Zenon
    <3>4. saved[2].cpu \in CpuType
      BY <3>3 DEF Entries
    <3>5. Low(cpu) \in Int /\ saved[2].cpu.rsp \in Int
      BY <3>2, <3>4, CpuParts
    <3>6. saved[2].cpu.rsp >= Low(cpu)
      BY <3>1, <3>5
    <3>7. Inside(layout, mem', saved[2].cpu, 128, saved[1].cpu)
      <4>1. PICK c, sp : c = saved[2].cpu /\ sp = Low(cpu)
        OBVIOUS
      <4>2. c \in CpuType /\ sp \in Int /\ c.rsp >= sp
        BY <3>4, <3>5, <3>6, <4>1
      <4>3. Inside(layout, mem, c, 128, saved[1].cpu) /\ Keeps(mem, mem', sp)
        BY <3>1, <4>1, Zenon
      <4>4. Inside(layout, mem', c, 128, saved[1].cpu)
        BY <4>2, <4>3, InsideKept
      <4> QED
        BY <4>1, <4>4, Zenon
    <3> QED
      BY <3>1, <3>7
  <2> QED
    BY <1>1, <2>1, <2>2 DEF Returns
<1>6. HandlersFit'
  <2>1. /\ next > 8 /\ Outside(layout, saved[1].cpu)
        /\ V(saved[Len(saved)]) >= 32 => Returns
    BY DEF SegmentsInv, HandlersFit
  <2>2. Inside(layout', mem', cpu', V(saved'[Len(saved')]), saved'[Len(saved')].cpu)
    BY <1>1, Zenon DEF Latest
  <2>3. Stacked(cpu', V(saved'[Len(saved')]), Top(layout', saved'), Len(saved'))
    BY <1>1, <1>4, Zenon
  <2>4. next' > 8 /\ Outside(layout', saved'[1].cpu)
        /\ (V(saved'[Len(saved')]) >= 32 => Returns')
    BY <1>1, <1>5, <2>1, Zenon
  <2>5. saved' # << >>
    BY <1>1
  <2>6. \A i \in 2 .. Len(saved') : saved'[i].cpu.cs = KERNEL_CODE_SELECTOR
    BY <1>1 DEF SegmentsInv, HandlersFit
  <2> QED
    BY <2>2, <2>3, <2>4, <2>5, <2>6, Zenon DEF HandlersFit
<1> QED
  BY <1>2, <1>3, <1>6 DEF SegmentsInv

LEMMA KeepsAll ==
  ASSUME NEW m, NEW sp
  PROVE  Keeps(m, m, sp)
BY DEF Keeps

\* The registers that are pushed.
LEMMA PushedRegs ==
  /\ Len(Push15) = 15 /\ DOMAIN Push15 = 1 .. 15
  /\ Len(popped_regs) = 15 /\ DOMAIN popped_regs = 1 .. 15
  /\ \A i \in 1 .. 15 : popped_regs[i] = Push15[16 - i] /\ popped_regs[i] \in Regs
  /\ \A r \in Regs : \E i \in 1 .. 15 : popped_regs[i] = r
  /\ "rdi" \in Regs
<1>1. Len(Push15) = 15 /\ DOMAIN Push15 = 1 .. 15
  BY DEF Push15
<1>2. popped_regs = [i \in 1 .. 15 |-> Push15[(15 - i) + 1]]
  BY <1>1 DEF popped_regs, Reverse
<1>3. Len(popped_regs) = 15 /\ DOMAIN popped_regs = 1 .. 15
  BY <1>2
<1>4. \A i \in 1 .. 15 : popped_regs[i] = Push15[16 - i]
  <2> SUFFICES ASSUME NEW i \in 1 .. 15
               PROVE  popped_regs[i] = Push15[16 - i]
    OBVIOUS
  <2>1. (15 - i) + 1 = 16 - i
    OBVIOUS
  <2>2. popped_regs[i] = Push15[(15 - i) + 1]
    BY <1>2
  <2> QED
    BY <2>1, <2>2, Zenon
<1>5. Regs = {Push15[i] : i \in 1 .. 15}
  BY <1>1 DEF Regs, ToSet
<1>6. \A i \in 1 .. 15 : 16 - i \in 1 .. 15 /\ 16 - (16 - i) = i
  OBVIOUS
<1>7. \A i \in 1 .. 15 : popped_regs[i] \in Regs
  BY <1>4, <1>5, <1>6
<1>8. \A r \in Regs : \E i \in 1 .. 15 : popped_regs[i] = r
  BY <1>4, <1>5, <1>6
<1>9. "rdi" \in Regs
  <2>1. Push15[6] = "rdi" /\ 6 \in 1 .. 15
    BY DEF Push15
  <2> QED
    BY <1>5, <2>1
<1> QED
  BY <1>1, <1>3, <1>4, <1>7, <1>8, <1>9

\* What a step of the handler of v has to take care of.
LEMMA StillInside ==
  ASSUME NEW l, NEW m, NEW m2, NEW c \in CpuType, NEW c2, NEW v, NEW was,
         Inside(l, m, c, v, was), Keeps(m, m2, Low(c)), Low(c2) = Low(c),
         c2.rip.at = c.rip.at, c2.cs = c.cs, c2.iflag => c.iflag,
         c2.rip.step = 3 => v >= 32,
         c2.rip.step \in {1, 2} => Kept(m2, c2.rsp, was),
         c2.rip.step \in {0, 1, 3} => c2.regs = was.regs,
         c2.rip.step = 2 /\ v < 32 => c2.regs["rdi"] = c2.rsp
  PROVE  Inside(l, m2, c2, v, was)
<1>1. Low(c) \in Int /\ Low(c) >= Low(c)
  BY CpuParts
<1>2. Low(c) + ErrorLen(v) \in Int /\ Low(c) + ErrorLen(v) >= Low(c)
  BY <1>1, ErrorLength
<1>3. Frame(m, Low(c) + ErrorLen(v), was) /\ (v \in WithError => Word(m, Low(c), "error"))
  BY DEF Inside
<1>4. Frame(m2, Low(c2) + ErrorLen(v), was)
  <2>1. PICK a, sp : a = Low(c) + ErrorLen(v) /\ sp = Low(c)
    OBVIOUS
  <2>2. a \in Int /\ sp \in Int /\ a >= sp /\ Keeps(m, m2, sp) /\ Frame(m, a, was)
    BY <1>1, <1>2, <1>3, <2>1, Zenon
  <2>3. Frame(m2, a, was)
    BY <2>2, FrameKept
  <2> QED
    BY <2>1, <2>3, Zenon
<1>5. v \in WithError => Word(m2, Low(c2), "error")
  BY <1>1, <1>3, Zenon DEF Keeps
<1> QED
  BY <1>4, <1>5 DEF Inside

LEMMA PushStep ==
  ASSUME SegmentsInv, push_regs
  PROVE  SegmentsInv'
<1> DEFINE v == V(Latest)
           was == Latest.cpu
           rip == [at |-> cpu.rip.at, step |-> 1]
<1>1. AtStep(Handled, 0)
  BY DEF push_regs
<1>2. /\ saved # << >> /\ v \in 0 .. 255 /\ cpu.rip.step = 0
      /\ Inside(layout, mem, cpu, v, was)
      /\ cpu \in CpuType /\ layout \in Layouts /\ was \in CpuType
  BY <1>1, RunningIs
<1>3. /\ cpu.cs \in {8, 27} /\ cpu.ss \in {0, 16, 35} /\ cpu.rsp \in Int /\ cpu.rip.at \in Int
      /\ cpu.iflag \in BOOLEAN /\ cpu.regs \in [Regs -> Values] /\ Low(cpu) \in Int
  BY <1>2, CpuParts
<1>4. cpu' = [cpu EXCEPT !.rsp = @ - 120, !.rip = rip]
  BY PushedRegs DEF push_regs, Goto
<1>5. cpu' = Context(cpu.cs, cpu.ss, cpu.rsp - 120, rip, cpu.iflag, cpu.regs)
  BY <1>2, <1>4 DEF CpuType, Context
<1>6. rip \in Rips /\ cpu.rsp - 120 \in Int
  BY <1>3 DEF Rips
<1>7. rip.at = cpu.rip.at /\ rip.step = 1
  OBVIOUS
<1> HIDE DEF rip
<1>8. cpu' \in CpuType
  BY <1>3, <1>5, <1>6, ContextIs
<1>9. /\ cpu'.cs = cpu.cs /\ cpu'.rsp = cpu.rsp - 120 /\ cpu'.rip = rip
      /\ cpu'.iflag = cpu.iflag /\ cpu'.regs = cpu.regs
  BY <1>5 DEF Context
<1>10. cpu'.rip.at = cpu.rip.at /\ cpu'.rip.step = 1
  BY <1>7, <1>9
<1>11. Low(cpu') = Low(cpu) /\ Low(cpu) = cpu.rsp
  BY <1>2, <1>3, <1>9, <1>10 DEF Low
<1>12. DOMAIN pushed_regs = 1 .. 15 /\ \A i \in 1 .. 15 : pushed_regs[i] = cpu.regs[Push15[i]]
  BY PushedRegs DEF pushed_regs
<1>13. /\ \A i \in 1 .. 15 : Word(mem', cpu.rsp - 8 * i, pushed_regs[i])
       /\ Keeps(mem, mem', cpu.rsp)
  <2>1. mem' = Push(cpu.rsp, pushed_regs)
    BY DEF push_regs
  <2>2. 15 \in Nat
    OBVIOUS
  <2>3. /\ \A i \in 1 .. 15 : Word(Push(cpu.rsp, pushed_regs), cpu.rsp - 8 * i, pushed_regs[i])
        /\ Keeps(mem, Push(cpu.rsp, pushed_regs), cpu.rsp)
    BY <1>3, <1>12, <2>2, Pushed
  <2> QED
    BY <2>1, <2>3, Zenon
<1>14. cpu.regs = was.regs
  BY <1>2 DEF Inside
<1>15. Kept(mem', cpu'.rsp, was)
  <2> SUFFICES ASSUME NEW i \in 1 .. 15
               PROVE  Word(mem', cpu'.rsp + 8 * (i - 1), was.regs[popped_regs[i]])
    BY DEF Kept
  <2>1. PICK j : j = 16 - i
    OBVIOUS
  <2>2. j \in 1 .. 15 /\ cpu'.rsp + 8 * (i - 1) = cpu.rsp - 8 * j
    BY <1>3, <1>9, <2>1
  <2>3. popped_regs[i] = Push15[j]
    BY <2>1, PushedRegs
  <2>4. pushed_regs[j] = was.regs[popped_regs[i]]
    BY <1>12, <1>14, <2>2, <2>3
  <2> QED
    BY <1>13, <2>2, <2>4
<1>16. Keeps(mem, mem', Low(cpu))
  BY <1>11, <1>13, Zenon
<1>17. cpu'.rip.step # 2 /\ cpu'.rip.step # 3 /\ cpu'.regs = was.regs
  BY <1>9, <1>10, <1>14
<1>18. Inside(layout, mem', cpu', v, was)
  BY <1>2, <1>9, <1>10, <1>11, <1>15, <1>16, <1>17, StillInside
<1>19. UNCHANGED <<tables, next, saved, shutdown, events>>
  BY DEF push_regs
<1> QED
  BY <1>2, <1>8, <1>9, <1>11, <1>16, <1>18, <1>19, HandlerStep

\* The function a handler calls.
LEMMA CallStep ==
  ASSUME SegmentsInv, NEW S, AtStep(S, 1), NEW regs \in [Regs -> Values],
         NEW iflag \in BOOLEAN, iflag => cpu.iflag, V(Latest) < 32 => regs["rdi"] = cpu.rsp,
         cpu' = Context(cpu.cs, cpu.ss, cpu.rsp, Goto(2), iflag, regs),
         UNCHANGED <<tables, next, mem, saved, shutdown, events>>
  PROVE  SegmentsInv'
<1> DEFINE v == V(Latest)
           was == Latest.cpu
<1>1. /\ saved # << >> /\ v \in 0 .. 255 /\ cpu.rip.step = 1
      /\ Inside(layout, mem, cpu, v, was) /\ cpu \in CpuType
  BY RunningIs
<1>2. /\ cpu.cs \in {8, 27} /\ cpu.ss \in {0, 16, 35} /\ cpu.rsp \in Int /\ cpu.rip.at \in Int
  BY <1>1, CpuParts
<1>3. PICK rip : rip = Goto(2)
  OBVIOUS
<1>4. rip \in Rips /\ rip.at = cpu.rip.at /\ rip.step = 2
  BY <1>2, <1>3 DEF Rips, Goto
<1>5. cpu' = Context(cpu.cs, cpu.ss, cpu.rsp, rip, iflag, regs)
  BY <1>3, Zenon
<1>6. cpu' \in CpuType
  BY <1>2, <1>4, <1>5, ContextIs
<1>7. /\ cpu'.cs = cpu.cs /\ cpu'.rsp = cpu.rsp /\ cpu'.rip = rip
      /\ cpu'.iflag = iflag /\ cpu'.regs = regs
  BY <1>5 DEF Context
<1>8. cpu'.rip.at = cpu.rip.at /\ cpu'.rip.step = 2
  BY <1>4, <1>7
<1>9. Low(cpu') = Low(cpu)
  BY <1>1, <1>7, <1>8 DEF Low
<1>10. mem' = mem
  OBVIOUS
<1>11. Keeps(mem, mem', Low(cpu))
  BY <1>10, KeepsAll
<1>12. Kept(mem', cpu'.rsp, was)
  BY <1>1, <1>7, <1>10 DEF Inside
<1>13. cpu'.rip.step \notin {0, 1, 3} /\ cpu'.rip.step # 3 /\ (v < 32 => cpu'.regs["rdi"] = cpu'.rsp)
  BY <1>7, <1>8
<1>14. cpu'.iflag => cpu.iflag
  BY <1>7
<1>15. Inside(layout, mem', cpu', v, was)
  BY <1>1, <1>7, <1>8, <1>9, <1>11, <1>12, <1>13, <1>14, StillInside
<1>16. UNCHANGED <<tables, next, saved, shutdown, events>>
  OBVIOUS
<1> QED
  BY <1>1, <1>6, <1>9, <1>11, <1>14, <1>15, <1>16, HandlerStep

LEMMA InnerStep ==
  ASSUME SegmentsInv, Inner
  PROVE  SegmentsInv'
<1>1. AtStep(0 .. 31, 1) /\ UNCHANGED <<tables, next, mem, saved, shutdown, events>>
  BY DEF Inner
<1>2. cpu \in CpuType
  BY DEF SegmentsInv, SegmentsType
<1>3. cpu.regs \in [Regs -> Values] /\ cpu.rsp \in Int
  BY <1>2, CpuParts
<1>4. PICK regs : regs = [cpu.regs EXCEPT !["rdi"] = cpu.rsp]
  OBVIOUS
<1>5. regs \in [Regs -> Values] /\ regs["rdi"] = cpu.rsp
  BY <1>3, <1>4, PushedRegs DEF Values
<1>6. cpu' = [cpu EXCEPT !.regs = regs, !.iflag = FALSE, !.rip = Goto(2)]
  BY <1>4 DEF Inner
<1>7. cpu' = Context(cpu.cs, cpu.ss, cpu.rsp, Goto(2), FALSE, regs)
  BY <1>2, <1>6 DEF CpuType, Context
<1> QED
  BY <1>1, <1>5, <1>7, CallStep

LEMMA IrqStep ==
  ASSUME SegmentsInv, IrqHandler
  PROVE  SegmentsInv'
<1>1. AtStep(32 .. 47, 1) /\ UNCHANGED <<tables, next, mem, saved, shutdown, events>>
  BY DEF IrqHandler
<1>2. cpu \in CpuType /\ V(Latest) \in 32 .. 47
  BY <1>1, RunningIs
<1>3. cpu.regs \in [Regs -> Values] /\ cpu.iflag \in BOOLEAN
  BY <1>2, CpuParts
<1>4. PICK regs : regs = [r \in Regs |-> IF r \in Scratch THEN "scratch" ELSE cpu.regs[r]]
  OBVIOUS
<1>5. regs \in [Regs -> Values]
  BY <1>3, <1>4 DEF Values
<1>6. cpu' = [cpu EXCEPT !.regs = regs, !.rip = Goto(2)]
  BY <1>4 DEF IrqHandler
<1>7. cpu' = Context(cpu.cs, cpu.ss, cpu.rsp, Goto(2), cpu.iflag, regs)
  BY <1>2, <1>6 DEF CpuType, Context
<1>8. ~ (V(Latest) < 32)
  BY <1>2
<1> QED
  BY <1>1, <1>3, <1>5, <1>7, <1>8, CallStep

LEMMA SyscallStep ==
  ASSUME SegmentsInv, SyscallHandler
  PROVE  SegmentsInv'
<1>1. AtStep({128}, 1) /\ UNCHANGED <<tables, next, mem, saved, shutdown, events>>
  BY DEF SyscallHandler
<1>2. cpu \in CpuType /\ V(Latest) \in {128}
  BY <1>1, RunningIs
<1>3. cpu.regs \in [Regs -> Values] /\ cpu.iflag \in BOOLEAN
  BY <1>2, CpuParts
<1>4. cpu' = [cpu EXCEPT !.rip = Goto(2)]
  BY DEF SyscallHandler
<1>5. cpu' = Context(cpu.cs, cpu.ss, cpu.rsp, Goto(2), cpu.iflag, cpu.regs)
  BY <1>2, <1>4 DEF CpuType, Context
<1>6. ~ (V(Latest) < 32)
  BY <1>2
<1> QED
  BY <1>1, <1>3, <1>5, <1>6, CallStep

\* The registers come back.
LEMMA PopStep ==
  ASSUME SegmentsInv, pop_regs
  PROVE  SegmentsInv'
<1> DEFINE v == V(Latest)
           was == Latest.cpu
<1>1. AtStep(32 .. 128, 2) /\ UNCHANGED <<tables, next, mem, saved, shutdown, events>>
  BY DEF pop_regs
<1>2. /\ saved # << >> /\ v \in 32 .. 128 /\ cpu.rip.step = 2
      /\ Inside(layout, mem, cpu, v, was) /\ cpu \in CpuType /\ was \in CpuType
  BY <1>1, RunningIs
<1>3. /\ cpu.cs \in {8, 27} /\ cpu.ss \in {0, 16, 35} /\ cpu.rsp \in Int /\ cpu.rip.at \in Int
      /\ cpu.iflag \in BOOLEAN
  BY <1>2, CpuParts
<1>4. was.regs \in [Regs -> Values]
  BY <1>2, CpuParts
<1>5. Kept(mem, cpu.rsp, was)
  BY <1>2 DEF Inside
<1> DEFINE index(r) == CHOOSE i \in DOMAIN popped_regs : popped_regs[i] = r
           regs == [r \in Regs |-> mem[cpu.rsp + 8 * (index(r) - 1)]]
<1>6. \A r \in Regs : regs[r] = was.regs[r]
  <2> SUFFICES ASSUME NEW r \in Regs
               PROVE  regs[r] = was.regs[r]
    OBVIOUS
  <2>1. \E i \in DOMAIN popped_regs : popped_regs[i] = r
    BY PushedRegs
  <2>2. index(r) \in DOMAIN popped_regs /\ popped_regs[index(r)] = r
    BY <2>1, Zenon
  <2>3. index(r) \in 1 .. 15
    BY <2>2, PushedRegs
  <2>4. regs[r] = mem[cpu.rsp + 8 * (index(r) - 1)]
    BY Zenon
  <2> HIDE DEF index, regs
  <2>5. Word(mem, cpu.rsp + 8 * (index(r) - 1), was.regs[popped_regs[index(r)]])
    BY <1>5, <2>3, Zenon DEF Kept
  <2>6. mem[cpu.rsp + 8 * (index(r) - 1)] = was.regs[popped_regs[index(r)]]
    BY <2>5, Zenon DEF Word
  <2> QED
    BY <2>2, <2>4, <2>6, Zenon
<1>7. regs = was.regs
  <2> HIDE DEF index
  <2>1. \A r \in Regs : mem[cpu.rsp + 8 * (index(r) - 1)] = was.regs[r]
    BY <1>6, Zenon
  <2>2. regs = [r \in Regs |-> was.regs[r]]
    BY <2>1, Zenon
  <2>3. was.regs = [r \in Regs |-> was.regs[r]]
    BY <1>4
  <2> QED
    BY <2>2, <2>3, Zenon
<1>8. cpu' = [cpu EXCEPT !.regs = regs, !.rsp = @ + 8 * Len(popped_regs), !.rip = Goto(3)]
  BY Zenon DEF pop_regs
<1> HIDE DEF regs
<1>9. cpu' = [cpu EXCEPT !.regs = was.regs, !.rsp = @ + 120, !.rip = Goto(3)]
  BY <1>7, <1>8, PushedRegs
<1>10. PICK rip : rip = Goto(3)
  OBVIOUS
<1>11. rip \in Rips /\ rip.at = cpu.rip.at /\ rip.step = 3
  BY <1>3, <1>10 DEF Rips, Goto
<1>12. cpu' = Context(cpu.cs, cpu.ss, cpu.rsp + 120, rip, cpu.iflag, was.regs)
  BY <1>2, <1>9, <1>10 DEF CpuType, Context
<1>13. cpu.rsp + 120 \in Int
  BY <1>3
<1>14. cpu' \in CpuType
  BY <1>3, <1>4, <1>11, <1>12, <1>13, ContextIs
<1>15. /\ cpu'.cs = cpu.cs /\ cpu'.rsp = cpu.rsp + 120 /\ cpu'.rip = rip
       /\ cpu'.iflag = cpu.iflag /\ cpu'.regs = was.regs
  BY <1>12 DEF Context
<1>16. cpu'.rip.at = cpu.rip.at /\ cpu'.rip.step = 3
  BY <1>11, <1>15
<1>17. Low(cpu') = Low(cpu)
  BY <1>2, <1>3, <1>15, <1>16 DEF Low
<1>18. Keeps(mem, mem', Low(cpu))
  BY <1>1, KeepsAll
<1>19. cpu'.rip.step \notin {1, 2} /\ cpu'.rip.step # 2 /\ v >= 32
  <2>1. v >= 32
    <3>1. \A w \in 32 .. 128 : w >= 32
      OBVIOUS
    <3> QED
      BY <1>2, <3>1, Zenon
  <2>2. cpu'.rip.step \notin {1, 2} /\ cpu'.rip.step # 2
    BY <1>16
  <2> QED
    BY <2>1, <2>2, Zenon
<1>20. Inside(layout, mem', cpu', v, was)
  BY <1>2, <1>15, <1>16, <1>17, <1>18, <1>19, StillInside
<1>21. UNCHANGED <<tables, next, saved, shutdown, events>>
  BY <1>1
<1> QED
  BY <1>2, <1>14, <1>15, <1>17, <1>18, <1>20, <1>21, HandlerStep

\* iretq finds the context that was interrupted.
LEMMA Resumed ==
  ASSUME SegmentsInv, Return
  PROVE  cpu' = Latest.cpu /\ V(Latest) >= 32 /\ saved # << >>
<1> DEFINE v == V(Latest)
           was == Latest.cpu
<1>1. AtStep(32 .. 128, 3)
  BY DEF Return
<1>2. /\ saved # << >> /\ v \in 32 .. 128 /\ cpu.rip.step = 3
      /\ Inside(layout, mem, cpu, v, was) /\ cpu \in CpuType /\ was \in CpuType
  BY <1>1, RunningIs
<1>3. \A w \in 32 .. 128 : w >= 32 /\ w \notin WithError
  BY DEF WithError
<1>4. v >= 32 /\ v \notin WithError
  BY <1>2, <1>3, Zenon
<1>5. ErrorLen(v) = 0
  BY <1>4 DEF ErrorLen
<1>6. cpu.rsp \in Int
  BY <1>2, CpuParts
<1>7. Low(cpu) + ErrorLen(v) = cpu.rsp
  BY <1>2, <1>5, <1>6 DEF Low
<1>8. Frame(mem, cpu.rsp, was) /\ cpu.regs = was.regs
  BY <1>2, <1>7 DEF Inside
<1>9. /\ cpu.rsp + 8 * 0 = cpu.rsp /\ cpu.rsp + 8 * 1 = cpu.rsp + 8 /\ cpu.rsp + 8 * 2 = cpu.rsp + 16
      /\ cpu.rsp + 8 * 3 = cpu.rsp + 24 /\ cpu.rsp + 8 * 4 = cpu.rsp + 32
  BY <1>6
<1>10. /\ mem[cpu.rsp + 8 * 0] = was.rip /\ mem[cpu.rsp + 8 * 1] = was.cs
       /\ mem[cpu.rsp + 8 * 2] = was.iflag /\ mem[cpu.rsp + 8 * 3] = was.rsp
       /\ mem[cpu.rsp + 8 * 4] = was.ss
  BY <1>8, <1>9, Zenon DEF Frame, Word
<1>11. cpu' = [cpu EXCEPT !.rip = mem[cpu.rsp + 8 * 0], !.cs = mem[cpu.rsp + 8 * 1],
                          !.iflag = mem[cpu.rsp + 8 * 2], !.rsp = mem[cpu.rsp + 8 * 3],
                          !.ss = mem[cpu.rsp + 8 * 4]]
  BY Zenon DEF Return
<1>12. cpu' = [cpu EXCEPT !.rip = was.rip, !.cs = was.cs, !.iflag = was.iflag,
                          !.rsp = was.rsp, !.ss = was.ss]
  BY <1>10, <1>11, Zenon
<1>13. PICK w : w = was
  OBVIOUS
<1>14. w \in CpuType /\ cpu.regs = w.regs
         /\ cpu' = [cpu EXCEPT !.rip = w.rip, !.cs = w.cs, !.iflag = w.iflag, !.rsp = w.rsp,
                               !.ss = w.ss]
  BY <1>2, <1>8, <1>12, <1>13, Zenon
<1>15. cpu' = w
  BY <1>2, <1>14 DEF CpuType
<1> QED
  BY <1>2, <1>4, <1>13, <1>15, Zenon

LEMMA ReturnStep ==
  ASSUME SegmentsInv, Return
  PROVE  SegmentsInv'
<1>1. cpu' = Latest.cpu /\ saved # << >> /\ Returns
  BY Resumed DEF SegmentsInv, HandlersFit, Latest
<1>2. /\ saved' = Front(saved) /\ UNCHANGED <<tables, next, mem, shutdown, events>>
      /\ layout' = layout
  BY DEF Return, tables
<1>3. /\ saved \in Seq(Entries) /\ layout \in Layouts /\ next \in 1 .. 11
      /\ events \in 0 .. MaxEvents /\ Len(saved) <= events /\ TablesFit /\ MaxEvents \in Nat
  BY SegmentsAssumption DEF SegmentsInv, SegmentsType
<1>4. Latest \in Entries
  BY <1>1, <1>3 DEF Latest
<1>5. cpu' \in CpuType
  BY <1>1, <1>4 DEF Entries
<1>6. next = 11 /\ Len(saved) \in {1, 2}
  BY <1>1 DEF Returns
<1>7. Front(saved) = SubSeq(saved, 1, Len(saved) - 1)
  BY DEF Front
<1>8. /\ saved' \in Seq(Entries) /\ Len(saved') = Len(saved) - 1
      /\ Len(saved) = 2 => saved'[1] = saved[1]
  <2>1. CASE Len(saved) = 1
    <3>1. SubSeq(saved, 1, 0) = << >>
      BY <1>3
    <3>2. saved' = << >>
      BY <1>2, <1>7, <2>1, <3>1
    <3> QED
      BY <2>1, <3>2
  <2>2. CASE Len(saved) = 2
    <3>1. /\ SubSeq(saved, 1, 1) \in Seq(Entries) /\ Len(SubSeq(saved, 1, 1)) = 1
          /\ SubSeq(saved, 1, 1)[1] = saved[1]
      BY <1>3, <2>2
    <3>2. saved' = SubSeq(saved, 1, 1)
      BY <1>2, <1>7, <2>2
    <3> QED
      BY <2>2, <3>1, <3>2
  <2> QED
    BY <1>6, <2>1, <2>2
<1>9. SegmentsType'
  BY <1>2, <1>3, <1>5, <1>6, <1>8 DEF SegmentsType
<1>10. TablesFit'
  <2>1. next' = 11 /\ UNCHANGED tables /\ shutdown' = shutdown
    BY <1>2, <1>6
  <2>2. idt_entries' = idt_entries /\ layout' = layout /\ TSS' = TSS /\ IDT' = IDT
          /\ tss_entry' = tss_entry /\ gdtr' = gdtr /\ tr' = tr /\ idtr' = idtr /\ pic' = pic
    BY <2>1 DEF tables, idt_entries, Handler
  <2> QED
    BY <1>3, <1>6, <2>1, <2>2 DEF TablesFit
<1>11. CASE Len(saved) = 1
  <2>1. saved' = << >> /\ cpu' = saved[1].cpu
    BY <1>1, <1>8, <1>11 DEF Latest
  <2>2. Outside(layout, saved[1].cpu)
    BY <1>1 DEF SegmentsInv, HandlersFit
  <2>3. HandlersFit'
    BY <1>2, <1>6, <2>1, <2>2 DEF HandlersFit
  <2> QED
    BY <1>9, <1>10, <2>3 DEF SegmentsInv
<1>12. CASE Len(saved) = 2
  <2>1. cpu' = saved[2].cpu /\ Len(saved') = 1 /\ saved'[1] = saved[1] /\ saved' # << >>
    <3>1. Latest = saved[2]
      BY <1>12 DEF Latest
    <3>2. Len(saved') = 1 /\ saved'[1] = saved[1]
      BY <1>8, <1>12
    <3>3. saved' # << >>
      BY <3>2
    <3> QED
      BY <1>1, <3>1, <3>2, <3>3, Zenon
  <2>2. /\ V(saved[1]) = 128 /\ Inside(layout, mem, saved[2].cpu, 128, saved[1].cpu)
        /\ Stacked(saved[2].cpu, 128, Base(layout, saved[1].cpu), 1)
    BY <1>1, <1>12 DEF Returns
  <2>3. Outside(layout, saved[1].cpu)
    BY <1>1 DEF SegmentsInv, HandlersFit
  <2>4. Top(layout, saved') = Base(layout, saved[1].cpu)
    <3>1. DOMAIN saved' = {1}
      BY <1>8, <2>1
    <3>2. ~ \E i \in DOMAIN saved' : V(saved'[i]) = 8
      BY <2>1, <2>2, <3>1
    <3> QED
      BY <2>1, <3>2 DEF Top
  <2>5. saved'[Len(saved')] = saved[1]
    BY <2>1
  <2>6. Inside(layout', mem', cpu', V(saved'[Len(saved')]), saved'[Len(saved')].cpu)
    BY <1>2, <2>1, <2>2, <2>5
  <2>7. Stacked(cpu', V(saved'[Len(saved')]), Top(layout', saved'), Len(saved'))
    BY <1>2, <2>1, <2>2, <2>4, <2>5
  <2>8. Outside(layout', saved'[1].cpu) /\ next' > 8
    BY <1>2, <1>6, <2>1, <2>3
  <2>9. Returns'
    BY <1>2, <1>6, <2>1 DEF Returns
  <2>10. \A i \in 2 .. Len(saved') : saved'[i].cpu.cs = KERNEL_CODE_SELECTOR
    BY <2>1
  <2>11. HandlersFit'
    BY <2>1, <2>6, <2>7, <2>8, <2>9, <2>10, Zenon DEF HandlersFit
  <2> QED
    BY <1>9, <1>10, <2>11 DEF SegmentsInv
<1> QED
  BY <1>6, <1>11, <1>12

----------------------------------------------------------------------------
(* arch::init, and the start of a program.                                 *)

LEMMA UserStep ==
  ASSUME SegmentsInv, EnterUser
  PROVE  SegmentsInv'
<1>1. /\ saved = << >> /\ layout \in Layouts /\ next \in 1 .. 11 /\ cpu \in CpuType
      /\ UNCHANGED <<tables, next, mem, saved, shutdown, events>> /\ layout' = layout
  BY DEF SegmentsInv, SegmentsType, EnterUser, tables
<1>2. next = 11
  BY <1>1 DEF EnterUser, arch_init
<1>3. layout.user_stack \in Int
  BY <1>1, LayoutParts
<1>4. cpu' = [cpu EXCEPT !.cs = USER_CODE_SELECTOR, !.ss = USER_DATA_SELECTOR,
                         !.rsp = layout.user_stack]
  BY DEF EnterUser
<1>5. cpu' \in CpuType /\ cpu'.cs = 27 /\ cpu'.iflag = cpu.iflag
  <2>1. cpu' = Context(27, 35, layout.user_stack, cpu.rip, cpu.iflag, cpu.regs)
    <3>1. USER_CODE_SELECTOR = 27 /\ USER_DATA_SELECTOR = 35
      BY DEF USER_CODE_SELECTOR, USER_DATA_SELECTOR
    <3>2. cpu' = [cpu EXCEPT !.cs = 27, !.ss = 35, !.rsp = layout.user_stack]
      BY <1>4, <3>1, Zenon
    <3> QED
      BY <1>1, <3>2 DEF CpuType, Context
  <2>2. cpu.rip \in Rips /\ cpu.iflag \in BOOLEAN /\ cpu.regs \in [Regs -> Values]
    BY <1>1, CpuParts
  <2>3. cpu' \in CpuType
    BY <1>3, <2>1, <2>2, ContextIs
  <2>4. cpu'.cs = 27 /\ cpu'.iflag = cpu.iflag
    BY <2>1 DEF Context
  <2> QED
    BY <2>3, <2>4
<1>6. SegmentsType'
  BY <1>1, <1>5 DEF SegmentsInv, SegmentsType
<1>7. TablesFit'
  BY <1>1, <1>5, TablesKept DEF SegmentsInv
<1>8. HandlersFit'
  BY <1>1, <1>2, <1>5 DEF HandlersFit, Outside, KERNEL_CODE_SELECTOR
<1> QED
  BY <1>6, <1>7, <1>8 DEF SegmentsInv

LEMMA SetupIs ==
  ASSUME SegmentsInv, NEW op, Setup(op)
  PROVE  /\ next \in 1 .. 10 /\ next' = next + 1 /\ layout' = layout /\ layout \in Layouts
         /\ saved = << >> /\ UNCHANGED <<mem, saved, shutdown, events>> /\ cpu \in CpuType
         /\ cpu.cs = 8 /\ cpu.rsp = layout.boot_stack /\ ~ cpu.iflag /\ shutdown = NoCause
         /\ op = "stacks" => next = 1
         /\ op = "tss_entry" => next = 2
         /\ op = "lgdt" => next = 3
         /\ op = "cs" => next = 4
         /\ op = "ss" => next = 5
         /\ op = "ltr" => next = 6
         /\ op = "entries" => next = 7
         /\ op = "lidt" => next = 8
         /\ op = "pic" => next = 9
         /\ op = "sti" => next = 10
<1>1. /\ saved = << >> /\ layout' = layout /\ UNCHANGED <<mem, saved, shutdown, events>>
      /\ next' = next + 1 /\ next <= Len(arch_init) /\ arch_init[next] = op
      /\ shutdown = NoCause
  BY DEF Setup
<1>2. /\ Len(arch_init) = 10 /\ arch_init[1] = "stacks" /\ arch_init[2] = "tss_entry"
      /\ arch_init[3] = "lgdt" /\ arch_init[4] = "cs" /\ arch_init[5] = "ss"
      /\ arch_init[6] = "ltr" /\ arch_init[7] = "entries" /\ arch_init[8] = "lidt"
      /\ arch_init[9] = "pic" /\ arch_init[10] = "sti"
  BY DEF arch_init
<1>3. next \in 1 .. 11 /\ layout \in Layouts /\ cpu \in CpuType
  BY DEF SegmentsInv, SegmentsType
<1>4. next \in 1 .. 10
  BY <1>1, <1>2, <1>3
<1>5. next = 1 \/ next = 2 \/ next = 3 \/ next = 4 \/ next = 5 \/ next = 6 \/ next = 7
        \/ next = 8 \/ next = 9 \/ next = 10
  BY <1>4
<1>6. cpu.cs = 8 /\ cpu.rsp = layout.boot_stack /\ ~ cpu.iflag
  <2>1. next < 11 /\ next # 11
    BY <1>4
  <2>2. Outside(layout, cpu) /\ cpu.cs = KERNEL_CODE_SELECTOR
    BY <1>1, <2>1 DEF SegmentsInv, HandlersFit
  <2>3. ~ cpu.iflag
    BY <2>1 DEF SegmentsInv, TablesFit
  <2> QED
    BY <2>2, <2>3 DEF Outside, KERNEL_CODE_SELECTOR
<1>7. /\ op = "stacks" => next = 1
      /\ op = "tss_entry" => next = 2
      /\ op = "lgdt" => next = 3
      /\ op = "cs" => next = 4
      /\ op = "ss" => next = 5
      /\ op = "ltr" => next = 6
      /\ op = "entries" => next = 7
      /\ op = "lidt" => next = 8
      /\ op = "pic" => next = 9
      /\ op = "sti" => next = 10
  BY <1>1, <1>2, <1>5
<1> QED
  BY <1>1, <1>3, <1>4, <1>6, <1>7

\* An instruction of arch::init: what is left is what it does to the tables.
LEMMA SetupStep ==
  ASSUME SegmentsInv, NEW op, Setup(op), cpu' \in CpuType, cpu'.cs = 8, cpu'.rsp = cpu.rsp
  PROVE  SegmentsType' /\ HandlersFit'
<1>1. /\ next' \in 1 .. 11 /\ layout' = layout /\ saved = << >> /\ saved' = saved
      /\ events' = events /\ cpu.rsp = layout.boot_stack
  BY SetupIs
<1>2. SegmentsType'
  BY <1>1 DEF SegmentsInv, SegmentsType
<1>3. HandlersFit'
  BY <1>1 DEF HandlersFit, Outside, KERNEL_CODE_SELECTOR
<1> QED
  BY <1>2, <1>3

\* The instructions that do not change the context.
LEMMA TableStep ==
  ASSUME SegmentsInv, NEW op, Setup(op), UNCHANGED cpu
  PROVE  SegmentsType' /\ HandlersFit'
<1>1. cpu' = cpu /\ cpu \in CpuType /\ cpu.cs = 8
  BY SetupIs
<1> QED
  BY <1>1, SetupStep

LEMMA ArchInitStep ==
  ASSUME SegmentsInv, ArchInit
  PROVE  SegmentsInv'
<1> USE DEF SegmentsInv
<1>1. CASE SetStacks
  <2>1. Setup("stacks") /\ UNCHANGED <<IDT, tss_entry, gdtr, tr, idtr, pic, cpu>>
    BY <1>1 DEF SetStacks
  <2>2. next' = 2 /\ layout' = layout /\ layout \in Layouts /\ ~ cpu.iflag /\ shutdown' = NoCause
    BY <2>1, SetupIs
  <2>3. SegmentsType' /\ HandlersFit'
    BY <2>1, TableStep
  <2>4. TSS' = [TSS EXCEPT !.rsps[1] = KernelTop(layout), !.ists[1] = IstTop(layout)]
    BY <1>1 DEF SetStacks, KernelTop, IstTop
  <2>5. KernelTop(layout) \in Int /\ IstTop(layout) \in Int
    BY <2>2, LayoutParts
  <2>6. TSS \in [rsps : [1 .. 3 -> Int], ists : [1 .. 7 -> Int]]
    BY DEF TablesFit
  <2>7. /\ TSS' \in [rsps : [1 .. 3 -> Int], ists : [1 .. 7 -> Int]]
        /\ TSS'.rsps[1] = KernelTop(layout) /\ TSS'.ists[1] = IstTop(layout)
    <3>1. PICK k \in Int, i \in Int : k = KernelTop(layout) /\ i = IstTop(layout)
      BY <2>5
    <3>2. TSS' = [TSS EXCEPT !.rsps[1] = k, !.ists[1] = i]
      BY <2>4, <3>1, Zenon
    <3>3. /\ TSS' \in [rsps : [1 .. 3 -> Int], ists : [1 .. 7 -> Int]]
          /\ TSS'.rsps[1] = k /\ TSS'.ists[1] = i
      <4>1. PICK r, s : r = [TSS.rsps EXCEPT ![1] = k] /\ s = [TSS.ists EXCEPT ![1] = i]
        OBVIOUS
      <4>2. r \in [1 .. 3 -> Int] /\ r[1] = k /\ s \in [1 .. 7 -> Int] /\ s[1] = i
        BY <2>6, <4>1
      <4>3. TSS' = [TSS EXCEPT !.rsps = r, !.ists = s]
        BY <2>6, <3>2, <4>1
      <4> QED
        BY <2>6, <4>2, <4>3
    <3> QED
      BY <3>1, <3>3, Zenon
  <2>8. idtr' = -1 /\ ~ cpu'.iflag
    BY <2>1, <2>2, SetupIs DEF TablesFit
  <2>9. TablesFit'
    BY <2>2, <2>7, <2>8 DEF TablesFit
  <2> QED
    BY <2>3, <2>9
<1>2. CASE SetTssEntry
  <2>1. Setup("tss_entry") /\ UNCHANGED <<TSS, IDT, gdtr, tr, idtr, pic, cpu>>
    BY <1>2 DEF SetTssEntry
  <2>2. next = 2 /\ next' = 3 /\ layout' = layout /\ ~ cpu.iflag /\ shutdown' = NoCause
    BY <2>1, SetupIs
  <2>3. SegmentsType' /\ HandlersFit'
    BY <2>1, TableStep
  <2>4. tss_entry' = TssEntry(layout.tss, SizeOfTss - 1)
    BY <1>2 DEF SetTssEntry
  <2>5. TablesFit'
    BY <2>1, <2>2, <2>4 DEF TablesFit
  <2> QED
    BY <2>3, <2>5
<1>3. CASE load_gdt
  <2>1. Setup("lgdt") /\ UNCHANGED <<TSS, IDT, tss_entry, tr, idtr, pic, cpu>>
    BY <1>3 DEF load_gdt
  <2>2. next = 3 /\ next' = 4 /\ layout' = layout /\ ~ cpu.iflag /\ shutdown' = NoCause
    BY <2>1, SetupIs
  <2>3. SegmentsType' /\ HandlersFit'
    BY <2>1, TableStep
  <2>4. TablesFit'
    BY <1>3, <2>1, <2>2 DEF TablesFit, load_gdt
  <2> QED
    BY <2>3, <2>4
<1>4. CASE ReloadCode
  <2>1. Setup("cs") /\ UNCHANGED <<TSS, IDT, tss_entry, gdtr, tr, idtr, pic>>
          /\ cpu' = [cpu EXCEPT !.cs = 8]
    BY <1>4 DEF ReloadCode, KERNEL_CODE_SELECTOR
  <2>2. next = 4 /\ next' = 5 /\ layout' = layout /\ ~ cpu.iflag /\ shutdown' = NoCause
          /\ cpu \in CpuType /\ cpu.cs = 8
    BY <2>1, SetupIs
  <2>3. cpu' = cpu
    BY <2>1, <2>2 DEF CpuType
  <2>4. SegmentsType' /\ HandlersFit'
    BY <2>1, <2>3, TableStep
  <2>5. TablesFit'
    BY <2>1, <2>2, <2>3 DEF TablesFit
  <2> QED
    BY <2>4, <2>5
<1>5. CASE ReloadData
  <2>1. Setup("ss") /\ UNCHANGED <<TSS, IDT, tss_entry, gdtr, tr, idtr, pic>>
          /\ cpu' = [cpu EXCEPT !.ss = 16]
    BY <1>5 DEF ReloadData, KERNEL_DATA_SELECTOR
  <2>2. next = 5 /\ next' = 6 /\ layout' = layout /\ ~ cpu.iflag /\ shutdown' = NoCause
          /\ cpu \in CpuType /\ cpu.cs = 8
    BY <2>1, SetupIs
  <2>3. cpu' \in CpuType /\ cpu'.cs = cpu.cs /\ cpu'.rsp = cpu.rsp /\ cpu'.iflag = cpu.iflag
    BY <2>1, <2>2 DEF CpuType, KERNEL_DATA_SELECTOR
  <2>4. SegmentsType' /\ HandlersFit'
    BY <2>1, <2>2, <2>3, SetupStep
  <2>5. TablesFit'
    BY <2>1, <2>2, <2>3 DEF TablesFit
  <2> QED
    BY <2>4, <2>5
<1>6. CASE load_tss
  <2>1. Setup("ltr") /\ UNCHANGED <<TSS, IDT, tss_entry, gdtr, idtr, pic, cpu>>
    BY <1>6 DEF load_tss
  <2>2. next = 6 /\ next' = 7 /\ layout' = layout /\ ~ cpu.iflag /\ shutdown' = NoCause
          /\ layout \in Layouts
    BY <2>1, SetupIs
  <2>3. SegmentsType' /\ HandlersFit'
    BY <2>1, TableStep
  <2>4. tss_entry = TssEntry(layout.tss, SizeOfTss - 1)
    BY <2>2 DEF TablesFit
  <2>5. Joined(tss_entry) = layout.tss /\ tss_entry.length = SizeOfTss - 1
    BY <2>2, <2>4, LayoutParts, BaseJoined
  <2>6. tr' = [base |-> layout.tss, limit |-> SizeOfTss - 1]
    BY <1>6, <2>5 DEF load_tss
  <2>7. TablesFit'
    BY <2>1, <2>2, <2>6 DEF TablesFit
  <2> QED
    BY <2>3, <2>7
<1>7. CASE SetEntries
  <2>1. Setup("entries") /\ UNCHANGED <<TSS, tss_entry, gdtr, tr, idtr, pic, cpu>>
    BY <1>7 DEF SetEntries
  <2>2. next = 7 /\ next' = 8 /\ layout' = layout /\ ~ cpu.iflag /\ shutdown' = NoCause
    BY <2>1, SetupIs
  <2>3. SegmentsType' /\ HandlersFit'
    BY <2>1, TableStep
  <2>4. idt_entries' = idt_entries
    BY <2>2 DEF idt_entries, Handler
  <2>5. IDT' = idt_entries'
    BY <1>7, <2>4 DEF SetEntries
  <2>6. TablesFit'
    BY <2>1, <2>2, <2>5 DEF TablesFit
  <2> QED
    BY <2>3, <2>6
<1>8. CASE LoadIdt
  <2>1. Setup("lidt") /\ UNCHANGED <<TSS, IDT, tss_entry, gdtr, tr, pic, cpu>>
    BY <1>8 DEF LoadIdt
  <2>2. next = 8 /\ next' = 9 /\ layout' = layout /\ ~ cpu.iflag /\ shutdown' = NoCause
    BY <2>1, SetupIs
  <2>3. SegmentsType' /\ HandlersFit'
    BY <2>1, TableStep
  <2>4. idt_entries' = idt_entries
    BY <2>2 DEF idt_entries, Handler
  <2>5. TablesFit'
    BY <1>8, <2>1, <2>2, <2>4 DEF TablesFit, LoadIdt
  <2> QED
    BY <2>3, <2>5
<1>9. CASE init_pic
  <2>1. Setup("pic") /\ UNCHANGED <<TSS, IDT, tss_entry, gdtr, tr, idtr, cpu>>
    BY <1>9 DEF init_pic
  <2>2. next = 9 /\ next' = 10 /\ layout' = layout /\ ~ cpu.iflag /\ shutdown' = NoCause
    BY <2>1, SetupIs
  <2>3. SegmentsType' /\ HandlersFit'
    BY <2>1, TableStep
  <2>4. idt_entries' = idt_entries
    BY <2>2 DEF idt_entries, Handler
  <2>5. TablesFit'
    BY <1>9, <2>1, <2>2, <2>4 DEF TablesFit, init_pic
  <2> QED
    BY <2>3, <2>5
<1>10. CASE enable_interrupts
  <2>1. Setup("sti") /\ UNCHANGED <<TSS, IDT, tss_entry, gdtr, tr, idtr, pic>>
          /\ cpu' = [cpu EXCEPT !.iflag = TRUE]
    BY <1>10 DEF enable_interrupts
  <2>2. next = 10 /\ next' = 11 /\ layout' = layout /\ shutdown' = NoCause
          /\ cpu \in CpuType /\ cpu.cs = 8
    BY <2>1, SetupIs
  <2>3. cpu' \in CpuType /\ cpu'.cs = cpu.cs /\ cpu'.rsp = cpu.rsp
    BY <2>1, <2>2 DEF CpuType
  <2>4. SegmentsType' /\ HandlersFit'
    BY <2>1, <2>2, <2>3, SetupStep
  <2>5. idt_entries' = idt_entries
    BY <2>2 DEF idt_entries, Handler
  <2>6. TablesFit'
    BY <2>1, <2>2, <2>5 DEF TablesFit
  <2> QED
    BY <2>4, <2>6
<1> QED
  BY <1>1, <1>2, <1>3, <1>4, <1>5, <1>6, <1>7, <1>8, <1>9, <1>10 DEF ArchInit

----------------------------------------------------------------------------
(* The invariant.                                                          *)

LEMMA ExceptionStep ==
  ASSUME SegmentsInv, Exception
  PROVE  SegmentsInv'
<1>1. PICK v \in Exceptions : Arrive(Cause("exception", v), v, FALSE)
  BY DEF Exception
<1>2. v \in 0 .. 31 /\ v \in 0 .. 255
  BY SegmentsAssumption
<1>3. PICK c : c = Cause("exception", v)
  OBVIOUS
<1>4. c \in Causes /\ Arises(c, v, FALSE) /\ FALSE \in BOOLEAN
  BY <1>2, <1>3 DEF Cause, Causes, Arises
<1>5. Arrive(c, v, FALSE)
  BY <1>1, <1>3, Zenon
<1> QED
  BY <1>2, <1>4, <1>5, Arrival

LEMMA InterruptStep ==
  ASSUME SegmentsInv, Interrupt
  PROVE  SegmentsInv'
<1>1. cpu.iflag /\ \E irq \in Irqs :
        Arrive(Cause("irq", irq),
               IF pic THEN 32 + irq ELSE IF irq < 8 THEN 8 + irq ELSE 104 + irq, FALSE)
  BY Zenon DEF Interrupt
<1>2. pic
  BY <1>1 DEF SegmentsInv, TablesFit
<1>3. PICK irq \in Irqs :
        Arrive(Cause("irq", irq),
               IF pic THEN 32 + irq ELSE IF irq < 8 THEN 8 + irq ELSE 104 + irq, FALSE)
  BY <1>1
<1>4. irq \in 0 .. 15
  BY SegmentsAssumption
<1>5. PICK v, c : v = 32 + irq /\ c = Cause("irq", irq)
  OBVIOUS
<1>6. v = IF pic THEN 32 + irq ELSE IF irq < 8 THEN 8 + irq ELSE 104 + irq
  BY <1>2, <1>5
<1>7. Arrive(c, v, FALSE)
  BY <1>3, <1>5, <1>6, Zenon
<1>8. v \in 0 .. 255 /\ FALSE \in BOOLEAN
  BY <1>4, <1>5
<1>9. c \in Causes /\ c.kind = "irq" /\ c.n = irq
  BY <1>4, <1>5 DEF Cause, Causes
<1>10. Arises(c, v, FALSE)
  BY <1>1, <1>5, <1>9 DEF Arises
<1> QED
  BY <1>7, <1>8, <1>9, <1>10, Arrival

LEMMA SoftwareInterruptStep ==
  ASSUME SegmentsInv, SoftwareInterrupt
  PROVE  SegmentsInv'
<1>1. PICK n \in Ints : Arrive(Cause("int", n), n, TRUE)
  BY DEF SoftwareInterrupt
<1>2. n \in 0 .. 255 /\ Cpl = 3 /\ TRUE \in BOOLEAN
  BY SegmentsAssumption DEF SoftwareInterrupt
<1>3. PICK c : c = Cause("int", n)
  OBVIOUS
<1>4. c \in Causes /\ Arises(c, n, TRUE)
  BY <1>2, <1>3 DEF Cause, Causes, Arises
<1>5. Arrive(c, n, TRUE)
  BY <1>1, <1>3, Zenon
<1> QED
  BY <1>2, <1>4, <1>5, Arrival

LEMMA SegmentsStart ==
  ASSUME SegmentsInit
  PROVE  SegmentsInv
<1>1. /\ layout \in Layouts /\ next = 1 /\ idtr = -1 /\ saved = << >> /\ shutdown = NoCause
      /\ events = 0 /\ TSS = [rsps |-> [i \in 1 .. 3 |-> 0], ists |-> [i \in 1 .. 7 |-> 0]]
  BY DEF SegmentsInit
<1>2. cpu = Context(8, 16, layout.boot_stack, [at |-> -1, step |-> 0], FALSE, [r \in Regs |-> r])
  BY DEF SegmentsInit, Context, KERNEL_CODE_SELECTOR, KERNEL_DATA_SELECTOR
<1>3. layout.boot_stack \in Int
  BY <1>1, LayoutParts
<1>4. [at |-> -1, step |-> 0] \in Rips
  BY DEF Rips
<1>5. [r \in Regs |-> r] \in [Regs -> Values]
  BY DEF Values
<1>6. cpu \in CpuType
  BY <1>2, <1>3, <1>4, <1>5, ContextIs
<1>7. cpu.cs = 8 /\ cpu.rsp = layout.boot_stack /\ cpu.iflag = FALSE
  BY <1>2 DEF Context
<1>8. SegmentsType
  <2>1. saved \in Seq(Entries) /\ Len(saved) = 0
    BY <1>1
  <2> QED
    BY <1>1, <1>6, <2>1, SegmentsAssumption DEF SegmentsType
<1>9. TSS \in [rsps : [1 .. 3 -> Int], ists : [1 .. 7 -> Int]]
  BY <1>1
<1>10. TablesFit
  BY <1>1, <1>7, <1>9 DEF TablesFit
<1>11. HandlersFit
  BY <1>1, <1>7 DEF HandlersFit, Outside, KERNEL_CODE_SELECTOR
<1> QED
  BY <1>8, <1>10, <1>11 DEF SegmentsInv

LEMMA SegmentsStep ==
  ASSUME SegmentsInv, [SegmentsNext]_segmentVars
  PROVE  SegmentsInv'
<1>1. CASE SegmentsNext
  <2>1. ASSUME EntryCode
        PROVE  SegmentsInv'
    BY <2>1, PushStep, InnerStep, IrqStep, SyscallStep, PopStep, ReturnStep DEF EntryCode
  <2> QED
    BY <1>1, <2>1, ArchInitStep, UserStep, ExceptionStep, InterruptStep, SoftwareInterruptStep
       DEF SegmentsNext
<1>2. CASE UNCHANGED segmentVars
  <2>1. /\ layout' = layout /\ next' = next /\ TSS' = TSS /\ IDT' = IDT
        /\ tss_entry' = tss_entry /\ gdtr' = gdtr /\ tr' = tr /\ idtr' = idtr /\ pic' = pic
        /\ cpu' = cpu /\ mem' = mem /\ saved' = saved /\ shutdown' = shutdown
        /\ events' = events
    BY <1>2 DEF segmentVars
  <2>2. SegmentsType'
    BY <2>1 DEF SegmentsInv, SegmentsType
  <2>3. UNCHANGED tables
    BY <2>1 DEF tables
  <2>4. TablesFit'
    BY <2>1, <2>3, TablesKept DEF SegmentsInv
  <2>5. HandlersFit'
    BY <2>1 DEF SegmentsInv, HandlersFit, Returns
  <2> QED
    BY <2>2, <2>4, <2>5 DEF SegmentsInv
<1> QED
  BY <1>1, <1>2

\* The tables are as arch::init has made them so far, and the stack of every
\* handler that runs holds the context it interrupted.
THEOREM SegmentsInvariant == SegmentsSpec => []SegmentsInv
BY SegmentsStart, SegmentsStep, PTL DEF SegmentsSpec

\* Once the IDT is loaded whatever arrives ends up in its own handler, at the
\* address its gate was built from, for every layout, radix and stack size.
THEOREM Delivered == SegmentsSpec => []HandledAfterSetup
<1>1. ASSUME SegmentsInv
      PROVE  HandledAfterSetup
  <2>1. shutdown # NoCause => shutdown.kind = "exception" /\ idtr = -1
    BY <1>1 DEF SegmentsInv, SegmentsType, TablesFit
  <2>2. saved # << >> => cpu.rip.at = Handler(Meant(Innermost.cause))
    BY <1>1 DEF SegmentsInv, HandlersFit, Inside, Innermost, Last, V, Handler
  <2> QED
    BY <2>1, <2>2 DEF HandledAfterSetup
<1> QED
  BY <1>1, SegmentsInvariant, PTL

\* A handler that returns leaves the context it interrupted as it was.
THEOREM Resuming == SegmentsSpec => Resumes
<1>1. ASSUME SegmentsInv, [SegmentsNext]_segmentVars
      PROVE  [Return => cpu' = Innermost.cpu]_segmentVars
  <2>1. Return => cpu' = Innermost.cpu
    BY <1>1, Resumed DEF Latest, Innermost, Last
  <2> QED
    BY <2>1
<1> QED
  BY <1>1, SegmentsInvariant, PTL DEF SegmentsSpec, Resumes

\* The fields of a frame, in three parts.
Names == Regs \cup {"error_code", "rip", "cs", "rflags", "rsp", "ss"}
ErrorField(v) == IF v \in WithError THEN <<"error_code">> ELSE << >>
Count(v) == IF v \in WithError THEN 16 ELSE 15
Iret == <<"rip", "cs", "rflags", "rsp", "ss">>

LEMMA FieldsAre ==
  ASSUME NEW v
  PROVE  /\ DOMAIN Fields(v) = 1 .. Count(v) + 5 /\ Len(Fields(v)) = Count(v) + 5
         /\ \A i \in 1 .. 15 : Fields(v)[i] = popped_regs[i]
         /\ v \in WithError => Fields(v)[16] = "error_code"
         /\ \A i \in 1 .. 5 : Fields(v)[Count(v) + i] = Iret[i]
<1>0. PICK n : n = Count(v)
  OBVIOUS
<1>1. popped_regs \in Seq(Names) /\ Len(popped_regs) = 15
  <2>1. popped_regs = [i \in 1 .. 15 |-> Push15[(15 - i) + 1]]
    BY PushedRegs DEF popped_regs, Reverse
  <2>2. \A i \in 1 .. 15 : Push15[(15 - i) + 1] \in Names
    <3> SUFFICES ASSUME NEW i \in 1 .. 15
                 PROVE  Push15[(15 - i) + 1] \in Names
      OBVIOUS
    <3>1. popped_regs[i] = Push15[(15 - i) + 1]
      BY <2>1
    <3>2. popped_regs[i] \in Regs
      BY PushedRegs
    <3> QED
      BY <3>1, <3>2 DEF Names
  <2>3. popped_regs \in [1 .. 15 -> Names]
    BY <2>1, <2>2
  <2>4. 15 \in Nat
    OBVIOUS
  <2>5. popped_regs \in Seq(Names)
    BY <2>3, <2>4, SeqDef, Zenon
  <2> QED
    BY <2>5, PushedRegs
<1>2. ErrorField(v) \in Seq(Names) /\ Len(ErrorField(v)) = n - 15
        /\ (v \in WithError => ErrorField(v)[1] = "error_code")
  <2>1. CASE v \in WithError
    BY <1>0, <2>1 DEF ErrorField, Names, Count
  <2>2. CASE v \notin WithError
    BY <1>0, <2>2 DEF ErrorField, Count
  <2> QED
    BY <2>1, <2>2
<1>3. Iret \in Seq(Names) /\ Len(Iret) = 5
  BY DEF Iret, Names
<1>4. n \in {15, 16}
  BY <1>0 DEF Count
<1>5. PICK a, b, c : a = popped_regs /\ b = ErrorField(v) /\ c = Iret
  OBVIOUS
<1>6. PICK d : d = a \o b
  OBVIOUS
<1>7. /\ d \in Seq(Names) /\ Len(d) = Len(a) + Len(b)
      /\ \A i \in 1 .. Len(a) + Len(b) : d[i] = IF i <= Len(a) THEN a[i] ELSE b[i - Len(a)]
  BY <1>1, <1>2, <1>5, <1>6, ConcatProperties, Zenon
<1>8. c \in Seq(Names)
  BY <1>3, <1>5, Zenon
<1>9. PICK f : f = d \o c
  OBVIOUS
<1>10. /\ f \in Seq(Names) /\ Len(f) = Len(d) + Len(c)
       /\ \A i \in 1 .. Len(d) + Len(c) : f[i] = IF i <= Len(d) THEN d[i] ELSE c[i - Len(d)]
  <2>1. d \in Seq(Names)
    BY <1>7
  <2> QED
    BY <1>8, <1>9, <2>1, ConcatProperties, Zenon
<1>11. Fields(v) = f
  BY <1>5, <1>6, <1>9, Zenon DEF Fields, popped_regs, ErrorField, Iret
<1>12. Len(a) = 15 /\ Len(b) = n - 15 /\ Len(c) = 5
  BY <1>1, <1>2, <1>3, <1>5, Zenon
<1>13. 15 + (n - 15) = n
  BY <1>4
<1>14. Len(d) = n /\ \A i \in 1 .. n : d[i] = IF i <= 15 THEN a[i] ELSE b[i - 15]
  BY <1>7, <1>12, <1>13, Zenon
<1>15. Len(f) = n + 5 /\ \A i \in 1 .. n + 5 : f[i] = IF i <= n THEN d[i] ELSE c[i - n]
  BY <1>10, <1>12, <1>14, Zenon
<1>16. DOMAIN f = 1 .. n + 5
  <2>1. DOMAIN f = 1 .. Len(f)
    BY <1>10, LenProperties, Zenon
  <2> QED
    BY <1>15, <2>1, Zenon
<1>17. \A i \in 1 .. 15 : f[i] = a[i]
  BY <1>4, <1>14, <1>15
<1>18. n = 16 => f[16] = b[1]
  BY <1>14, <1>15
<1>19. \A i \in 1 .. 5 : f[n + i] = c[i]
  <2> SUFFICES ASSUME NEW i \in 1 .. 5
               PROVE  f[n + i] = c[i]
    OBVIOUS
  <2>1. n + i \in 1 .. n + 5 /\ ~ (n + i <= n) /\ (n + i) - n = i
    BY <1>4
  <2>2. f[n + i] = c[(n + i) - n]
    BY <1>15, <2>1
  <2> QED
    BY <2>1, <2>2
<1>20. v \in WithError => n = 16
  BY <1>0 DEF Count
<1>21. v \in WithError => f[16] = "error_code"
  BY <1>2, <1>5, <1>18, <1>20, Zenon
<1> QED
  BY <1>0, <1>5, <1>11, <1>15, <1>16, <1>17, <1>19, <1>21, Zenon

\* The frame of a handler, at any of its steps.
LEMMA FrameLength ==
  ASSUME SegmentsInv, saved # << >>
  PROVE  cpu.rsp + FrameLen = Low(cpu) + ErrorLen(V(Latest)) + 40
<1>1. PICK v : v = V(Latest)
  OBVIOUS
<1>2. PICK n : n = Len(Fields(v))
  OBVIOUS
<1>3. n = Count(v) + 5
  BY <1>2, FieldsAre, Zenon
<1>4. cpu.rsp \in Int
  BY CpuParts DEF SegmentsInv, SegmentsType
<1>5. Count(v) \in {15, 16} /\ ErrorLen(v) = 8 * (Count(v) - 15)
  BY DEF Count, ErrorLen
<1>6. FrameLen = 8 * (n - IF cpu.rip.step \in {1, 2} THEN 0 ELSE 15)
  <2>1. Meant(Innermost.cause) = v
    BY <1>1 DEF V, Latest, Innermost, Last
  <2>2. Len(Push15) = 15
    BY PushedRegs
  <2> QED
    BY <1>2, <2>1, <2>2, Zenon DEF FrameLen
<1>7. cpu.rsp + FrameLen = Low(cpu) + ErrorLen(v) + 40
  BY <1>3, <1>4, <1>5, <1>6 DEF Low
<1> QED
  BY <1>1, <1>7, Zenon

LEMMA InsideStack ==
  ASSUME NEW first \in Int, NEW len \in Nat, NEW k \in Nat, NEW sp \in Int, NEW end \in Int,
         NEW top \in Int, 183 * k < len, top \in {first + len - 1, first + len},
         end <= top, sp >= top - 183 * k
  PROVE  first <= sp /\ end <= first + len
OBVIOUS

\* The stack in use is the one whose top the invariant is about.
LEMMA TopInUse ==
  ASSUME SegmentsInv, saved # << >>
  PROVE  /\ StackInUse.first \in Int /\ StackInUse.len \in Nat
         /\ Top(layout, saved) \in {StackInUse.first + StackInUse.len - 1,
                                   StackInUse.first + StackInUse.len}
<1> DEFINE n == Len(saved)
<1>1. /\ layout \in Layouts /\ saved \in Seq(Entries) /\ n \in Nat \ {0} /\ DOMAIN saved = 1 .. n
      /\ KERNEL_STACK_LEN \in Nat /\ IST_STACK0_LEN \in Nat /\ BOOT_STACK_LEN \in Nat
  <2>1. layout \in Layouts /\ saved \in Seq(Entries)
    BY DEF SegmentsInv, SegmentsType
  <2> QED
    BY <2>1, SegmentsAssumption
<1>2. /\ layout.boot_stack \in Nat /\ layout.kernel_stack \in Nat /\ layout.ist_stack0 \in Nat
  BY <1>1, LayoutParts
<1>3. /\ KernelTop(layout) = layout.kernel_stack + KERNEL_STACK_LEN - 1
      /\ IstTop(layout) = layout.ist_stack0 + IST_STACK0_LEN - 1
  BY DEF KernelTop, IstTop, StackPointer
<1>4. \A i \in 1 .. n : saved[i].cpu.cs \in {8, 27}
  <2> SUFFICES ASSUME NEW i \in 1 .. n
               PROVE  saved[i].cpu.cs \in {8, 27}
    OBVIOUS
  <2>1. saved[i] \in Entries
    BY <1>1
  <2>2. saved[i].cpu \in CpuType
    BY <2>1 DEF Entries
  <2> QED
    BY <2>2, CpuParts
<1>5. \A i \in 2 .. n : saved[i].cpu.cs = 8
  BY DEF SegmentsInv, HandlersFit, KERNEL_CODE_SELECTOR
<1>6. 8 % 4 = 0 /\ 27 % 4 = 3
  OBVIOUS
<1>7. \A i \in 1 .. n : Rpl(saved[i].cpu.cs) = 3 <=> i = 1 /\ saved[1].cpu.cs = 27
  <2> SUFFICES ASSUME NEW i \in 1 .. n
               PROVE  Rpl(saved[i].cpu.cs) = 3 <=> i = 1 /\ saved[1].cpu.cs = 27
    OBVIOUS
  <2>1. CASE i = 1
    BY <1>4, <1>6, <2>1 DEF Rpl
  <2>2. CASE i \in 2 .. n
    BY <1>5, <1>6, <2>2 DEF Rpl
  <2> QED
    BY <1>1, <2>1, <2>2
<1>8. (\E i \in DOMAIN saved : Rpl(saved[i].cpu.cs) = 3) <=> saved[1].cpu.cs = 27
  BY <1>1, <1>7
<1>9. CASE \E i \in DOMAIN saved : V(saved[i]) = 8
  <2>1. StackInUse = [first |-> layout.ist_stack0, len |-> IST_STACK0_LEN]
    BY <1>9 DEF StackInUse, V
  <2>2. Top(layout, saved) = IstTop(layout)
    BY <1>9 DEF Top
  <2> QED
    BY <1>1, <1>2, <1>3, <2>1, <2>2
<1>10. CASE ~ \E i \in DOMAIN saved : V(saved[i]) = 8
  <2>1. Top(layout, saved) = Base(layout, saved[1].cpu)
    BY <1>10 DEF Top
  <2>2. CASE saved[1].cpu.cs = 27
    <3>1. StackInUse = [first |-> layout.kernel_stack, len |-> KERNEL_STACK_LEN]
      BY <1>8, <1>10, <2>2 DEF StackInUse, V
    <3>2. Top(layout, saved) = KernelTop(layout)
      BY <2>1, <2>2 DEF Base, USER_CODE_SELECTOR
    <3> QED
      BY <1>1, <1>2, <1>3, <3>1, <3>2
  <2>3. CASE saved[1].cpu.cs # 27
    <3>1. StackInUse = [first |-> layout.boot_stack - BOOT_STACK_LEN, len |-> BOOT_STACK_LEN]
      BY <1>8, <1>10, <2>3 DEF StackInUse, V
    <3>2. Top(layout, saved) = layout.boot_stack
      BY <2>1, <2>3 DEF Base, USER_CODE_SELECTOR
    <3> QED
      BY <1>1, <1>2, <3>1, <3>2
  <2> QED
    BY <2>2, <2>3
<1> QED
  BY <1>9, <1>10

\* Every byte of the frame of the handler that runs lies inside the stack it is
\* meant for, as long as that stack has room for the handlers inside each other.
THEOREM StacksHold == SegmentsSpec => []FramesInStacks
<1>1. ASSUME SegmentsInv
      PROVE  FramesInStacks
  <2> SUFFICES ASSUME saved # << >>, DeepestFrame * Len(saved) < StackInUse.len
               PROVE  /\ StackInUse.first <= cpu.rsp
                      /\ cpu.rsp + FrameLen <= StackInUse.first + StackInUse.len
    BY DEF FramesInStacks
  <2>1. PICK top, n, v : top = Top(layout, saved) /\ n = Len(saved) /\ v = V(Latest)
    OBVIOUS
  <2>2. cpu \in CpuType /\ n \in Nat
    BY <1>1, <2>1 DEF SegmentsInv, SegmentsType
  <2>3. Stacked(cpu, v, top, n)
    BY <1>1, <2>1 DEF SegmentsInv, HandlersFit, Latest
  <2>4. /\ StackInUse.first \in Int /\ StackInUse.len \in Nat
        /\ top \in {StackInUse.first + StackInUse.len - 1, StackInUse.first + StackInUse.len}
    BY <1>1, <2>1, TopInUse
  <2>5. top \in Int
    BY <2>4
  <2>6. /\ cpu.rsp \in Int /\ Low(cpu) \in Int /\ Low(cpu) <= cpu.rsp + 120
    <3>1. cpu.rsp \in Int /\ Low(cpu) \in Int
      BY <2>2, CpuParts
    <3> QED
      BY <3>1 DEF Low
  <2>7. PICK end : end = Low(cpu) + ErrorLen(v) + 40
    OBVIOUS
  <2>8. cpu.rsp + FrameLen = end
    BY <1>1, <2>1, <2>7, FrameLength
  <2>9. end \in Int /\ end <= top /\ cpu.rsp >= top - 183 * n
    BY <2>2, <2>3, <2>5, <2>6, <2>7, ErrorLength DEF Stacked
  <2>10. 183 * n < StackInUse.len
    BY <2>1 DEF DeepestFrame
  <2>11. StackInUse.first <= cpu.rsp /\ end <= StackInUse.first + StackInUse.len
    BY <2>2, <2>4, <2>5, <2>6, <2>9, <2>10, InsideStack
  <2> QED
    BY <2>8, <2>11
<1> QED
  BY <1>1, SegmentsInvariant, PTL

\* An exception's report shows the context that was interrupted.
THEOREM Reported == SegmentsSpec => []ReportIsTrue
<1>1. ASSUME SegmentsInv
      PROVE  ReportIsTrue
  <2> SUFFICES ASSUME AtStep(0 .. 31, 2)
               PROVE  ReportIsTrue
    BY DEF ReportIsTrue
  <2> DEFINE was == Innermost.cpu
             value(i) == mem[cpu.regs["rdi"] + 8 * (i - 1)]
             shown(x) == CASE x = "error_code" -> "error"
                           [] x = "rip" -> was.rip
                           [] x = "cs" -> was.cs
                           [] x = "rflags" -> was.iflag
                           [] x = "rsp" -> was.rsp
                           [] x = "ss" -> was.ss
                           [] OTHER -> was.regs[x]
  <2>1. PICK v : v = V(Latest)
    OBVIOUS
  <2>2. /\ saved # << >> /\ v \in 0 .. 31 /\ Running = {v} /\ cpu.rip.step = 2
        /\ Inside(layout, mem, cpu, v, Latest.cpu) /\ cpu \in CpuType
    BY <1>1, <2>1, RunningIs
  <2>3. Innermost = Latest
    BY DEF Innermost, Last, Latest
  <2>4. (CHOOSE w \in Running : TRUE) = v
    BY <2>2
  <2>5. PICK f : f = Fields(v)
    OBVIOUS
  <2>6. PICK n : n = Count(v)
    OBVIOUS
  <2>7. /\ DOMAIN f = 1 .. n + 5
        /\ \A i \in 1 .. 15 : f[i] = popped_regs[i]
        /\ v \in WithError => f[16] = "error_code"
        /\ \A i \in 1 .. 5 : f[n + i] = Iret[i]
    BY <2>5, <2>6, FieldsAre, Zenon
  <2>8. cpu.rsp \in Int /\ n \in {15, 16}
    BY <2>2, <2>6, CpuParts DEF Count
  <2>9. cpu.regs["rdi"] = cpu.rsp /\ Low(cpu) = cpu.rsp + 120
          /\ Low(cpu) + ErrorLen(v) = cpu.rsp + 8 * n
    BY <2>2, <2>6, <2>8 DEF Inside, Low, ErrorLen, Count
  <2>10. \A i \in 1 .. 15 : value(i) = shown(f[i])
    <3> SUFFICES ASSUME NEW i \in 1 .. 15
                 PROVE  value(i) = shown(f[i])
      OBVIOUS
    <3>1. Kept(mem, cpu.rsp, was)
      BY <2>2, <2>3 DEF Inside
    <3>2. value(i) = was.regs[popped_regs[i]]
      BY <2>9, <3>1 DEF Kept, Word
    <3>3. f[i] \in Regs /\ f[i] = popped_regs[i]
      BY <2>7, PushedRegs
    <3>4. f[i] \notin {"error_code", "rip", "cs", "rflags", "rsp", "ss"}
      <4>1. Regs = {"rax", "rbx", "rcx", "rdx", "rsi", "rdi", "rbp", "r8", "r9", "r10", "r11",
                    "r12", "r13", "r14", "r15"}
        BY DEF Regs, ToSet, Push15
      <4> QED
        BY <3>3, <4>1
    <3>5. shown(f[i]) = was.regs[f[i]]
      BY <3>4
    <3> QED
      BY <3>2, <3>3, <3>5
  <2>11. v \in WithError => value(16) = shown(f[16])
    <3> SUFFICES ASSUME v \in WithError
                 PROVE  value(16) = shown(f[16])
      OBVIOUS
    <3>1. Word(mem, Low(cpu), "error")
      BY <2>2 DEF Inside
    <3>2. value(16) = "error"
      BY <2>8, <2>9, <3>1 DEF Word
    <3> QED
      BY <2>7, <3>2
  <2>12. \A i \in 1 .. 5 : value(n + i) = shown(f[n + i])
    <3>1. Frame(mem, cpu.rsp + 8 * n, was)
      BY <2>2, <2>3, <2>9 DEF Inside
    <3>2. PICK a : a = cpu.rsp + 8 * n
      OBVIOUS
    <3>3. /\ mem[a] = was.rip /\ mem[a + 8] = was.cs /\ mem[a + 16] = was.iflag
          /\ mem[a + 24] = was.rsp /\ mem[a + 32] = was.ss
      BY <3>1, <3>2, Zenon DEF Frame, Word
    <3>4. \A i \in 1 .. 5 : cpu.regs["rdi"] + 8 * ((n + i) - 1) = a + 8 * (i - 1)
      BY <2>8, <2>9, <3>2
    <3>5. a \in Int
      BY <2>8, <3>2
    <3>6. \A i \in 1 .. 5 : value(n + i) = mem[a + 8 * (i - 1)] /\ f[n + i] = Iret[i]
      BY <2>7, <3>4
    <3>7. /\ a + 8 * (1 - 1) = a /\ a + 8 * (2 - 1) = a + 8 /\ a + 8 * (3 - 1) = a + 16
          /\ a + 8 * (4 - 1) = a + 24 /\ a + 8 * (5 - 1) = a + 32
      BY <3>5
    <3>8. /\ Iret[1] = "rip" /\ Iret[2] = "cs" /\ Iret[3] = "rflags" /\ Iret[4] = "rsp"
          /\ Iret[5] = "ss"
      BY DEF Iret
    <3>9. /\ shown("rip") = was.rip /\ shown("cs") = was.cs /\ shown("rflags") = was.iflag
          /\ shown("rsp") = was.rsp /\ shown("ss") = was.ss
      OBVIOUS
    <3> HIDE DEF value, shown, was
    <3>10. \A i \in 1 .. 5 : i = 1 \/ i = 2 \/ i = 3 \/ i = 4 \/ i = 5
      OBVIOUS
    <3>11. /\ mem[a + 8 * (1 - 1)] = shown(Iret[1]) /\ mem[a + 8 * (2 - 1)] = shown(Iret[2])
           /\ mem[a + 8 * (3 - 1)] = shown(Iret[3]) /\ mem[a + 8 * (4 - 1)] = shown(Iret[4])
           /\ mem[a + 8 * (5 - 1)] = shown(Iret[5])
      BY <3>3, <3>7, <3>8, <3>9, Zenon
    <3>12. \A i \in 1 .. 5 : mem[a + 8 * (i - 1)] = shown(Iret[i])
      BY <3>10, <3>11, Zenon
    <3> QED
      BY <3>6, <3>12, Zenon
  <2>13. \A i \in 1 .. n + 5 : value(i) = shown(f[i])
    <3> SUFFICES ASSUME NEW i \in 1 .. n + 5
                 PROVE  value(i) = shown(f[i])
      OBVIOUS
    <3> HIDE DEF value, shown
    <3>1. CASE i \in 1 .. 15
      BY <2>10, <3>1
    <3>2. CASE i = 16 /\ n = 16
      BY <2>6, <2>11, <3>2 DEF Count
    <3>3. CASE i > n
      <4>1. PICK j : j = i - n
        OBVIOUS
      <4>2. j \in 1 .. 5 /\ n + j = i
        BY <2>8, <3>3, <4>1
      <4> QED
        BY <2>12, <4>2, Zenon
    <3> QED
      BY <2>8, <3>1, <3>2, <3>3
  <2>14. \A i \in DOMAIN Fields(CHOOSE w \in Running : TRUE) :
           value(i) = shown(Fields(CHOOSE w \in Running : TRUE)[i])
    <3> HIDE DEF value, shown
    <3> QED
      BY <2>4, <2>5, <2>7, <2>13, Zenon
  <2> QED
    BY <2>14, Zenon DEF ReportIsTrue
<1> QED
  BY <1>1, SegmentsInvariant, PTL
=============================================================================
