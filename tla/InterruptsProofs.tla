-------------------------- MODULE InterruptsProofs --------------------------
(***************************************************************************)
(* Proofs about Interrupts, for every set of interrupt lines and any       *)
(* number of interrupts, exceptions and system calls.                      *)
(*                                                                         *)
(* A list of operations is judged as a program logic would: Safe(s, H, K)  *)
(* says that s, begun with the locks H, takes no lock it already holds,    *)
(* drops none it does not hold, and ends with the locks K.  Judgements of  *)
(* parts combine to judgements of the whole (SafeConcat), and each call    *)
(* is judged by the locks its ways need to be free.                        *)
(***************************************************************************)
EXTENDS Interrupts, SequenceTheorems, FiniteSetTheorems, TLAPS

Ops == {"lock", "unlock", "lidt", "sti", "cli", "heap_init", "tick", "eoi",
        "iretq", "hlt", "alloc", "serial_init", "heap_frames", "keyboard", "draw"}

Operation == [op : Ops, arg : Locks \cup (0 .. 15)]

\* Operations of handlers other than the end of an interrupt; of the main flow.
Quiet   == {x \in Operation : x.op \notin {"eoi", "iretq", "sti"}}
MainOps == {x \in Operation : x.op \notin {"eoi", "iretq"}}

\* The locks an operation needs to be free.
AllocLocks == {"INNER", "HEAP_END", "FRAME_ALLOCATOR", "SERIAL"}
KeyLocks   == {"EXTENDED_KEY", "MODIFIERS", "KEYBOARD_BUF"}

Needs(x) ==
  CASE x.op = "lock"        -> {x.arg}
    [] x.op = "tick"        -> {"SERIAL"}
    [] x.op = "serial_init" -> {"SERIAL"}
    [] x.op = "heap_frames" -> {"FRAME_ALLOCATOR", "SERIAL"}
    [] x.op = "alloc"       -> AllocLocks
    [] x.op = "draw"        -> AllocLocks
    [] x.op = "keyboard"    -> KeyLocks \cup AllocLocks
    [] x.op = "iretq"       -> Locks
    [] OTHER                -> {}

\* The locks held before and after an operation; nothing follows hlt.
Judged(x, A, B) ==
  /\ A \cap Needs(x) = {}
  /\ x.op = "lock" => x.arg \in Locks /\ B = A \cup {x.arg}
  /\ x.op = "unlock" => x.arg \in A /\ B = A \ {x.arg}
  /\ x.op \notin {"lock", "unlock", "hlt"} => B = A

Safe(s, H, K) ==
  \E h \in [0 .. Len(s) -> SUBSET Locks] :
    /\ h[0] = H /\ h[Len(s)] = K
    /\ \A j \in 1 .. Len(s) : Judged(s[j], h[j - 1], h[j])

\* A list of operations of a set, with its judgement.
Piece(S, s, H, K) == s \in Seq(S) /\ Safe(s, H, K)

----------------------------------------------------------------------------
(* Judgements combine.                                                     *)

\* One list after the other.
LEMMA SafeConcat ==
  ASSUME NEW S, NEW s \in Seq(S), NEW t \in Seq(S), NEW H, NEW K, NEW M,
         Safe(s, H, K), Safe(t, K, M)
  PROVE  Safe(s \o t, H, M)
<1> DEFINE n == Len(s)
           m == Len(t)
<1>1. n \in Nat /\ m \in Nat
  BY LenProperties
<1>2. PICK f \in [0 .. n -> SUBSET Locks] :
        /\ f[0] = H /\ f[n] = K
        /\ \A j \in 1 .. n : Judged(s[j], f[j - 1], f[j])
  BY DEF Safe
<1>3. PICK g \in [0 .. m -> SUBSET Locks] :
        /\ g[0] = K /\ g[m] = M
        /\ \A j \in 1 .. m : Judged(t[j], g[j - 1], g[j])
  BY DEF Safe
<1>4. /\ Len(s \o t) = n + m
      /\ \A i \in 1 .. n + m : (s \o t)[i] = IF i <= n THEN s[i] ELSE t[i - n]
  BY ConcatProperties
<1> DEFINE h == [j \in 0 .. n + m |-> IF j <= n THEN f[j] ELSE g[j - n]]
<1> HIDE DEF n, m
<1>5. h \in [0 .. n + m -> SUBSET Locks]
  BY <1>1, <1>2, <1>3
<1>6. h[0] = H /\ h[n + m] = M
  BY <1>1, <1>2, <1>3
<1>7. ASSUME NEW j \in 1 .. n + m
      PROVE  Judged((s \o t)[j], h[j - 1], h[j])
  <2>1. CASE j <= n
    <3>1. (s \o t)[j] = s[j] /\ h[j - 1] = f[j - 1] /\ h[j] = f[j] /\ j \in 1 .. n
      BY <2>1, <1>1, <1>4
    <3> QED
      BY <3>1, <1>2
  <2>2. CASE j > n
    <3>1. (s \o t)[j] = t[j - n] /\ h[j] = g[j - n] /\ j - n \in 1 .. m
      BY <2>2, <1>1, <1>4
    <3>2. h[j - 1] = g[(j - n) - 1]
      <4>1. CASE j = n + 1
        BY <4>1, <1>1, <1>2, <1>3
      <4>2. CASE j > n + 1
        BY <4>2, <1>1
      <4> QED
        BY <4>1, <4>2, <2>2, <1>1
    <3> QED
      BY <3>1, <3>2, <1>3
  <2>3. j <= n \/ j > n
    BY <1>1
  <2> QED
    BY <2>1, <2>2, <2>3
<1> HIDE DEF h
<1> QED
  BY <1>4, <1>5, <1>6, <1>7 DEF Safe

\* One operation.
LEMMA SafeOne ==
  ASSUME NEW x, NEW A \in SUBSET Locks, NEW B \in SUBSET Locks, Judged(x, A, B)
  PROVE  Safe(<<x>>, A, B)
<1> DEFINE h == [j \in 0 .. 1 |-> IF j = 0 THEN A ELSE B]
<1>1. h \in [0 .. 1 -> SUBSET Locks] /\ h[0] = A /\ h[1] = B
  OBVIOUS
<1>2. Len(<<x>>) = 1 /\ <<x>>[1] = x
  OBVIOUS
<1> HIDE DEF h
<1>3. \A j \in 1 .. 1 : Judged(<<x>>[j], h[j - 1], h[j])
  BY <1>1, <1>2
<1> QED
  BY <1>1, <1>2, <1>3 DEF Safe

\* No operation.
LEMMA SafeEmpty ==
  ASSUME NEW A \in SUBSET Locks
  PROVE  Safe(<< >>, A, A)
<1> DEFINE h == [j \in 0 .. 0 |-> A]
<1>1. h \in [0 .. 0 -> SUBSET Locks] /\ h[0] = A
  OBVIOUS
<1> HIDE DEF h
<1> QED
  BY <1>1 DEF Safe

\* The first operation, and the rest.
LEMMA SafeTail ==
  ASSUME NEW S, NEW s \in Seq(S), s # << >>, NEW H, NEW K, Safe(s, H, K)
  PROVE  /\ H \in SUBSET Locks /\ K \in SUBSET Locks
         /\ \E A \in SUBSET Locks : Judged(Head(s), H, A) /\ Safe(Tail(s), A, K)
<1> DEFINE n == Len(s)
<1>1. n \in Nat /\ n >= 1 /\ Head(s) = s[1]
  BY LenProperties, EmptySeq
<1>2. PICK f \in [0 .. n -> SUBSET Locks] :
        /\ f[0] = H /\ f[n] = K
        /\ \A j \in 1 .. n : Judged(s[j], f[j - 1], f[j])
  BY DEF Safe
<1>3. /\ Len(Tail(s)) = n - 1
      /\ \A i \in 1 .. n - 1 : Tail(s)[i] = s[i + 1]
  BY HeadTailProperties
<1> HIDE DEF n
<1> DEFINE h == [j \in 0 .. n - 1 |-> f[j + 1]]
<1>4. h \in [0 .. n - 1 -> SUBSET Locks] /\ h[0] = f[1] /\ h[n - 1] = K
  BY <1>1, <1>2
<1>5. \A j \in 1 .. n - 1 : Judged(Tail(s)[j], h[j - 1], h[j])
  <2> SUFFICES ASSUME NEW j \in 1 .. n - 1
               PROVE  Judged(Tail(s)[j], h[j - 1], h[j])
    OBVIOUS
  <2>1. /\ Tail(s)[j] = s[j + 1] /\ h[j - 1] = f[j] /\ h[j] = f[j + 1]
        /\ j + 1 \in 1 .. n /\ (j + 1) - 1 = j
    BY <1>1, <1>3
  <2>2. Judged(s[j + 1], f[(j + 1) - 1], f[j + 1])
    BY <2>1, <1>2
  <2> QED
    BY <2>1, <2>2
<1> HIDE DEF h
<1>6. Safe(Tail(s), f[1], K)
  BY <1>3, <1>4, <1>5 DEF Safe
<1>7. Judged(Head(s), H, f[1]) /\ f[1] \in SUBSET Locks /\ H \in SUBSET Locks
        /\ K \in SUBSET Locks
  BY <1>1, <1>2
<1> QED
  BY <1>6, <1>7

\* Pieces one after the other are a piece.
LEMMA PieceConcat ==
  ASSUME NEW S, NEW s, NEW t, NEW H, NEW K, NEW M,
         Piece(S, s, H, K), Piece(S, t, K, M)
  PROVE  Piece(S, s \o t, H, M)
BY SafeConcat, ConcatProperties DEF Piece

----------------------------------------------------------------------------
(* The judgement of each list of operations.                               *)

\* Sets of operations lists are made of.
Sorts == {Quiet, MainOps}

\* Taking a lock that is not held.
LEMMA LockPiece ==
  ASSUME NEW S \in Sorts, NEW l \in Locks, NEW H \in SUBSET Locks, l \notin H
  PROVE  Piece(S, Lock(l), H, H \cup {l})
<1> DEFINE x == [op |-> "lock", arg |-> l]
<1>1. x \in S /\ x.op = "lock" /\ x.arg = l
  BY DEF Sorts, Quiet, MainOps, Operation, Ops
<1>2. Judged(x, H, H \cup {l})
  BY <1>1 DEF Judged, Needs
<1>3. <<x>> \in Seq(S)
  BY <1>1
<1> HIDE DEF x
<1>4. Safe(<<x>>, H, H \cup {l})
  BY <1>2, SafeOne
<1> QED
  BY <1>3, <1>4 DEF Piece, Lock, x

\* Releasing it.
LEMMA UnlockPiece ==
  ASSUME NEW S \in Sorts, NEW l \in Locks, NEW H \in SUBSET Locks, l \notin H
  PROVE  Piece(S, Unlock(l), H \cup {l}, H)
<1> DEFINE x == [op |-> "unlock", arg |-> l]
<1>1. x \in S /\ x.op = "unlock" /\ x.arg = l
  BY DEF Sorts, Quiet, MainOps, Operation, Ops
<1>2. Judged(x, H \cup {l}, H)
  BY <1>1 DEF Judged, Needs
<1>3. <<x>> \in Seq(S)
  BY <1>1
<1> HIDE DEF x
<1>4. Safe(<<x>>, H \cup {l}, H)
  BY <1>2, SafeOne
<1> QED
  BY <1>3, <1>4 DEF Piece, Unlock, x

\* Operations without a lock as their argument.
LEMMA DoPiece ==
  ASSUME NEW S \in Sorts, NEW H \in SUBSET Locks, NEW K \in SUBSET Locks,
         NEW op \in Ops \ {"lock", "unlock", "eoi", "iretq"},
         op = "sti" => S = MainOps,
         op # "hlt" => K = H,
         H \cap Needs([op |-> op, arg |-> 0]) = {}
  PROVE  Piece(S, Do(op), H, K)
<1> DEFINE x == [op |-> op, arg |-> 0]
<1>1. x \in S /\ x.op = op
  BY DEF Sorts, Quiet, MainOps, Operation, Ops
<1>2. Judged(x, H, K)
  BY <1>1 DEF Judged
<1>3. <<x>> \in Seq(S)
  BY <1>1
<1> HIDE DEF x
<1>4. Safe(<<x>>, H, K)
  BY <1>2, SafeOne
<1> QED
  BY <1>3, <1>4 DEF Piece, Do, x

\* Doing nothing.
LEMMA EmptyPiece ==
  ASSUME NEW S, NEW H \in SUBSET Locks
  PROVE  Piece(S, << >>, H, H)
BY SafeEmpty DEF Piece

\* Code that runs under a guard it does not take again.
LEMMA WithinPiece ==
  ASSUME NEW S \in Sorts, NEW l \in Locks, NEW H \in SUBSET Locks, l \notin H,
         NEW ops, Piece(S, ops, H \cup {l}, H \cup {l})
  PROVE  Piece(S, Within(l, ops), H, H)
<1>1. Piece(S, Lock(l), H, H \cup {l}) /\ Piece(S, Unlock(l), H \cup {l}, H)
  BY LockPiece, UnlockPiece
<1>2. Piece(S, Lock(l) \o ops, H, H \cup {l})
  BY <1>1, PieceConcat
<1>3. Piece(S, (Lock(l) \o ops) \o Unlock(l), H, H)
  BY <1>1, <1>2, PieceConcat
<1> QED
  BY <1>3 DEF Within

\* A log line, for a caller that does not hold the serial port.
LEMMA LogPiece ==
  ASSUME NEW S \in Sorts, NEW H \in SUBSET Locks, "SERIAL" \notin H
  PROVE  Piece(S, Log, H, H)
<1>1. "SERIAL" \in Locks
  BY DEF Locks
<1>2. Piece(S, << >>, H \cup {"SERIAL"}, H \cup {"SERIAL"})
  BY <1>1, EmptyPiece
<1> QED
  BY <1>1, <1>2, WithinPiece DEF Log

\* The panic handler ends the program it interrupts, so nothing follows it.
LEMMA PanicPiece ==
  ASSUME NEW S \in Sorts, NEW H \in SUBSET Locks, NEW K \in SUBSET Locks,
         "SERIAL" \notin H
  PROVE  Piece(S, Panic, H, K)
<1>1. Piece(S, Do("hlt"), H, K)
  <2>1. Needs([op |-> "hlt", arg |-> 0]) = {}
    BY DEF Needs
  <2> QED
    BY <2>1, DoPiece DEF Ops
<1> QED
  BY <1>1, LogPiece, PieceConcat DEF Panic

\* A lock taken and dropped.
LEMMA EmptyWithinPiece ==
  ASSUME NEW S \in Sorts, NEW l \in Locks, NEW H \in SUBSET Locks, l \notin H
  PROVE  Piece(S, Within(l, << >>), H, H)
BY EmptyPiece, WithinPiece

\* The handler of a failed allocation, likewise.
LEMMA AllocErrorPiece ==
  ASSUME NEW S \in Sorts, NEW H \in SUBSET Locks, NEW K \in SUBSET Locks,
         H \cap AllocLocks = {}
  PROVE  Piece(S, alloc_error_handler, H, K)
<1> DEFINE a == Attempt
           b == Within("HEAP_END", << >>)
           c == Within("FRAME_ALLOCATOR", << >>)
<1>1. /\ Piece(S, a, H, H) /\ Piece(S, b, H, H) /\ Piece(S, c, H, H)
      /\ Piece(S, Log, H, H) /\ Piece(S, Panic, H, K)
  BY EmptyWithinPiece, LogPiece, PanicPiece DEF AllocLocks, Locks, Attempt
<1>2. Piece(S, a \o b \o c \o Log \o Log \o Log \o Panic, H, K)
  <2> HIDE DEF a, b, c
  <2> QED
    BY <1>1, PieceConcat
<1> QED
  BY <1>2 DEF alloc_error_handler

\* Taking a frame, and failing to.
LEMMA FramePieces ==
  ASSUME NEW S \in Sorts, NEW H \in SUBSET Locks,
         "FRAME_ALLOCATOR" \notin H, "SERIAL" \notin H
  PROVE  Piece(S, OneFrame, H, H) /\ Piece(S, NoFrame, H, H)
<1> DEFINE f == Within("FRAME_ALLOCATOR", Log)
<1>1. Piece(S, OneFrame, H, H) /\ Piece(S, Log, H, H)
  BY EmptyWithinPiece, LogPiece DEF OneFrame, Locks
<1>2. Piece(S, f, H, H)
  <2> DEFINE F == H \cup {"FRAME_ALLOCATOR"}
  <2>1. F \in SUBSET Locks /\ "SERIAL" \notin F
    BY DEF Locks
  <2>2. Piece(S, Log, F, F)
    BY <2>1, LogPiece
  <2> QED
    BY <2>2, WithinPiece DEF Locks
<1> HIDE DEF f
<1>3. Piece(S, f \o Log, H, H)
  BY <1>1, <1>2, PieceConcat
<1> QED
  BY <1>1, <1>3 DEF NoFrame, f

\* Every way alloc can go drops what it takes, or ends in a panic that gets
\* its report out.
LEMMA AllocPieces ==
  ASSUME NEW S \in Sorts, NEW H \in SUBSET Locks, H \cap AllocLocks = {},
         NEW way \in AllocWays
  PROVE  Piece(S, way, H, H)
<1> DEFINE E == H \cup {"HEAP_END"}
           I == E \cup {"INNER"}
<1>1. /\ E \in SUBSET Locks /\ I \in SUBSET Locks
      /\ "HEAP_END" \in Locks /\ "HEAP_END" \notin H
      /\ "INNER" \in Locks /\ "INNER" \notin H /\ "INNER" \notin E
      /\ "SERIAL" \notin H /\ "SERIAL" \notin E /\ "SERIAL" \notin I
      /\ "FRAME_ALLOCATOR" \notin E
  BY DEF Locks, AllocLocks
<1> HIDE DEF E, I
<1>2. /\ Piece(S, Attempt, H, H) /\ Piece(S, Attempt, E, E)
      /\ Piece(S, Log, E, E)
      /\ Piece(S, OneFrame, E, E) /\ Piece(S, NoFrame, E, E)
      /\ Piece(S, alloc_error_handler, H, H)
  BY <1>1, EmptyWithinPiece, LogPiece, FramePieces, AllocErrorPiece DEF Attempt
<1>3. \A ops : Piece(S, ops, E, E) => Piece(S, Within("HEAP_END", ops), H, H)
  BY <1>1, WithinPiece DEF E
<1>4. CASE way = Attempt
  BY <1>2, <1>4
<1>5. CASE way = Attempt \o Within("HEAP_END", OneFrame \o Attempt \o Log) \o Attempt
  <2>1. Piece(S, OneFrame \o Attempt \o Log, E, E)
    BY <1>2, PieceConcat
  <2> QED
    BY <1>2, <1>3, <1>5, <2>1, PieceConcat
<1>6. CASE way = Attempt \o Within("HEAP_END", OneFrame \o NoFrame \o Attempt \o Log)
                   \o Attempt \o alloc_error_handler
  <2>1. Piece(S, OneFrame \o NoFrame \o Attempt \o Log, E, E)
    BY <1>2, PieceConcat
  <2> QED
    BY <1>2, <1>3, <1>6, <2>1, PieceConcat
<1>7. CASE way = Attempt \o Within("HEAP_END", NoFrame) \o alloc_error_handler
  BY <1>2, <1>3, <1>7, PieceConcat
<1>8. CASE way = Attempt \o Within("HEAP_END", Log) \o alloc_error_handler
  BY <1>2, <1>3, <1>8, PieceConcat
<1>9. CASE way = Attempt \o Lock("HEAP_END") \o NoFrame \o Unlock("HEAP_END")
                   \o alloc_error_handler
  <2>1. Piece(S, Lock("HEAP_END"), H, E) /\ Piece(S, Unlock("HEAP_END"), E, H)
    BY <1>1, LockPiece, UnlockPiece DEF E
  <2> QED
    BY <1>2, <1>9, <2>1, PieceConcat
<1>10. CASE way = Attempt \o Lock("HEAP_END") \o OneFrame \o Lock("INNER") \o Panic
  <2>1. /\ Piece(S, Lock("HEAP_END"), H, E) /\ Piece(S, Lock("INNER"), E, I)
        /\ Piece(S, Panic, I, H)
    BY <1>1, LockPiece, PanicPiece DEF E, I
  <2> QED
    BY <1>2, <1>10, <2>1, PieceConcat
<1> QED
  BY <1>4, <1>5, <1>6, <1>7, <1>8, <1>9, <1>10 DEF AllocWays

\* The keyboard's handler.
LEMMA KeyboardPieces ==
  ASSUME NEW S \in Sorts, NEW H \in SUBSET Locks,
         H \cap (KeyLocks \cup AllocLocks) = {}, NEW way \in KeyboardWays
  PROVE  Piece(S, way, H, H)
<1> DEFINE B == H \cup {"KEYBOARD_BUF"}
           e == Within("EXTENDED_KEY", << >>)
           m == Within("MODIFIERS", << >>)
           k == Within("KEYBOARD_BUF", << >>)
           a == Within("KEYBOARD_BUF", Do("alloc"))
<1>1. /\ B \in SUBSET Locks /\ B \cap AllocLocks = {}
      /\ "KEYBOARD_BUF" \in Locks /\ "KEYBOARD_BUF" \notin H
  BY DEF Locks, KeyLocks, AllocLocks
<1>2. Piece(S, e, H, H) /\ Piece(S, m, H, H) /\ Piece(S, k, H, H)
  BY EmptyWithinPiece DEF Locks, KeyLocks
<1>3. Piece(S, Do("alloc"), B, B)
  <2>1. Needs([op |-> "alloc", arg |-> 0]) = AllocLocks
    BY DEF Needs
  <2> QED
    BY <1>1, <2>1, DoPiece DEF Ops
<1>4. Piece(S, a, H, H)
  BY <1>1, <1>3, WithinPiece
<1>5. way \in {e, e \o m \o m \o k, e \o m \o m \o a}
  BY DEF KeyboardWays
<1> HIDE DEF e, m, k, a
<1> QED
  BY <1>2, <1>4, <1>5, PieceConcat

\* serial::init when the self-test passes, and the frames of heap::init.
LEMMA InitPieces ==
  ASSUME NEW S \in Sorts, NEW H \in SUBSET Locks, "SERIAL" \notin H
  PROVE  /\ SelfTestFails = {FALSE} => \A way \in SerialInitWays : Piece(S, way, H, H)
         /\ "FRAME_ALLOCATOR" \notin H => \A way \in HeapFrames : Piece(S, way, H, H)
<1>1. Piece(S, Log, H, H) /\ Piece(S, Panic, H, H)
  BY LogPiece, PanicPiece
<1>2. ASSUME SelfTestFails = {FALSE}, NEW way \in SerialInitWays
      PROVE  Piece(S, way, H, H)
  <2>1. way = Log \o Within("SERIAL", << >>) \o Log
    BY <1>2 DEF SerialInitWays
  <2>2. way = Log \o Log \o Log
    BY <2>1 DEF Log
  <2> QED
    BY <1>1, <2>2, PieceConcat
<1>3. ASSUME "FRAME_ALLOCATOR" \notin H, NEW way \in HeapFrames
      PROVE  Piece(S, way, H, H)
  <2> DEFINE f == Within("FRAME_ALLOCATOR", Log)
             F == H \cup {"FRAME_ALLOCATOR"}
  <2>1. F \in SUBSET Locks /\ "SERIAL" \notin F
    BY DEF Locks
  <2>2. Piece(S, Log, F, F)
    BY <2>1, LogPiece
  <2>3. Piece(S, f, H, H) /\ Piece(S, OneFrame, H, H)
    BY <1>3, <2>2, WithinPiece, FramePieces DEF Locks
  <2>4. way \in {OneFrame, f \o Panic}
    BY <1>3 DEF HeapFrames
  <2> HIDE DEF f
  <2> QED
    BY <1>1, <2>3, <2>4, PieceConcat
<1> QED
  BY <1>2, <1>3

\* A round of the drawing loop.
LEMMA DrawPieces ==
  ASSUME NEW S \in Sorts, NEW H \in SUBSET Locks, H \cap AllocLocks = {},
         NEW way \in DrawWays
  PROVE  Piece(S, way, H, H)
<1> DEFINE i == Within("INNER", << >>)
<1>1. /\ Needs([op |-> "alloc", arg |-> 0]) = AllocLocks
      /\ Needs([op |-> "draw", arg |-> 0]) = AllocLocks
  BY DEF Needs
<1>2. Piece(S, Do("alloc"), H, H) /\ Piece(S, Do("draw"), H, H)
  BY <1>1, DoPiece DEF Ops
<1>3. Piece(S, i, H, H) /\ Piece(S, Panic, H, H)
  BY EmptyWithinPiece, PanicPiece DEF Locks, AllocLocks
<1>4. way \in {Do("alloc") \o i \o Do("draw"), Panic}
  BY DEF DrawWays
<1> HIDE DEF i
<1> QED
  BY <1>2, <1>3, <1>4, PieceConcat

\* Every way a call can go is safe wherever the call is, and keeps the locks
\* of its caller.
LEMMA WaysPieces ==
  ASSUME NEW S \in Sorts, NEW x \in Operation, NEW H \in SUBSET Locks,
         H \cap Needs(x) = {}, NEW way \in Ways(x.op),
         SelfTestFails = {FALSE}
  PROVE  /\ Piece(S, way, H, H)
         /\ x.op \notin {"lock", "unlock", "hlt"}
<1>1. CASE x.op = "alloc"
  BY <1>1, AllocPieces DEF Ways, Needs
<1>2. CASE x.op = "serial_init"
  BY <1>2, InitPieces DEF Ways, Needs
<1>3. CASE x.op = "heap_frames"
  BY <1>3, InitPieces DEF Ways, Needs
<1>4. CASE x.op = "keyboard"
  BY <1>4, KeyboardPieces DEF Ways, Needs
<1>5. CASE x.op = "draw"
  BY <1>5, DrawPieces DEF Ways, Needs
<1> QED
  BY <1>1, <1>2, <1>3, <1>4, <1>5 DEF Ways

----------------------------------------------------------------------------
(* The inductive invariant of the interrupt controllers.                   *)

\* A list of operations does not simply end.
Lasting(s) == s # << >> /\ s[Len(s)].op \in {"draw", "hlt", "iretq"}

\* What a context of each kind still has to do: an interrupt handler ends
\* with its end of interrupt and its return, and nothing else has either.
Shape(kind, s) ==
  /\ kind = "main"      => s \in Seq(MainOps)
  /\ kind = "exception" => s \in Seq(Quiet)
  /\ kind = "trap"      => \A j \in 1 .. Len(s) : s[j].op = "iretq"
  /\ kind = "irq"       => \A j \in 1 .. Len(s) :
                             /\ s[j].op = "iretq" <=> j = Len(s)
                             /\ s[j].op = "eoi" <=> j = Len(s) - 1
                             /\ s[j].op # "sti"

ContextType == [kind : {"main", "irq", "exception", "trap"},
                todo : Seq(Operation), flag : BOOLEAN]

\* Lines in service while the handler of a line runs: its own and that of the
\* slave, less what a spurious interrupt does not put into service.
InService(irq) == IF irq \in Slave THEN {{2, irq}, {2}} ELSE {{irq}, {}}

Serviced(s, lines) ==
  IF Len(s) = 1 THEN lines = {}
  ELSE s[Len(s) - 1].arg \in 0 .. 15 /\ lines \in InService(s[Len(s) - 1].arg)

IrqLevels == {i \in 1 .. Len(stack) : stack[i].kind = "irq"}

StackInv ==
  /\ stack \in Seq(ContextType) /\ stack # << >>
  /\ \A i \in 1 .. Len(stack) :
       /\ Lasting(stack[i].todo) /\ Shape(stack[i].kind, stack[i].todo)
       /\ stack[i].kind = "main" <=> i = 1
       /\ stack[i].kind = "trap" => i = 2

PicInv ==
  /\ StackInv
  /\ iflag \in BOOLEAN /\ irr \in SUBSET (0 .. 15)
  /\ \A i, j \in IrqLevels : i = j
  /\ \A i \in IrqLevels : ~ iflag /\ Serviced(stack[i].todo, isr)
  /\ IrqLevels = {} => isr = {}

----------------------------------------------------------------------------
(* Lists of operations as they are worked off.                             *)

\* What is left after the first operation.
LEMMA TailKeepsShape ==
  ASSUME NEW kind, NEW s \in Seq(Operation), Lasting(s), Shape(kind, s),
         Len(s) > 1 \/ Head(s).op \notin {"draw", "hlt", "iretq"}
  PROVE  /\ Tail(s) \in Seq(Operation)
         /\ Lasting(Tail(s)) /\ Shape(kind, Tail(s))
         /\ Len(s) > 1 /\ Len(Tail(s)) = Len(s) - 1
         /\ \A i \in 1 .. Len(s) - 1 : Tail(s)[i] = s[i + 1]
<1>1. /\ Len(s) \in Nat /\ Len(s) >= 1 /\ Head(s) = s[1]
      /\ s[Len(s)].op \in {"draw", "hlt", "iretq"}
  BY LenProperties, EmptySeq DEF Lasting
<1>2. Len(s) > 1
  BY <1>1
<1>3. /\ Tail(s) \in Seq(Operation) /\ Len(Tail(s)) = Len(s) - 1
      /\ \A i \in 1 .. Len(s) - 1 : Tail(s)[i] = s[i + 1]
  BY HeadTailProperties DEF Lasting
<1>4. Lasting(Tail(s))
  <2>1. Len(s) - 1 \in 1 .. Len(s) - 1 /\ (Len(s) - 1) + 1 = Len(s)
    BY <1>1, <1>2
  <2>2. Tail(s)[Len(s) - 1] = s[(Len(s) - 1) + 1]
    BY <1>3, <2>1
  <2>3. Tail(s) # << >>
    <3>1. Len(Tail(s)) # 0
      BY <1>1, <1>2, <1>3
    <3> QED
      BY <1>3, <3>1, EmptySeq
  <2> QED
    BY <1>1, <1>3, <2>1, <2>2, <2>3 DEF Lasting
<1>5. Shape(kind, Tail(s))
  <2>1. CASE kind = "main"
    <3>1. s \in Seq(MainOps) /\ s # << >>
      BY <2>1 DEF Shape, Lasting
    <3>2. Tail(s) \in Seq(MainOps)
      BY <3>1, HeadTailProperties
    <3> QED
      BY <2>1, <3>2 DEF Shape
  <2>2. CASE kind = "exception"
    <3>1. s \in Seq(Quiet) /\ s # << >>
      BY <2>2 DEF Shape, Lasting
    <3>2. Tail(s) \in Seq(Quiet)
      BY <3>1, HeadTailProperties
    <3> QED
      BY <2>2, <3>2 DEF Shape
  <2>3. CASE kind = "trap"
    <3> SUFFICES ASSUME NEW j \in 1 .. Len(s) - 1
                 PROVE  Tail(s)[j].op = "iretq"
      BY <2>3, <1>1, <1>3 DEF Shape
    <3>1. j + 1 \in 1 .. Len(s) /\ Tail(s)[j] = s[j + 1]
      BY <1>1, <1>3
    <3> QED
      BY <2>3, <3>1 DEF Shape
  <2>4. CASE kind = "irq"
    <3> DEFINE n == Len(s) - 1
    <3>0. Len(Tail(s)) = n
      BY <1>3
    <3> HIDE DEF n
    <3> SUFFICES ASSUME NEW j \in 1 .. n
                 PROVE  /\ Tail(s)[j].op = "iretq" <=> j = n
                        /\ Tail(s)[j].op = "eoi" <=> j = n - 1
                        /\ Tail(s)[j].op # "sti"
      BY <2>4, <3>0 DEF Shape
    <3>1. j + 1 \in 1 .. Len(s) /\ Tail(s)[j] = s[j + 1]
      BY <1>1, <1>3 DEF n
    <3>2. /\ s[j + 1].op = "iretq" <=> j + 1 = Len(s)
          /\ s[j + 1].op = "eoi" <=> j + 1 = Len(s) - 1
          /\ s[j + 1].op # "sti"
      BY <3>1, <2>4 DEF Shape
    <3> QED
      BY <1>1, <3>1, <3>2 DEF n
  <2> QED
    BY <2>1, <2>2, <2>3, <2>4 DEF Shape
<1> QED
  BY <1>2, <1>3, <1>4, <1>5

\* Quiet operations in front of a list.
LEMMA PrefixKeepsShape ==
  ASSUME NEW kind \in {"main", "irq", "exception"}, NEW w \in Seq(Quiet),
         NEW s \in Seq(Operation), Lasting(s), Shape(kind, s),
         kind = "irq" => Len(s) > 1
  PROVE  /\ w \o s \in Seq(Operation)
         /\ Lasting(w \o s) /\ Shape(kind, w \o s)
         /\ Len(w \o s) = Len(w) + Len(s)
         /\ \A i \in 1 .. Len(s) : (w \o s)[Len(w) + i] = s[i]
<1>1. /\ Len(s) \in Nat /\ Len(s) >= 1 /\ Len(w) \in Nat
      /\ s[Len(s)].op \in {"draw", "hlt", "iretq"}
  BY LenProperties, EmptySeq DEF Lasting
<1>2. w \in Seq(Operation)
  BY SeqMonotonic DEF Quiet
<1>3. /\ w \o s \in Seq(Operation) /\ Len(w \o s) = Len(w) + Len(s)
      /\ \A i \in 1 .. Len(w) + Len(s) :
           (w \o s)[i] = IF i <= Len(w) THEN w[i] ELSE s[i - Len(w)]
  BY <1>2, ConcatProperties
<1>4. \A i \in 1 .. Len(s) : (w \o s)[Len(w) + i] = s[i]
  BY <1>1, <1>3
<1>5. Lasting(w \o s)
  <2>1. (w \o s)[Len(w) + Len(s)] = s[Len(s)]
    BY <1>1, <1>4
  <2>2. w \o s # << >>
    BY <1>1, <1>3
  <2> QED
    BY <1>1, <1>3, <2>1, <2>2 DEF Lasting
<1>6. Shape(kind, w \o s)
  <2>1. CASE kind = "main"
    <3>1. s \in Seq(MainOps) /\ w \in Seq(MainOps)
      BY <2>1, SeqMonotonic DEF Shape, Quiet, MainOps
    <3>2. w \o s \in Seq(MainOps)
      BY <3>1, ConcatProperties
    <3> QED
      BY <2>1, <3>2 DEF Shape
  <2>2. CASE kind = "exception"
    <3>1. s \in Seq(Quiet)
      BY <2>2 DEF Shape
    <3>2. w \o s \in Seq(Quiet)
      BY <3>1, ConcatProperties
    <3> QED
      BY <2>2, <3>2 DEF Shape
  <2>4. CASE kind = "irq"
    <3> SUFFICES ASSUME NEW j \in 1 .. Len(w) + Len(s)
                 PROVE  /\ (w \o s)[j].op = "iretq" <=> j = Len(w) + Len(s)
                        /\ (w \o s)[j].op = "eoi" <=> j = Len(w) + Len(s) - 1
                        /\ (w \o s)[j].op # "sti"
      BY <2>4, <1>1, <1>3 DEF Shape
    <3>1. CASE j <= Len(w)
      <4>1. (w \o s)[j] = w[j] /\ w[j] \in Quiet
        BY <1>1, <1>3, <3>1, ElementOfSeq
      <4>2. w[j].op \notin {"iretq", "eoi", "sti"}
        BY <4>1 DEF Quiet
      <4>3. j # Len(w) + Len(s)
        BY <1>1, <3>1
      <4>4. j # Len(w) + Len(s) - 1
        BY <1>1, <2>4, <3>1
      <4> QED
        BY <4>1, <4>2, <4>3, <4>4
    <3>2. CASE j > Len(w)
      <4>1. (w \o s)[j] = s[j - Len(w)] /\ j - Len(w) \in 1 .. Len(s)
        BY <1>1, <1>3, <3>2
      <4>2. /\ s[j - Len(w)].op = "iretq" <=> j - Len(w) = Len(s)
            /\ s[j - Len(w)].op = "eoi" <=> j - Len(w) = Len(s) - 1
            /\ s[j - Len(w)].op # "sti"
        BY <4>1, <2>4 DEF Shape
      <4> QED
        BY <1>1, <4>1, <4>2
    <3> QED
      BY <1>1, <3>1, <3>2
  <2> QED
    BY <2>1, <2>2, <2>4
<1> QED
  BY <1>3, <1>4, <1>5, <1>6

\* Calls do nothing but quiet operations, also when the self-test fails, and
\* the drawing loop goes on or halts.
LEMMA WaysQuiet ==
  ASSUME NEW op, NEW way \in Ways(op)
  PROVE  /\ way \in Seq(Quiet)
         /\ op \in {"alloc", "serial_init", "heap_frames", "keyboard", "draw"}
         /\ op = "draw" => Lasting(way)
<1>1. Quiet \in Sorts /\ {} \in SUBSET Locks /\ "SERIAL" \notin {}
        /\ {} \cap AllocLocks = {} /\ {} \cap (KeyLocks \cup AllocLocks) = {}
  BY DEF Sorts
<1>2. CASE op = "alloc"
  <2>1. way \in AllocWays
    BY <1>2 DEF Ways
  <2> QED
    BY <1>1, <1>2, <2>1, AllocPieces DEF Piece
<1>3. CASE op = "serial_init"
  <2>1. way \in SerialInitWays
    BY <1>3 DEF Ways
  <2>2. way = Log \o Lock("SERIAL") \o Panic \/ way = Log \o Log \o Log
    BY <2>1 DEF SerialInitWays, Log
  <2>3. /\ Piece(Quiet, Log, {}, {})
        /\ Piece(Quiet, Lock("SERIAL"), {}, {} \cup {"SERIAL"})
        /\ Piece(Quiet, Panic, {}, {})
    BY <1>1, LogPiece, PanicPiece, LockPiece DEF Locks
  <2>4. Log \in Seq(Quiet) /\ Lock("SERIAL") \in Seq(Quiet) /\ Panic \in Seq(Quiet)
    BY <2>3 DEF Piece
  <2> QED
    BY <1>3, <2>2, <2>4, ConcatProperties, ZenonT(40)
<1>4. CASE op = "heap_frames"
  <2>1. way \in HeapFrames
    BY <1>4 DEF Ways
  <2> QED
    BY <1>1, <1>4, <2>1, InitPieces DEF Piece
<1>5. CASE op = "keyboard"
  <2>1. way \in KeyboardWays
    BY <1>5 DEF Ways
  <2> QED
    BY <1>1, <1>5, <2>1, KeyboardPieces DEF Piece
<1>6. CASE op = "draw"
  <2>1. way \in DrawWays
    BY <1>6 DEF Ways
  <2>2. way \in Seq(Quiet)
    BY <1>1, <2>1, DrawPieces DEF Piece
  <2>3. Lasting(way)
    <3> DEFINE d == Do("alloc") \o Within("INNER", << >>)
    <3>1. /\ d \in Seq(Quiet) /\ Do("draw") \in Seq(Quiet)
          /\ Log \in Seq(Quiet) /\ Do("hlt") \in Seq(Quiet)
      <4>1. /\ Needs([op |-> "alloc", arg |-> 0]) = AllocLocks
            /\ Needs([op |-> "draw", arg |-> 0]) = AllocLocks
            /\ Needs([op |-> "hlt", arg |-> 0]) = {}
        BY DEF Needs
      <4>2. /\ Piece(Quiet, Do("alloc"), {}, {}) /\ Piece(Quiet, Do("draw"), {}, {})
            /\ Piece(Quiet, Do("hlt"), {}, {})
        BY <1>1, <4>1, DoPiece DEF Ops
      <4>3. Piece(Quiet, Within("INNER", << >>), {}, {}) /\ Piece(Quiet, Log, {}, {})
        BY <1>1, EmptyWithinPiece, LogPiece DEF Locks
      <4> QED
        BY <4>2, <4>3, PieceConcat DEF Piece
    <3>2. way = d \o Do("draw") \/ way = Log \o Do("hlt")
      BY <2>1 DEF DrawWays, Panic
    <3>3. \A u \in Seq(Quiet), x \in {"draw", "hlt"} :
            /\ Do(x) \in Seq(Quiet) => Lasting(u \o Do(x))
      <4> SUFFICES ASSUME NEW u \in Seq(Quiet), NEW x \in {"draw", "hlt"},
                          Do(x) \in Seq(Quiet)
                   PROVE  Lasting(u \o Do(x))
        OBVIOUS
      <4>1. Len(Do(x)) = 1 /\ Do(x)[1].op = x
        BY DEF Do
      <4>2. /\ Len(u) \in Nat /\ Len(u \o Do(x)) = Len(u) + 1
            /\ (u \o Do(x))[Len(u) + 1] = Do(x)[1]
            /\ u \o Do(x) \in Seq(Quiet)
        BY <4>1, ConcatProperties, LenProperties
      <4>3. u \o Do(x) # << >>
        BY <4>2
      <4> QED
        BY <4>1, <4>2, <4>3 DEF Lasting
    <3> HIDE DEF d
    <3> QED
      BY <3>1, <3>2, <3>3
  <2> QED
    BY <1>6, <2>2, <2>3
<1> QED
  BY <1>2, <1>3, <1>4, <1>5, <1>6 DEF Ways

----------------------------------------------------------------------------
(* The stack of contexts.                                                  *)

\* The context on top, and its next operation.
LEMMA TopFacts ==
  ASSUME StackInv
  PROVE  /\ depth \in Nat /\ depth >= 1 /\ depth \in 1 .. Len(stack) /\ depth = Len(stack)
         /\ Top = stack[depth] /\ Top \in ContextType
         /\ Top.todo \in Seq(Operation) /\ Top.todo # << >>
         /\ Lasting(Top.todo) /\ Shape(Top.kind, Top.todo)
         /\ Op \in Operation /\ Op = Head(Top.todo) /\ Op = Top.todo[1]
         /\ Len(Top.todo) \in Nat /\ Len(Top.todo) >= 1
<1>1. stack \in Seq(ContextType) /\ stack # << >>
  BY DEF StackInv
<1>2. depth \in Nat /\ depth >= 1 /\ depth \in 1 .. Len(stack) /\ depth = Len(stack)
  BY <1>1, LenProperties, EmptySeq DEF depth
<1>3. Top = stack[depth] /\ Top \in ContextType
  BY <1>1, <1>2, ElementOfSeq DEF Top
<1>4. Top.todo \in Seq(Operation) /\ Lasting(Top.todo) /\ Shape(Top.kind, Top.todo)
  BY <1>2, <1>3 DEF StackInv, ContextType
<1>5. Top.todo # << >>
  BY <1>4 DEF Lasting
<1>6. Len(Top.todo) \in Nat /\ Len(Top.todo) >= 1
  BY <1>4, <1>5, LenProperties, EmptySeq
<1>7. Op \in Operation /\ Op = Head(Top.todo) /\ Op = Top.todo[1]
  BY <1>4, <1>5, HeadTailProperties DEF Op
<1> QED
  BY <1>2, <1>3, <1>4, <1>5, <1>6, <1>7

\* The context on top goes on with other operations.
LEMMA ContinueStack ==
  ASSUME StackInv, NEW t \in Seq(Operation), Lasting(t), Shape(Top.kind, t),
         Continue(t)
  PROVE  /\ StackInv' /\ Len(stack') = Len(stack) /\ IrqLevels' = IrqLevels
         /\ \A i \in 1 .. Len(stack) : stack'[i].kind = stack[i].kind
         /\ \A i \in 1 .. Len(stack) :
              stack'[i].todo = IF i = depth THEN t ELSE stack[i].todo
<1> DEFINE c == [stack[depth] EXCEPT !.todo = t]
<1>1. /\ stack \in Seq(ContextType) /\ depth \in 1 .. Len(stack)
      /\ stack[depth] \in ContextType /\ Top = stack[depth]
      /\ depth \in Nat /\ depth = Len(stack)
  BY TopFacts DEF StackInv
<1>2. c \in ContextType /\ c.kind = stack[depth].kind /\ c.todo = t
  BY <1>1 DEF ContextType
<1>3. stack' = [stack EXCEPT ![depth] = c]
  BY DEF Continue
<1> HIDE DEF c
<1>4. /\ stack' \in Seq(ContextType) /\ Len(stack') = Len(stack)
      /\ \A j \in 1 .. Len(stack) : stack'[j] = IF j = depth THEN c ELSE stack[j]
  BY <1>1, <1>2, <1>3, ExceptSeq
<1>5. stack' # << >>
  BY <1>1, <1>4
<1>6. \A i \in 1 .. Len(stack) :
         /\ stack'[i].kind = stack[i].kind
         /\ stack'[i].todo = IF i = depth THEN t ELSE stack[i].todo
  BY <1>2, <1>4
<1>7. \A i \in 1 .. Len(stack) :
        /\ Lasting(stack'[i].todo) /\ Shape(stack'[i].kind, stack'[i].todo)
        /\ stack'[i].kind = "main" <=> i = 1
        /\ stack'[i].kind = "trap" => i = 2
  BY <1>1, <1>6 DEF StackInv
<1>8. IrqLevels' = IrqLevels
  BY <1>4, <1>6 DEF IrqLevels
<1> QED
  BY <1>4, <1>5, <1>6, <1>7, <1>8 DEF StackInv

\* The processor enters a handler.
LEMMA PushStack ==
  ASSUME StackInv, iflag \in BOOLEAN,
         NEW kind \in {"irq", "exception", "trap"}, kind = "trap" => depth = 1,
         NEW t \in Seq(Operation), Lasting(t), Shape(kind, t), Enter(kind, t)
  PROVE  /\ StackInv' /\ Len(stack') = Len(stack) + 1
         /\ \A i \in 1 .. Len(stack) : stack'[i] = stack[i]
         /\ stack'[Len(stack) + 1] = Context(kind, t, iflag)
         /\ IrqLevels' = IF kind = "irq" THEN IrqLevels \cup {Len(stack) + 1} ELSE IrqLevels
<1> DEFINE c == Context(kind, t, iflag)
<1>1. stack \in Seq(ContextType) /\ depth \in Nat /\ depth >= 1 /\ depth = Len(stack)
  BY TopFacts DEF StackInv
<1>2. c \in ContextType /\ c.kind = kind /\ c.todo = t
  BY DEF ContextType, Context
<1>3. stack' = Append(stack, c)
  BY DEF Enter
<1> HIDE DEF c
<1>4. /\ stack' \in Seq(ContextType) /\ stack' # << >> /\ Len(stack') = Len(stack) + 1
      /\ \A i \in 1 .. Len(stack) : stack'[i] = stack[i]
      /\ stack'[Len(stack) + 1] = c
  BY <1>1, <1>2, <1>3, AppendProperties
<1>5. \A i \in 1 .. Len(stack) + 1 :
        /\ Lasting(stack'[i].todo) /\ Shape(stack'[i].kind, stack'[i].todo)
        /\ stack'[i].kind = "main" <=> i = 1
        /\ stack'[i].kind = "trap" => i = 2
  <2> SUFFICES ASSUME NEW i \in 1 .. Len(stack) + 1
               PROVE  /\ Lasting(stack'[i].todo) /\ Shape(stack'[i].kind, stack'[i].todo)
                      /\ stack'[i].kind = "main" <=> i = 1
                      /\ stack'[i].kind = "trap" => i = 2
    OBVIOUS
  <2>1. CASE i \in 1 .. Len(stack)
    BY <2>1, <1>4 DEF StackInv
  <2>2. CASE i = Len(stack) + 1
    <3>1. stack'[i] = c /\ i # 1 /\ (kind = "trap" => i = 2)
      BY <1>1, <1>4, <2>2
    <3> QED
      BY <1>2, <3>1
  <2> QED
    BY <2>1, <2>2, <1>1
<1>6. IrqLevels' = IF kind = "irq" THEN IrqLevels \cup {Len(stack) + 1} ELSE IrqLevels
  BY <1>1, <1>2, <1>4 DEF IrqLevels
<1>7. StackInv'
  BY <1>4, <1>5 DEF StackInv
<1> QED
  BY <1>4, <1>6, <1>7 DEF c

\* A handler returns: only those of interrupts and traps do.
LEMMA PopStack ==
  ASSUME StackInv, Return
  PROVE  /\ StackInv' /\ Len(stack') = Len(stack) - 1 /\ Len(stack) > 1
         /\ \A i \in 1 .. Len(stack) - 1 : stack'[i] = stack[i]
         /\ IrqLevels' = IrqLevels \ {Len(stack)}
         /\ iflag' \in BOOLEAN
         /\ Top.kind \in {"irq", "trap"}
         /\ Top.kind = "irq" => Len(Top.todo) = 1
         /\ Top.kind = "trap" => depth = 2 /\ stack[1].kind = "main"
<1>1. /\ stack \in Seq(ContextType) /\ depth \in Nat /\ depth >= 1 /\ depth = Len(stack)
      /\ Top \in ContextType /\ Top = stack[depth] /\ Shape(Top.kind, Top.todo)
      /\ Top.todo \in Seq(Operation) /\ Top.todo # << >> /\ Op = Top.todo[1]
      /\ Len(Top.todo) \in Nat /\ Len(Top.todo) >= 1
      /\ depth \in 1 .. Len(stack)
  BY TopFacts DEF StackInv
<1>2. Op.op = "iretq" /\ stack' = SubSeq(stack, 1, depth - 1) /\ iflag' = Top.flag
  BY DEF Return
<1>3. Top.kind \in {"irq", "trap"}
  <2>1. 1 \in 1 .. Len(Top.todo)
    BY <1>1
  <2>2. Top.kind = "main" => Op \in MainOps
    BY <1>1, <2>1, ElementOfSeq DEF Shape
  <2>3. Top.kind = "exception" => Op \in Quiet
    BY <1>1, <2>1, ElementOfSeq DEF Shape
  <2> QED
    BY <1>1, <1>2, <2>2, <2>3 DEF ContextType, MainOps, Quiet
<1>4. depth > 1 /\ (Top.kind = "trap" => depth = 2 /\ stack[1].kind = "main")
  <2>1. depth # 1
    BY <1>1, <1>3 DEF StackInv
  <2> QED
    BY <1>1, <2>1 DEF StackInv
<1>5. Top.kind = "irq" => Len(Top.todo) = 1
  <2> SUFFICES ASSUME Top.kind = "irq"
               PROVE  Len(Top.todo) = 1
    OBVIOUS
  <2>1. 1 \in 1 .. Len(Top.todo)
    BY <1>1
  <2>2. Top.todo[1].op = "iretq" <=> 1 = Len(Top.todo)
    BY <1>1, <2>1 DEF Shape
  <2> QED
    BY <1>1, <1>2, <2>2
<1>6. /\ stack' \in Seq(ContextType) /\ Len(stack') = depth - 1
      /\ \A i \in 1 .. depth - 1 : stack'[i] = stack[i]
  <2>1. \A i \in 1 .. depth - 1 : stack[i] \in ContextType
    BY <1>1, ElementOfSeq
  <2>2. /\ SubSeq(stack, 1, depth - 1) \in Seq(ContextType)
        /\ Len(SubSeq(stack, 1, depth - 1)) = IF 1 <= depth - 1 THEN (depth - 1) - 1 + 1 ELSE 0
        /\ \A i \in 1 .. (depth - 1) - 1 + 1 :
             SubSeq(stack, 1, depth - 1)[i] = stack[1 + i - 1]
    BY <1>1, <2>1, SubSeqProperties
  <2>3. (depth - 1) - 1 + 1 = depth - 1 /\ 1 <= depth - 1
    BY <1>1, <1>4
  <2>4. \A i \in 1 .. depth - 1 : 1 + i - 1 = i
    BY <1>1
  <2> QED
    BY <1>2, <2>2, <2>3, <2>4
<1>7. stack' # << >>
  BY <1>1, <1>4, <1>6
<1>8. \A i \in 1 .. depth - 1 : i \in 1 .. Len(stack)
  BY <1>1
<1>9. StackInv'
  BY <1>6, <1>7, <1>8 DEF StackInv
<1>10. IrqLevels' = IrqLevels \ {Len(stack)}
  BY <1>1, <1>6 DEF IrqLevels
<1>11. iflag' \in BOOLEAN
  BY <1>1, <1>2 DEF ContextType
<1> QED
  BY <1>1, <1>3, <1>4, <1>5, <1>6, <1>9, <1>10, <1>11

----------------------------------------------------------------------------
(* What is in service follows what the handler has still to do.            *)

\* An operation other than the end of interrupt is worked off.
LEMMA ServicedTail ==
  ASSUME NEW s \in Seq(Operation), NEW lines, Lasting(s), Shape("irq", s),
         Len(s) > 1, Head(s).op # "eoi", Serviced(s, lines)
  PROVE  Len(s) > 2 /\ Serviced(Tail(s), lines)
<1>1. Len(s) \in Nat /\ Head(s) = s[1] /\ s # << >>
  BY LenProperties DEF Lasting
<1>2. Len(s) > 2
  <2>1. 1 \in 1 .. Len(s)
    BY <1>1
  <2>2. s[1].op = "eoi" <=> 1 = Len(s) - 1
    BY <2>1 DEF Shape
  <2>3. Len(s) # 2
    <3> SUFFICES ASSUME Len(s) = 2
                 PROVE  FALSE
      OBVIOUS
    <3>1. s[1].op = "eoi"
      BY <2>2
    <3> QED
      BY <1>1, <3>1
  <2> DEFINE n == Len(s)
  <2>4. n \in Nat /\ n > 1 /\ n # 2
    BY <1>1, <2>3
  <2> HIDE DEF n
  <2>5. n > 2
    BY <2>4
  <2> QED
    BY <2>5 DEF n
<1>3. Len(Tail(s)) = Len(s) - 1 /\ \A i \in 1 .. Len(s) - 1 : Tail(s)[i] = s[i + 1]
  BY <1>1, HeadTailProperties
<1>4. /\ (Len(s) - 1) - 1 \in 1 .. Len(s) - 1
      /\ ((Len(s) - 1) - 1) + 1 = Len(s) - 1
  BY <1>1, <1>2
<1>5. Tail(s)[Len(Tail(s)) - 1] = s[Len(s) - 1]
  BY <1>3, <1>4
<1> QED
  BY <1>1, <1>2, <1>3, <1>5 DEF Serviced

\* Operations are put in front.
LEMMA ServicedPrefix ==
  ASSUME NEW w \in Seq(Operation), NEW s \in Seq(Operation), NEW lines,
         Len(s) > 1, Serviced(s, lines)
  PROVE  Serviced(w \o s, lines)
<1>1. Len(s) \in Nat /\ Len(w) \in Nat
  BY LenProperties
<1>2. /\ Len(w \o s) = Len(w) + Len(s)
      /\ \A i \in 1 .. Len(w) + Len(s) :
           (w \o s)[i] = IF i <= Len(w) THEN w[i] ELSE s[i - Len(w)]
  BY ConcatProperties
<1>3. /\ Len(w) + Len(s) - 1 \in 1 .. Len(w) + Len(s)
      /\ ~ (Len(w) + Len(s) - 1 <= Len(w))
      /\ (Len(w) + Len(s) - 1) - Len(w) = Len(s) - 1
      /\ Len(w) + Len(s) # 1
  BY <1>1
<1>4. (w \o s)[Len(w \o s) - 1] = s[Len(s) - 1]
  BY <1>2, <1>3
<1> QED
  BY SMTT(30), <1>1, <1>2, <1>3, <1>4 DEF Serviced

\* The end of interrupt, sent by the handler of a line, leaves nothing in
\* service on either chip.
LEMMA EoiDrains ==
  ASSUME NEW irq \in 0 .. 15, isr \in InService(irq)
  PROVE  send_eoi(irq) = {}
<1>1. \A x \in Int : Min({x}) = x
  BY DEF Min
<1>2. CASE irq \in Slave
  <2>1. irq >= 8 /\ irq \in Int /\ irq \notin Master /\ 2 \in Master /\ 2 \notin Slave
        /\ irq # 2
    BY <1>2 DEF Slave, Master
  <2>2. isr = {2, irq} \/ isr = {2}
    BY <1>2 DEF InService
  <2>3. AfterEoi(Slave, isr) = {2}
    <3>1. CASE isr = {2, irq}
      <4>1. isr \cap Slave = {irq}
        BY <1>2, <2>1, <3>1
      <4>2. Min(isr \cap Slave) = irq
        BY <1>1, <2>1, <4>1
      <4>3. isr \ {irq} = {2}
        BY <2>1, <3>1
      <4> QED
        BY <4>1, <4>2, <4>3 DEF AfterEoi
    <3>2. CASE isr = {2}
      BY <2>1, <3>2 DEF AfterEoi
    <3> QED
      BY <2>2, <3>1, <3>2
  <2>4. {2} \cap Master = {2} /\ Min({2}) = 2
    BY <1>1, <2>1
  <2>5. AfterEoi(Master, {2}) = {}
    BY <2>4 DEF AfterEoi
  <2> QED
    BY <2>1, <2>3, <2>5 DEF send_eoi
<1>3. CASE irq \notin Slave
  <2>1. ~ (irq >= 8) /\ irq \in Int /\ irq \in Master
    BY <1>3 DEF Slave, Master
  <2>2. isr = {irq} \/ isr = {}
    BY <1>3 DEF InService
  <2>3. AfterEoi(Master, isr) = {}
    <3>1. CASE isr = {irq}
      <4>1. isr \cap Master = {irq} /\ Min({irq}) = irq
        BY <1>1, <2>1, <3>1
      <4> QED
        BY <3>1, <4>1 DEF AfterEoi
    <3>2. CASE isr = {}
      BY <3>2 DEF AfterEoi
    <3> QED
      BY <2>2, <3>1, <3>2
  <2> QED
    BY <2>1, <2>3 DEF send_eoi
<1> QED
  BY <1>2, <1>3

\* The context on top goes on, and what is in service goes with it.
LEMMA ContinuePic ==
  ASSUME PicInv, NEW t \in Seq(Operation), Lasting(t), Shape(Top.kind, t), Continue(t),
         iflag' \in BOOLEAN, iflag' => iflag \/ Top.kind = "main", irr' = irr,
         Top.kind # "irq" => isr' = isr,
         Top.kind = "irq" => Serviced(t, isr')
  PROVE  PicInv'
<1>1. /\ StackInv' /\ Len(stack') = Len(stack) /\ IrqLevels' = IrqLevels
      /\ \A i \in 1 .. Len(stack) :
           stack'[i].todo = IF i = depth THEN t ELSE stack[i].todo
  BY ContinueStack DEF PicInv
<1>2. depth \in 1 .. Len(stack) /\ Top = stack[depth] /\ depth = Len(stack)
        /\ depth \in Nat /\ depth >= 1
  BY TopFacts DEF PicInv
<1>3. IrqLevels \subseteq 1 .. Len(stack)
  BY DEF IrqLevels
<1>4. Top.kind = "main" => IrqLevels = {}
  <2>1. Top.kind = "main" => depth = 1
    BY <1>2 DEF PicInv, StackInv
  <2> QED
    BY <1>2, <2>1 DEF IrqLevels
<1>5. ASSUME NEW i \in IrqLevels
      PROVE  ~ iflag' /\ Serviced(stack'[i].todo, isr')
  <2>1. ~ iflag'
    BY <1>4, <1>5 DEF PicInv
  <2>2. CASE i = depth
    <3>1. Top.kind = "irq"
      BY <1>2, <1>5, <2>2 DEF IrqLevels
    <3> QED
      BY <1>1, <1>2, <2>1, <2>2, <3>1
  <2>3. CASE i # depth
    <3>1. Top.kind # "irq"
      BY <1>2, <1>5, <2>3 DEF IrqLevels, PicInv
    <3> QED
      BY <1>1, <1>3, <1>5, <2>1, <2>3, <3>1 DEF PicInv
  <2> QED
    BY <2>2, <2>3
<1>6. IrqLevels = {} => isr' = {}
  <2>1. IrqLevels = {} => Top.kind # "irq"
    BY <1>2 DEF IrqLevels
  <2> QED
    BY <2>1 DEF PicInv
<1>7. irr' \in SUBSET (0 .. 15)
  BY DEF PicInv
<1>8. \A i, j \in IrqLevels : i = j
  BY DEF PicInv
<1> QED
  BY <1>1, <1>5, <1>6, <1>7, <1>8 DEF PicInv

\* A step that works off the first operation.
LEMMA TailPic ==
  ASSUME PicInv, Op.op \notin {"draw", "hlt", "iretq", "eoi"},
         Continue(Tail(Top.todo)), iflag' \in BOOLEAN,
         iflag' => iflag \/ Top.kind = "main", irr' = irr, isr' = isr
  PROVE  PicInv'
<1>1. /\ Top.todo \in Seq(Operation) /\ Lasting(Top.todo) /\ Shape(Top.kind, Top.todo)
      /\ Op = Head(Top.todo) /\ depth \in 1 .. Len(stack) /\ Top = stack[depth]
  BY TopFacts DEF PicInv
<1> DEFINE t == Tail(Top.todo)
<1>2. /\ t \in Seq(Operation) /\ Lasting(t) /\ Shape(Top.kind, t)
      /\ Len(Top.todo) > 1
  BY <1>1, TailKeepsShape
<1>3. Top.kind = "irq" => Serviced(Top.todo, isr)
  BY <1>1 DEF PicInv, IrqLevels
<1>4. Top.kind = "irq" => Serviced(t, isr')
  BY <1>1, <1>2, <1>3, ServicedTail
<1> HIDE DEF t
<1>5. Continue(t)
  BY DEF t
<1> QED
  BY <1>2, <1>4, <1>5, ContinuePic

\* A step that puts quiet operations in the place of the first one.
LEMMA PrefixPic ==
  ASSUME PicInv, Op.op \notin {"draw", "hlt", "iretq", "eoi"}, NEW w \in Seq(Quiet),
         Continue(w \o Tail(Top.todo)), iflag' = iflag, irr' = irr, isr' = isr
  PROVE  PicInv'
<1>1. /\ Top.todo \in Seq(Operation) /\ Lasting(Top.todo) /\ Shape(Top.kind, Top.todo)
      /\ Op = Head(Top.todo) /\ Op = Top.todo[1] /\ Top \in ContextType
      /\ depth \in 1 .. Len(stack) /\ Top = stack[depth]
  BY TopFacts DEF PicInv
<1> DEFINE r == Tail(Top.todo)
           t == w \o r
<1>2. /\ r \in Seq(Operation) /\ Lasting(r) /\ Shape(Top.kind, r)
      /\ Len(Top.todo) > 1 /\ Len(r) = Len(Top.todo) - 1 /\ Len(Top.todo) \in Nat
  BY <1>1, TailKeepsShape, LenProperties
<1>3. Top.kind = "irq" => Len(r) > 1 /\ Serviced(r, isr)
  <2>1. Top.kind = "irq" => Serviced(Top.todo, isr)
    BY <1>1 DEF PicInv, IrqLevels
  <2> QED
    BY <1>1, <1>2, <2>1, ServicedTail
<1>4. Top.kind \in {"main", "irq", "exception"}
  <2>1. 1 \in 1 .. Len(Top.todo)
    BY <1>2
  <2>2. Top.kind = "trap" => Top.todo[1].op = "iretq"
    BY <1>1, <2>1 DEF Shape
  <2> QED
    BY <1>1, <2>2 DEF ContextType
<1> HIDE DEF r
<1>5. t \in Seq(Operation) /\ Lasting(t) /\ Shape(Top.kind, t)
  BY <1>2, <1>3, <1>4, PrefixKeepsShape
<1>6. Top.kind = "irq" => Serviced(t, isr')
  <2>1. w \in Seq(Operation)
    BY SeqMonotonic DEF Quiet
  <2> QED
    BY <1>2, <1>3, <2>1, ServicedPrefix
<1>7. Continue(t)
  BY DEF r
<1> HIDE DEF t
<1>8. iflag' \in BOOLEAN /\ (iflag' => iflag \/ Top.kind = "main")
  BY DEF PicInv
<1> QED
  BY <1>5, <1>6, <1>7, <1>8, ContinuePic

\* A call.  Only the drawing loop, which is last, calls itself again.
LEMMA CallPic ==
  ASSUME PicInv, CallStep
  PROVE  PicInv'
<1>1. PICK way \in Ways(Op.op) : Continue(way \o Tail(Top.todo))
  BY DEF CallStep
<1>2. iflag' = iflag /\ irr' = irr /\ isr' = isr
  BY DEF CallStep
<1>3. /\ way \in Seq(Quiet)
      /\ Op.op \in {"alloc", "serial_init", "heap_frames", "keyboard", "draw"}
      /\ Op.op = "draw" => Lasting(way)
  BY WaysQuiet
<1>4. CASE Op.op # "draw"
  BY <1>1, <1>2, <1>3, <1>4, PrefixPic
<1>5. CASE Op.op = "draw"
  <2>1. /\ Top.todo \in Seq(Operation) /\ Lasting(Top.todo) /\ Shape(Top.kind, Top.todo)
        /\ Op = Head(Top.todo) /\ Op = Top.todo[1] /\ Top.todo # << >>
        /\ Top \in ContextType /\ depth \in 1 .. Len(stack) /\ Top = stack[depth]
        /\ Len(Top.todo) \in Nat /\ Len(Top.todo) >= 1
    BY TopFacts DEF PicInv
  <2>2. 1 \in 1 .. Len(Top.todo)
    BY <2>1
  <2>3. Top.kind \in {"main", "irq", "exception"}
    <3>1. Top.kind = "trap" => Top.todo[1].op = "iretq"
      BY <2>1, <2>2 DEF Shape
    <3> QED
      BY <2>1, <3>1, <1>5 DEF ContextType
  <2> DEFINE r == Tail(Top.todo)
             t == way \o r
             n == Len(Top.todo)
  <2>4. Top.kind = "irq" => n > 2 /\ Serviced(r, isr)
    <3> SUFFICES ASSUME Top.kind = "irq"
                 PROVE  n > 2 /\ Serviced(r, isr)
      OBVIOUS
    <3>1. Top.todo[1].op = "iretq" <=> 1 = Len(Top.todo)
      BY <2>1, <2>2 DEF Shape
    <3>2. n # 1
      BY <1>5, <2>1, <3>1
    <3>3. Len(Top.todo) > 1
      <4> HIDE DEF n
      <4>1. n \in Nat /\ n >= 1
        BY <2>1 DEF n
      <4>2. n > 1
        BY <3>2, <4>1
      <4> QED
        BY <4>2 DEF n
    <3>4. Serviced(Top.todo, isr)
      BY <2>1 DEF PicInv, IrqLevels
    <3> QED
      BY <1>5, <2>1, <3>3, <3>4, ServicedTail
  <2>5. /\ t \in Seq(Operation) /\ Lasting(t) /\ Shape(Top.kind, t)
        /\ Top.kind = "irq" => Serviced(t, isr')
    <3>1. CASE n > 1
      <4>1. /\ r \in Seq(Operation) /\ Lasting(r) /\ Shape(Top.kind, r)
            /\ Len(r) = n - 1
        BY <2>1, <3>1, TailKeepsShape
      <4>2. Top.kind = "irq" => Len(r) > 1
        <5> HIDE DEF r
        <5>1. n \in Nat
          BY <2>1
        <5> HIDE DEF n
        <5> QED
          BY <2>4, <4>1, <5>1
      <4> HIDE DEF r, n
      <4>3. t \in Seq(Operation) /\ Lasting(t) /\ Shape(Top.kind, t)
        BY <1>3, <2>3, <4>1, <4>2, PrefixKeepsShape
      <4>4. way \in Seq(Operation)
        BY <1>3, SeqMonotonic DEF Quiet
      <4> QED
        BY <1>2, <2>4, <4>1, <4>2, <4>3, <4>4, ServicedPrefix
    <3>2. CASE n = 1
      <4>1. r = << >>
        <5>1. r \in Seq(Operation) /\ Len(r) = n - 1
          BY <2>1, HeadTailProperties
        <5>2. Len(r) = 0
          BY <3>2, <5>1
        <5> QED
          BY <5>1, <5>2, EmptySeq
      <4>2. Top.kind # "irq"
        BY <2>4, <3>2
      <4> HIDE DEF r, n
      <4>3. t = way
        BY <1>3, <4>1, ConcatEmptySeq
      <4>4. way \in Seq(Operation) /\ way \in Seq(MainOps)
        BY <1>3, SeqMonotonic DEF Quiet, MainOps
      <4>5. Shape(Top.kind, way)
        BY <1>3, <2>3, <4>2, <4>4 DEF Shape
      <4> QED
        BY <1>3, <1>5, <4>2, <4>3, <4>4, <4>5
    <3>3. n = 1 \/ n > 1
      <4>1. n \in Nat /\ n >= 1
        BY <2>1
      <4> HIDE DEF n
      <4> QED
        BY <4>1
    <3> QED
      BY <3>1, <3>2, <3>3
  <2>6. Continue(t)
    BY <1>1
  <2> HIDE DEF t
  <2>7. iflag' \in BOOLEAN /\ (iflag' => iflag \/ Top.kind = "main")
    BY <1>2 DEF PicInv
  <2> QED
    BY <1>2, <2>5, <2>6, <2>7, ContinuePic
<1> QED
  BY <1>4, <1>5

----------------------------------------------------------------------------
(* What the processor begins with, and what handlers do.                   *)

\* A list that ends in one of the three.
LEMMA LastingAppend ==
  ASSUME NEW u \in Seq(Operation), NEW x \in Operation,
         x.op \in {"draw", "hlt", "iretq"}
  PROVE  u \o <<x>> \in Seq(Operation) /\ Lasting(u \o <<x>>)
<1>1. <<x>> \in Seq(Operation) /\ Len(<<x>>) = 1 /\ <<x>>[1] = x
  OBVIOUS
<1>2. /\ Len(u) \in Nat /\ Len(u \o <<x>>) = Len(u) + 1
      /\ (u \o <<x>>)[Len(u) + 1] = x
      /\ u \o <<x>> \in Seq(Operation)
  BY <1>1, ConcatProperties, LenProperties
<1>3. u \o <<x>> # << >>
  BY <1>2
<1> QED
  BY <1>2, <1>3 DEF Lasting

\* The boot sequence takes every lock free and ends with SCREEN locked.
LEMMA BootPiece == Piece(MainOps, Boot, {}, {"SCREEN"}) /\ Lasting(Boot)
<1> DEFINE S == MainOps
           T == {"SCREEN"}
           E == {"HEAP_END"}
           I == {"HEAP_END", "INNER"}
<1>0. /\ S \in Sorts /\ {} \in SUBSET Locks /\ T \in SUBSET Locks
      /\ E \in SUBSET Locks /\ I \in SUBSET Locks
      /\ "SERIAL" \in Locks /\ "MEMORY_STATS" \in Locks
      /\ "FRAME_ALLOCATOR" \in Locks /\ "HEAP_END" \in Locks
      /\ "INNER" \in Locks /\ "SCREEN" \in Locks
      /\ {} \cup T = T /\ {} \cup E = E /\ E \cup {"INNER"} = I
  BY DEF Sorts, Locks
<1>1. /\ \A op \in {"lidt", "sti", "heap_init"} : Needs([op |-> op, arg |-> 0]) = {}
      /\ Needs([op |-> "serial_init", arg |-> 0]) = {"SERIAL"}
      /\ Needs([op |-> "heap_frames", arg |-> 0]) = {"FRAME_ALLOCATOR", "SERIAL"}
      /\ Needs([op |-> "alloc", arg |-> 0]) = AllocLocks
      /\ Needs([op |-> "draw", arg |-> 0]) = AllocLocks
  BY DEF Needs
<1>2. /\ Piece(S, Do("lidt"), {}, {}) /\ Piece(S, Do("sti"), {}, {})
      /\ Piece(S, Do("serial_init"), {}, {}) /\ Piece(S, Do("alloc"), {}, {})
      /\ Piece(S, Do("heap_frames"), E, E) /\ Piece(S, Do("heap_init"), I, I)
      /\ Piece(S, Do("alloc"), T, T) /\ Piece(S, Do("draw"), T, T)
  BY <1>0, <1>1, DoPiece DEF Ops, AllocLocks
<1>3. \A H \in SUBSET Locks : "SERIAL" \notin H => Piece(S, Log, H, H)
  BY <1>0, LogPiece
<1>4. /\ Piece(S, Log, {}, {}) /\ Piece(S, Log, T, T) /\ Piece(S, Log, E, E)
      /\ Piece(S, Log, {"MEMORY_STATS"}, {"MEMORY_STATS"})
      /\ Piece(S, Log, {"FRAME_ALLOCATOR"}, {"FRAME_ALLOCATOR"})
  BY <1>0, <1>3
<1> HIDE DEF S
<1>5. \A l \in Locks : \A ops :
         Piece(S, ops, {l}, {l}) => Piece(S, Within(l, ops), {}, {})
  <2> SUFFICES ASSUME NEW l \in Locks, NEW ops, Piece(S, ops, {l}, {l})
               PROVE  Piece(S, Within(l, ops), {}, {})
    OBVIOUS
  <2>1. {} \cup {l} = {l} /\ l \notin {}
    OBVIOUS
  <2> QED
    BY <1>0, <2>1, WithinPiece
<1>6. Piece(S, arch_init, {}, {})
  <2>1. Piece(S, idt_init, {}, {})
    BY <1>2, <1>4, PieceConcat DEF idt_init
  <2> QED
    BY <1>2, <1>4, <2>1, PieceConcat DEF arch_init
<1>7. Piece(S, mem_init, {}, {})
  <2> DEFINE m == Within("MEMORY_STATS", Log)
             f == Within("FRAME_ALLOCATOR", Log)
             i == Within("INNER", Do("heap_init"))
             h == Within("HEAP_END", Do("heap_frames") \o i \o Log)
             e == Within("HEAP_END", << >>)
  <2>1. Piece(S, m, {}, {}) /\ Piece(S, f, {}, {})
    BY <1>0, <1>4, <1>5
  <2>2. Piece(S, e, {}, {})
    BY <1>0, <1>5, EmptyPiece
  <2>3. Piece(S, i, E, E)
    <3>1. "INNER" \notin E
      OBVIOUS
    <3> QED
      BY <1>0, <1>2, <3>1, WithinPiece
  <2>4. Piece(S, Do("heap_frames") \o i \o Log, E, E)
    <3> HIDE DEF i
    <3> QED
      BY <1>2, <1>4, <2>3, PieceConcat
  <2>5. Piece(S, h, {}, {})
    BY <1>0, <1>5, <2>4
  <2>6. Piece(S, Log \o m \o m \o f \o h \o e \o Log, {}, {})
    <3> HIDE DEF m, f, h, e
    <3> QED
      BY <1>4, <2>1, <2>2, <2>5, PieceConcat
  <2> QED
    BY <2>6 DEF mem_init
<1>8. Piece(S, drivers_init, {}, {}) /\ Piece(S, create_process, {}, {})
  <2>1. Piece(S, Do("alloc") \o Log, T, T)
    BY <1>2, <1>4, PieceConcat
  <2>2. Piece(S, screen_init, {}, {})
    BY <1>0, <1>5, <2>1 DEF screen_init
  <2> QED
    BY <1>2, <1>4, <2>2, PieceConcat DEF drivers_init, create_process
<1>9. Piece(S, Lock("SCREEN"), {}, T)
  <2>1. "SCREEN" \notin {}
    OBVIOUS
  <2> QED
    BY <1>0, <2>1, LockPiece
<1> DEFINE u == Log \o arch_init \o Log \o mem_init \o drivers_init \o Log
                  \o create_process \o Log \o Lock("SCREEN")
<1>10. Piece(S, u, {}, T)
  <2> DEFINE v == Log \o arch_init \o Log \o mem_init \o drivers_init
  <2>1. Piece(S, v, {}, {})
    BY <1>4, <1>6, <1>7, <1>8, PieceConcat
  <2> HIDE DEF v
  <2>2. Piece(S, v \o Log \o create_process \o Log \o Lock("SCREEN"), {}, T)
    BY <1>4, <1>8, <1>9, <2>1, PieceConcat
  <2> QED
    BY <2>2 DEF v
<1>11. Boot = u \o Do("draw")
  BY DEF Boot
<1> HIDE DEF u
<1>12. Piece(S, Boot, {}, T)
  BY <1>2, <1>10, <1>11, PieceConcat
<1>13. Lasting(Boot)
  <2>1. u \in Seq(Operation)
    BY <1>10, SeqMonotonic DEF Piece, S, MainOps
  <2>2. [op |-> "draw", arg |-> 0] \in Operation
    BY DEF Operation, Ops
  <2> QED
    BY <1>11, <2>1, <2>2, LastingAppend DEF Do
<1> QED
  BY <1>12, <1>13 DEF S

\* An interrupt handler ends its interrupt and returns; it takes locks that
\* are its own, and holds none when it returns.
LEMMA HandlerFacts ==
  ASSUME NEW irq \in 0 .. 15, NEW lines \in InService(irq)
  PROVE  LET t == irq_common_handler(irq)
         IN  /\ t \in Seq(Operation) /\ Lasting(t) /\ Shape("irq", t)
             /\ Serviced(t, lines) /\ Safe(t, {}, {})
<1> DEFINE c == CASE irq = 0 -> Do("tick") [] irq = 1 -> Do("keyboard") [] OTHER -> Log
           e == [op |-> "eoi", arg |-> irq]
           r == [op |-> "iretq", arg |-> 0]
           a == <<e>> \o <<r>>
<1>1. Quiet \in Sorts /\ {} \in SUBSET Locks /\ "SERIAL" \notin {}
  BY DEF Sorts
<1>2. Piece(Quiet, c, {}, {})
  <2>1. Piece(Quiet, Do("tick"), {}, {}) /\ Piece(Quiet, Do("keyboard"), {}, {})
    BY <1>1, DoPiece DEF Ops
  <2> QED
    BY <1>1, <2>1, LogPiece
<1>3. e \in Operation /\ r \in Operation /\ e.op = "eoi" /\ r.op = "iretq" /\ e.arg = irq
  BY DEF Operation, Ops
<1> HIDE DEF e, r
<1>4. /\ <<e>> \in Seq(Operation) /\ <<r>> \in Seq(Operation) /\ a \in Seq(Operation)
      /\ Len(a) = 2 /\ a[1] = e /\ a[2] = r
  <2>1. /\ <<e>> \in Seq(Operation) /\ Len(<<e>>) = 1 /\ <<e>>[1] = e
        /\ <<r>> \in Seq(Operation) /\ Len(<<r>>) = 1 /\ <<r>>[1] = r
    BY <1>3
  <2> QED
    BY <2>1, ConcatProperties
<1>5. Lasting(a)
  <2>1. a # << >>
    BY <1>4
  <2> QED
    BY <1>3, <1>4, <2>1 DEF Lasting
<1>6. Shape("irq", a)
  <2>1. \A j \in 1 .. 2 : j = 1 \/ j = 2
    OBVIOUS
  <2>2. 2 - 1 = 1
    OBVIOUS
  <2> HIDE DEF a
  <2>3. ASSUME NEW j \in 1 .. 2
        PROVE  /\ a[j].op = "iretq" <=> j = 2
               /\ a[j].op = "eoi" <=> j = 1
               /\ a[j].op # "sti"
    <3>1. CASE j = 1
      BY <1>3, <1>4, <3>1
    <3>2. CASE j = 2
      BY <1>3, <1>4, <3>2
    <3> QED
      BY <2>1, <3>1, <3>2
  <2> QED
    BY <1>4, <2>2, <2>3 DEF Shape
<1>7. Serviced(a, lines)
  <2>1. 2 - 1 = 1 /\ 2 # 1
    OBVIOUS
  <2> HIDE DEF a
  <2> QED
    BY <1>3, <1>4, <2>1 DEF Serviced
<1>8. c \in Seq(Quiet) /\ c \in Seq(Operation) /\ Safe(c, {}, {})
  BY <1>2, SeqMonotonic DEF Piece, Quiet
<1> DEFINE t == irq_common_handler(irq)
<1>9. t = c \o a
  <2>1. t = (c \o <<e>>) \o <<r>>
    BY DEF irq_common_handler, Do, e, r
  <2> HIDE DEF c, t
  <2>2. (c \o <<e>>) \o <<r>> = c \o (<<e>> \o <<r>>)
    BY <1>4, <1>8, ConcatAssociative
  <2> QED
    BY <1>4, <2>1, <2>2
<1>10. Safe(a, {}, {})
  <2>1. Needs(e) = {} /\ Needs(r) = Locks
    BY <1>3 DEF Needs
  <2>2. Judged(e, {}, {}) /\ Judged(r, {}, {})
    BY <1>3, <2>1 DEF Judged
  <2>3. Safe(<<e>>, {}, {}) /\ Safe(<<r>>, {}, {})
    BY <1>1, <2>2, SafeOne
  <2> QED
    BY <1>4, <2>3, SafeConcat
<1> HIDE DEF a, c, t
<1>11. Safe(t, {}, {})
  BY <1>4, <1>8, <1>9, <1>10, SafeConcat
<1>12. t \in Seq(Operation) /\ Lasting(t) /\ Shape("irq", t)
  <2>1. Len(a) > 1 /\ "irq" \in {"main", "irq", "exception"}
    BY <1>4
  <2> QED
    BY <1>4, <1>5, <1>6, <1>8, <1>9, <2>1, PrefixKeepsShape
<1>13. Serviced(t, lines)
  <2>1. Len(a) > 1
    BY <1>4
  <2> QED
    BY <1>4, <1>7, <1>8, <1>9, <2>1, ServicedPrefix
<1> QED
  BY <1>11, <1>12, <1>13 DEF t

\* The handlers of exceptions and of the system call.
LEMMA OtherHandlers ==
  /\ Report \o Halt \in Seq(Operation) /\ Lasting(Report \o Halt)
  /\ Shape("exception", Report \o Halt) /\ Safe(Report \o Halt, {}, {})
  /\ Do("iretq") \in Seq(Operation) /\ Lasting(Do("iretq"))
  /\ Shape("trap", Do("iretq")) /\ Safe(Do("iretq"), {}, {})
<1> DEFINE u == Log \o Do("cli")
           r == [op |-> "iretq", arg |-> 0]
           h == [op |-> "hlt", arg |-> 0]
<1>1. Quiet \in Sorts /\ {} \in SUBSET Locks /\ "SERIAL" \notin {}
  BY DEF Sorts
<1>2. Piece(Quiet, Log, {}, {}) /\ Piece(Quiet, Do("cli"), {}, {})
        /\ Piece(Quiet, Do("hlt"), {}, {})
  BY <1>1, LogPiece, DoPiece DEF Ops
<1>3. Piece(Quiet, u, {}, {})
  BY <1>2, PieceConcat
<1>4. Report \o Halt = Log \o (u \o Do("hlt"))
  BY DEF Report, Halt
<1> HIDE DEF u
<1>5. Piece(Quiet, Log \o (u \o Do("hlt")), {}, {})
  BY <1>2, <1>3, PieceConcat
<1>6. Log \o (u \o Do("hlt")) = (Log \o u) \o Do("hlt")
  BY <1>2, <1>3, ConcatAssociative DEF Piece
<1>7. /\ Log \o u \in Seq(Operation)
      /\ Log \o (u \o Do("hlt")) \in Seq(Operation)
  <2>1. Log \o u \in Seq(Quiet)
    BY <1>2, <1>3, ConcatProperties DEF Piece
  <2> QED
    BY <1>5, <2>1, SeqMonotonic DEF Piece, Quiet
<1>8. r \in Operation /\ h \in Operation /\ r.op = "iretq" /\ h.op = "hlt"
  BY DEF Operation, Ops
<1>9. Lasting((Log \o u) \o Do("hlt"))
  BY <1>7, <1>8, LastingAppend DEF Do
<1>10. Shape("exception", Log \o (u \o Do("hlt")))
  BY <1>5 DEF Shape, Piece
<1>11. Do("iretq") = <<r>>
  BY DEF Do
<1> HIDE DEF r
<1>12. <<r>> \in Seq(Operation) /\ Len(<<r>>) = 1 /\ <<r>>[1] = r
  BY <1>8
<1>13. Lasting(<<r>>) /\ Shape("trap", <<r>>)
  <2>1. <<r>> # << >>
    BY <1>12
  <2> QED
    BY <1>8, <1>12, <2>1 DEF Lasting, Shape
<1>14. Safe(<<r>>, {}, {})
  <2>1. Needs(r) = Locks
    BY <1>8 DEF Needs
  <2>2. Judged(r, {}, {})
    BY <1>8, <2>1 DEF Judged
  <2> QED
    BY <1>1, <2>2, SafeOne
<1> QED
  BY <1>4, <1>5, <1>6, <1>7, <1>9, <1>10, <1>11, <1>12, <1>13, <1>14 DEF Piece

----------------------------------------------------------------------------
(* The invariant of the interrupt controllers.                             *)

\* The invariant holds at the start.
LEMMA InitPic == Init => PicInv
<1> SUFFICES ASSUME Init
             PROVE  PicInv
  OBVIOUS
<1> DEFINE c == Context("main", Boot, FALSE)
<1>1. Boot \in Seq(MainOps) /\ Boot \in Seq(Operation) /\ Lasting(Boot)
  BY BootPiece, SeqMonotonic DEF Piece, MainOps
<1>2. c \in ContextType /\ c.kind = "main" /\ c.todo = Boot
  BY <1>1 DEF ContextType, Context
<1>3. stack = <<c>>
  BY DEF Init
<1> HIDE DEF c
<1>4. stack \in Seq(ContextType) /\ stack # << >> /\ Len(stack) = 1 /\ stack[1] = c
  BY <1>2, <1>3
<1>5. Shape("main", Boot)
  BY <1>1 DEF Shape
<1>6. \A i \in 1 .. Len(stack) : i = 1
  BY <1>4
<1>7. StackInv
  BY <1>1, <1>2, <1>4, <1>5, <1>6 DEF StackInv
<1>8. IrqLevels = {}
  BY <1>2, <1>4, <1>6 DEF IrqLevels
<1> QED
  BY <1>7, <1>8 DEF PicInv, Init

\* An interrupt comes when none is served and nothing is in service; the
\* handler that is entered has what it will end.
LEMMA EnterIrq ==
  ASSUME PicInv, iflag, NEW irq \in 0 .. 15, isr' \in InService(irq),
         Enter("irq", irq_common_handler(irq)), irr' \in SUBSET (0 .. 15)
  PROVE  PicInv'
<1> DEFINE t == irq_common_handler(irq)
<1>1. /\ t \in Seq(Operation) /\ Lasting(t) /\ Shape("irq", t) /\ Serviced(t, isr')
  BY HandlerFacts
<1>2. IrqLevels = {}
  BY DEF PicInv
<1>3. iflag' = FALSE
  BY DEF Enter, ClearsIF
<1> HIDE DEF t
<1>4. Enter("irq", t)
  BY DEF t
<1>5. /\ StackInv' /\ Len(stack') = Len(stack) + 1
      /\ stack'[Len(stack) + 1] = Context("irq", t, iflag)
      /\ IrqLevels' = {Len(stack) + 1}
  BY <1>1, <1>2, <1>4, PushStack DEF PicInv
<1>6. Serviced(stack'[Len(stack) + 1].todo, isr')
  BY <1>1, <1>5 DEF Context
<1> QED
  BY <1>3, <1>5, <1>6 DEF PicInv

\* Lines on top of none in service.
LEMMA DeliverPic ==
  ASSUME PicInv, NEW irq \in Irqs, Deliver(irq)
  PROVE  PicInv'
<1>1. irq \in 0 .. 15
  BY InterruptAssumption
<1>2. isr = {}
  BY DEF PicInv, Deliver
<1>3. isr' = isr \cup {IF irq \in Slave THEN 2 ELSE irq, irq}
  BY DEF Deliver
<1>4. isr' \in InService(irq)
  <2>1. CASE irq \in Slave
    BY <1>2, <1>3, <2>1 DEF InService
  <2>2. CASE irq \notin Slave
    <3>1. isr' = {irq}
      BY <1>2, <1>3, <2>2
    <3> QED
      BY <2>2, <3>1 DEF InService
  <2> QED
    BY <2>1, <2>2
<1>5. iflag /\ Enter("irq", irq_common_handler(irq)) /\ irr' = irr \ {irq}
  BY DEF Deliver
<1>6. irr' \in SUBSET (0 .. 15)
  BY <1>5 DEF PicInv
<1> QED
  BY <1>1, <1>4, <1>5, <1>6, EnterIrq

\* A spurious interrupt puts nothing in service, or only the slave's line on
\* the master.
LEMMA SpuriousPic ==
  ASSUME PicInv, NEW irq \in Irqs, Spurious(irq)
  PROVE  PicInv'
<1>1. irq \in 0 .. 15 /\ irq \in {7, 15}
  BY InterruptAssumption DEF Spurious
<1>2. isr = {}
  BY DEF PicInv, Spurious
<1>3. isr' = IF irq = 15 THEN isr \cup {2} ELSE isr
  BY DEF Spurious
<1>4. 15 \in Slave /\ 7 \notin Slave
  BY DEF Slave
<1>5. isr' \in InService(irq)
  BY <1>1, <1>2, <1>3, <1>4 DEF InService
<1>6. iflag /\ Enter("irq", irq_common_handler(irq)) /\ irr' = irr
  BY DEF Spurious
<1>7. irr' \in SUBSET (0 .. 15)
  BY <1>6 DEF PicInv
<1> QED
  BY <1>1, <1>5, <1>6, <1>7, EnterIrq

\* Exceptions and system calls leave the controllers alone.
LEMMA OtherEntryPic ==
  ASSUME PicInv, Fault \/ Syscall
  PROVE  PicInv'
<1>1. PICK kind \in {"exception", "trap"}, t \in Seq(Operation) :
        /\ Enter(kind, t) /\ Lasting(t) /\ Shape(kind, t)
        /\ kind = "trap" => depth = 1
  <2>1. CASE Fault
    BY <2>1, OtherHandlers DEF Fault
  <2>2. CASE Syscall
    <3>1. Top.kind = "main"
      BY <2>2 DEF Syscall
    <3>2. depth = 1
      BY <3>1, TopFacts DEF PicInv, StackInv
    <3> QED
      BY <2>2, <3>2, OtherHandlers DEF Syscall
  <2> QED
    BY <2>1, <2>2
<1>2. irr' = irr /\ isr' = isr
  BY DEF Fault, Syscall
<1>3. /\ StackInv' /\ IrqLevels' = IrqLevels
      /\ \A i \in 1 .. Len(stack) : stack'[i] = stack[i]
  BY <1>1, PushStack DEF PicInv
<1>4. iflag' \in BOOLEAN /\ (iflag' => iflag)
  BY <1>1 DEF Enter, PicInv
<1>5. IrqLevels \subseteq 1 .. Len(stack)
  BY DEF IrqLevels
<1>6. \A i \in IrqLevels : ~ iflag' /\ Serviced(stack'[i].todo, isr')
  BY <1>2, <1>3, <1>4, <1>5 DEF PicInv
<1>7. /\ irr' \in SUBSET (0 .. 15)
      /\ IrqLevels = {} => isr' = {}
      /\ \A i, j \in IrqLevels : i = j
  BY <1>2 DEF PicInv
<1> QED
  BY <1>3, <1>4, <1>6, <1>7 DEF PicInv

\* The handler that returns has ended its interrupt.
LEMMA ReturnPic ==
  ASSUME PicInv, Return
  PROVE  PicInv'
<1>1. /\ StackInv' /\ Len(stack') = Len(stack) - 1 /\ Len(stack) > 1
      /\ IrqLevels' = IrqLevels \ {Len(stack)}
      /\ iflag' \in BOOLEAN /\ Top.kind \in {"irq", "trap"}
      /\ Top.kind = "irq" => Len(Top.todo) = 1
      /\ Top.kind = "trap" => depth = 2 /\ stack[1].kind = "main"
  BY PopStack DEF PicInv
<1>2. irr' = irr /\ isr' = isr
  BY DEF Return
<1>3. depth = Len(stack) /\ Top = stack[depth] /\ depth \in 1 .. Len(stack)
  BY TopFacts DEF PicInv
<1>4. IrqLevels' = {} /\ isr = {}
  <2>1. CASE Top.kind = "irq"
    <3>1. depth \in IrqLevels
      BY <1>3, <2>1 DEF IrqLevels
    <3>2. IrqLevels = {depth} /\ Serviced(Top.todo, isr)
      BY <1>3, <3>1 DEF PicInv
    <3> QED
      BY <1>1, <1>3, <2>1, <3>2 DEF Serviced
  <2>2. CASE Top.kind = "trap"
    <3>1. \A i \in 1 .. Len(stack) : i = 1 \/ i = 2
      BY <1>1, <1>3, <2>2
    <3>2. IrqLevels = {}
      BY <1>1, <1>3, <2>2, <3>1 DEF IrqLevels
    <3> QED
      BY <1>1, <3>2 DEF PicInv
  <2> QED
    BY <1>1, <2>1, <2>2
<1> QED
  BY <1>1, <1>2, <1>4 DEF PicInv

\* The end of interrupt.
LEMMA EoiPic ==
  ASSUME PicInv, EoiStep
  PROVE  PicInv'
<1>1. /\ Top.todo \in Seq(Operation) /\ Lasting(Top.todo) /\ Shape(Top.kind, Top.todo)
      /\ Op = Head(Top.todo) /\ Op = Top.todo[1] /\ Top \in ContextType
      /\ depth \in 1 .. Len(stack) /\ Top = stack[depth]
      /\ Len(Top.todo) \in Nat /\ Len(Top.todo) >= 1
  BY TopFacts DEF PicInv
<1>2. /\ Op.op = "eoi" /\ isr' = send_eoi(Op.arg) /\ Continue(Tail(Top.todo))
      /\ iflag' = iflag /\ irr' = irr
  BY DEF EoiStep
<1>3. 1 \in 1 .. Len(Top.todo)
  BY <1>1
<1>4. Top.kind = "irq"
  <2>1. Top.kind = "trap" => Top.todo[1].op = "iretq"
    BY <1>1, <1>3 DEF Shape
  <2>2. Top.kind = "main" => Op \in MainOps
    BY <1>1, <1>3, ElementOfSeq DEF Shape
  <2>3. Top.kind = "exception" => Op \in Quiet
    BY <1>1, <1>3, ElementOfSeq DEF Shape
  <2> QED
    BY <1>1, <1>2, <2>1, <2>2, <2>3 DEF ContextType, MainOps, Quiet
<1>5. Len(Top.todo) = 2
  <2>1. Top.todo[1].op = "eoi" <=> 1 = Len(Top.todo) - 1
    BY <1>1, <1>3, <1>4 DEF Shape
  <2>2. 1 = Len(Top.todo) - 1
    BY <1>1, <1>2, <2>1
  <2> QED
    BY <1>1, <2>2
<1>6. Serviced(Top.todo, isr)
  BY <1>1, <1>4 DEF PicInv, IrqLevels
<1>7. Op.arg \in 0 .. 15 /\ isr \in InService(Op.arg)
  <2>1. 2 - 1 = 1 /\ 2 # 1
    OBVIOUS
  <2> QED
    BY <1>1, <1>5, <1>6, <2>1 DEF Serviced
<1>8. isr' = {}
  BY <1>2, <1>7, EoiDrains
<1> DEFINE t == Tail(Top.todo)
<1>9. /\ t \in Seq(Operation) /\ Lasting(t) /\ Shape(Top.kind, t)
      /\ Len(t) = Len(Top.todo) - 1
  BY <1>1, <1>2, TailKeepsShape
<1>10. Serviced(t, isr')
  <2>1. Len(t) = 1
    BY <1>5, <1>9
  <2> QED
    BY <1>8, <2>1 DEF Serviced
<1> HIDE DEF t
<1>11. Continue(t) /\ iflag' \in BOOLEAN /\ (iflag' => iflag \/ Top.kind = "main")
  BY <1>2 DEF t, PicInv
<1> QED
  BY <1>2, <1>4, <1>9, <1>10, <1>11, ContinuePic

\* Locks, instructions and the timer's tick.  Only the main flow executes sti.
LEMMA PlainStepPic ==
  ASSUME PicInv, LockStep \/ UnlockStep \/ Instruction \/ Tick
  PROVE  PicInv'
<1>1. CASE LockStep \/ UnlockStep
  <2>1. /\ Op.op \in {"lock", "unlock"} /\ Continue(Tail(Top.todo))
        /\ iflag' = iflag /\ irr' = irr /\ isr' = isr
    BY <1>1 DEF LockStep, UnlockStep
  <2> QED
    BY <2>1, TailPic DEF PicInv
<1>2. CASE Instruction
  <2>1. /\ Op.op \in {"lidt", "sti", "cli", "heap_init"} /\ Continue(Tail(Top.todo))
        /\ irr' = irr /\ isr' = isr
        /\ iflag' = IF Op.op = "sti" THEN TRUE ELSE IF Op.op = "cli" THEN FALSE ELSE iflag
    BY <1>2 DEF Instruction
  <2>2. /\ Top.todo \in Seq(Operation) /\ Shape(Top.kind, Top.todo)
        /\ Op = Top.todo[1] /\ Top \in ContextType
        /\ 1 \in 1 .. Len(Top.todo)
    BY TopFacts DEF PicInv
  <2>3. Op.op = "sti" => Top.kind = "main"
    <3>1. Top.kind = "trap" => Top.todo[1].op = "iretq"
      BY <2>2 DEF Shape
    <3>2. Top.kind = "irq" => Top.todo[1].op # "sti"
      BY <2>2 DEF Shape
    <3>3. Top.kind = "exception" => Op \in Quiet
      BY <2>2, ElementOfSeq DEF Shape
    <3> QED
      BY <2>2, <3>1, <3>2, <3>3 DEF ContextType, Quiet
  <2>4. iflag' \in BOOLEAN /\ (iflag' => iflag \/ Top.kind = "main")
    BY <2>1, <2>3 DEF PicInv
  <2> QED
    BY <2>1, <2>4, TailPic
<1>3. CASE Tick
  <2>1. PICK w \in Seq(Quiet) : Continue(w \o Tail(Top.todo))
    <3>1. Quiet \in Sorts /\ {} \in SUBSET Locks /\ "SERIAL" \notin {}
      BY DEF Sorts
    <3>2. Piece(Quiet, Log, {}, {})
      BY <3>1, LogPiece
    <3>3. Log \in Seq(Quiet) /\ << >> \in Seq(Quiet)
      BY <3>2, EmptySeq DEF Piece
    <3> QED
      BY <1>3, <3>3 DEF Tick
  <2>2. Op.op = "tick" /\ iflag' = iflag /\ irr' = irr /\ isr' = isr
    BY <1>3 DEF Tick
  <2> QED
    BY <2>1, <2>2, PrefixPic
<1> QED
  BY <1>1, <1>2, <1>3

\* Nothing the invariant looks at changes.
LEMMA QuietStepPic ==
  ASSUME PicInv, stack' = stack, iflag' = iflag, isr' = isr, irr' \in SUBSET (0 .. 15)
  PROVE  PicInv'
BY DEF PicInv, StackInv, IrqLevels

\* Every step keeps it.
LEMMA NextPic ==
  ASSUME PicInv, [Next]_vars
  PROVE  PicInv'
<1>1. CASE LockStep \/ UnlockStep \/ Instruction \/ Tick
  BY <1>1, PlainStepPic
<1>2. CASE CallStep
  BY <1>2, CallPic
<1>3. CASE EoiStep
  BY <1>3, EoiPic
<1>4. CASE Return
  BY <1>4, ReturnPic
<1>5. CASE Idle \/ vars' = vars
  BY <1>5, QuietStepPic DEF Idle, vars, PicInv
<1>6. ASSUME NEW irq \in Irqs, Raise(irq)
      PROVE  PicInv'
  <2>1. irr' \in SUBSET (0 .. 15)
    BY <1>6, InterruptAssumption DEF Raise, PicInv
  <2> QED
    BY <1>6, <2>1, QuietStepPic DEF Raise
<1>7. ASSUME NEW irq \in Irqs, Deliver(irq)
      PROVE  PicInv'
  BY <1>7, DeliverPic
<1>8. ASSUME NEW irq \in Irqs, Spurious(irq)
      PROVE  PicInv'
  BY <1>8, SpuriousPic
<1>9. CASE Fault \/ Syscall
  BY <1>9, OtherEntryPic
<1> QED
  BY <1>1, <1>2, <1>3, <1>4, <1>5, <1>6, <1>7, <1>8, <1>9 DEF Next, Step

\* Handlers of interrupts never nest, and when none runs nothing is in
\* service on either controller: send_eoi answers every interrupt, spurious
\* ones too, on the right chips.
THEOREM PicCorrect == Spec => []PicDrained
<1>1. Init => PicInv
  BY InitPic
<1>2. PicInv /\ [Next]_vars => PicInv'
  BY NextPic
<1>3. PicInv => PicDrained
  <2> SUFFICES ASSUME PicInv
               PROVE  PicDrained
    OBVIOUS
  <2>1. {i \in 1 .. depth : stack[i].kind = "irq"} = IrqLevels
    BY DEF depth, IrqLevels
  <2>2. Cardinality(IrqLevels) <= 1
    <3>1. CASE IrqLevels = {}
      BY <3>1, FS_EmptySet
    <3>2. CASE IrqLevels # {}
      <4>1. PICK i \in IrqLevels : TRUE
        BY <3>2
      <4>2. IrqLevels = {i}
        BY DEF PicInv
      <4> QED
        BY <4>2, FS_Singleton
    <3> QED
      BY <3>1, <3>2
  <2>3. IrqLevels = {} => isr = {}
    BY DEF PicInv
  <2> QED
    BY <2>1, <2>2, <2>3 DEF PicDrained
<1> QED
  BY <1>1, <1>2, <1>3, PTL DEF Spec

----------------------------------------------------------------------------
(* The locks.                                                              *)

\* The locks of the context of a level.
Held(i) == {l \in Locks : owner[l] = i}

\* Every lock is free or some context of the stack has it, and what each
\* context has still to do is safe with the locks it has.
LockInv ==
  /\ owner \in [Locks -> 0 .. Len(stack)]
  /\ \A i \in 1 .. Len(stack) : \E K : Safe(stack[i].todo, Held(i), K)

\* The next operation of the context on top, judged.
LEMMA TopJudged ==
  ASSUME StackInv, LockInv
  PROVE  \E A, K :
           /\ A \in SUBSET Locks
           /\ Judged(Op, Held(depth), A) /\ Safe(Tail(Top.todo), A, K)
<1>1. /\ Top.todo \in Seq(Operation) /\ Top.todo # << >> /\ Op = Head(Top.todo)
      /\ depth \in 1 .. Len(stack) /\ Top = stack[depth]
  BY TopFacts
<1>2. PICK K : Safe(Top.todo, Held(depth), K)
  BY <1>1 DEF LockInv
<1> QED
  BY <1>1, <1>2, SafeTail

\* The context on top goes on, and no other context's locks change.
LEMMA ContinueLock ==
  ASSUME StackInv, LockInv, NEW t, Continue(t), owner' \in [Locks -> 0 .. Len(stack)],
         NEW H, {l \in Locks : owner'[l] = depth} = H,
         \A l \in Locks : owner'[l] = owner[l]
                           \/ (owner[l] \in {0, depth} /\ owner'[l] \in {0, depth}),
         NEW K, Safe(t, H, K)
  PROVE  LockInv'
<1> DEFINE c == [stack[depth] EXCEPT !.todo = t]
<1>1. /\ stack \in Seq(ContextType) /\ depth \in 1 .. Len(stack)
      /\ stack[depth] \in ContextType /\ depth \in Nat /\ depth = Len(stack)
      /\ depth >= 1
  BY TopFacts DEF StackInv
<1>2. c.todo = t
  BY <1>1 DEF ContextType
<1>3. stack' = [stack EXCEPT ![depth] = c]
  BY DEF Continue
<1> HIDE DEF c
<1>4. /\ Len(stack') = Len(stack)
      /\ \A j \in 1 .. Len(stack) : stack'[j] = IF j = depth THEN c ELSE stack[j]
  <2>1. stack \in [1 .. Len(stack) -> ContextType] /\ Len(stack) \in Nat
    BY <1>1, LenProperties
  <2>2. DOMAIN stack' = 1 .. Len(stack)
    BY <1>3, <2>1
  <2>3. stack' \in Seq(ContextType \cup {c})
    <3>1. stack' \in [1 .. Len(stack) -> ContextType \cup {c}]
      BY <1>3, <2>1
    <3> QED
      BY <2>1, <3>1
  <2>4. Len(stack') = Len(stack)
    BY <2>1, <2>2, <2>3, LenProperties
  <2> QED
    BY <1>1, <1>3, <2>1, <2>4
<1>5. \A i \in 1 .. Len(stack) : \E J : Safe(stack'[i].todo, {l \in Locks : owner'[l] = i}, J)
  <2> SUFFICES ASSUME NEW i \in 1 .. Len(stack)
               PROVE  \E J : Safe(stack'[i].todo, {l \in Locks : owner'[l] = i}, J)
    OBVIOUS
  <2>1. CASE i = depth
    <3>1. stack'[i].todo = t
      BY <1>2, <1>4, <2>1
    <3> QED
      BY <2>1, <3>1
  <2>2. CASE i # depth
    <3>1. {l \in Locks : owner'[l] = i} = Held(i)
      BY <1>1, <2>2 DEF Held
    <3>2. stack'[i] = stack[i]
      BY <1>4, <2>2
    <3> QED
      BY <3>1, <3>2 DEF LockInv
  <2> QED
    BY <2>1, <2>2
<1>6. owner' \in [Locks -> 0 .. Len(stack')]
  BY <1>4
<1> QED
  BY <1>4, <1>5, <1>6 DEF LockInv, Held

\* ... in the case that the locks stay as they are.
LEMMA ContinueSameLock ==
  ASSUME StackInv, LockInv, NEW t, Continue(t), owner' = owner,
         NEW K, Safe(t, Held(depth), K)
  PROVE  LockInv'
<1>1. depth = Len(stack)
  BY DEF depth
<1>2. owner' \in [Locks -> 0 .. Len(stack)] /\ {l \in Locks : owner'[l] = depth} = Held(depth)
  BY DEF LockInv, Held
<1> DEFINE H == Held(depth)
<1>3. {l \in Locks : owner'[l] = depth} = H /\ Safe(t, H, K)
  BY <1>2
<1> HIDE DEF H
<1> QED
  BY <1>2, <1>3, ContinueLock

\* The invariant of the locks holds at the start.
LEMMA InitLock == Init => LockInv
<1> SUFFICES ASSUME Init
             PROVE  LockInv
  OBVIOUS
<1> DEFINE c == Context("main", Boot, FALSE)
<1>1. c.todo = Boot /\ stack = <<c>>
  BY DEF Init, Context
<1> HIDE DEF c
<1>2. Len(stack) = 1 /\ stack[1] = c
  BY <1>1
<1>3. Held(1) = {}
  BY DEF Init, Held
<1>4. Safe(Boot, {}, {"SCREEN"})
  BY BootPiece DEF Piece
<1>5. owner \in [Locks -> 0 .. Len(stack)]
  BY <1>2 DEF Init
<1>6. ASSUME NEW i \in 1 .. Len(stack)
      PROVE  \E K : Safe(stack[i].todo, Held(i), K)
  <2>1. i = 1
    BY <1>2
  <2> QED
    BY <1>1, <1>2, <1>3, <1>4, <2>1
<1> QED
  BY <1>5, <1>6 DEF LockInv

\* A lock that is free is taken.
LEMMA LockStepLock ==
  ASSUME StackInv, LockInv, LockStep
  PROVE  LockInv'
<1>1. PICK A, K :
        /\ A \in SUBSET Locks
        /\ Judged(Op, Held(depth), A) /\ Safe(Tail(Top.todo), A, K)
  BY TopJudged
<1>2. /\ Op.op = "lock" /\ owner[Op.arg] = 0 /\ Continue(Tail(Top.todo))
      /\ owner' = [owner EXCEPT ![Op.arg] = depth]
  BY DEF LockStep
<1>3. Op.arg \in Locks /\ A = Held(depth) \cup {Op.arg}
  BY <1>1, <1>2 DEF Judged
<1>4. depth \in 1 .. Len(stack) /\ depth = Len(stack) /\ depth \in Nat
  BY TopFacts
<1>5. owner \in [Locks -> 0 .. Len(stack)]
  BY DEF LockInv
<1>6. owner' \in [Locks -> 0 .. Len(stack)]
  BY <1>2, <1>3, <1>4, <1>5
<1>7. {l \in Locks : owner'[l] = depth} = A
  BY <1>2, <1>3, <1>5 DEF Held
<1>8. \A l \in Locks : owner'[l] = owner[l]
                        \/ (owner[l] \in {0, depth} /\ owner'[l] \in {0, depth})
  BY <1>2, <1>3, <1>5
<1> QED
  BY <1>1, <1>2, <1>6, <1>7, <1>8, ContinueLock

\* A lock is dropped by the context that has it.
LEMMA UnlockStepLock ==
  ASSUME StackInv, LockInv, UnlockStep
  PROVE  LockInv'
<1>1. PICK A, K :
        /\ A \in SUBSET Locks
        /\ Judged(Op, Held(depth), A) /\ Safe(Tail(Top.todo), A, K)
  BY TopJudged
<1>2. /\ Op.op = "unlock" /\ Continue(Tail(Top.todo))
      /\ owner' = [owner EXCEPT ![Op.arg] = 0]
  BY DEF UnlockStep
<1>3. Op.arg \in Locks /\ owner[Op.arg] = depth /\ A = Held(depth) \ {Op.arg}
  BY <1>1, <1>2 DEF Judged, Held
<1>4. depth \in 1 .. Len(stack) /\ depth = Len(stack) /\ depth \in Nat /\ depth # 0
  BY TopFacts
<1>5. owner \in [Locks -> 0 .. Len(stack)]
  BY DEF LockInv
<1>6. owner' \in [Locks -> 0 .. Len(stack)]
  BY <1>2, <1>3, <1>4, <1>5
<1>7. {l \in Locks : owner'[l] = depth} = A
  BY <1>2, <1>3, <1>4, <1>5 DEF Held
<1>8. \A l \in Locks : owner'[l] = owner[l]
                        \/ (owner[l] \in {0, depth} /\ owner'[l] \in {0, depth})
  BY <1>2, <1>3, <1>5
<1> QED
  BY <1>1, <1>2, <1>6, <1>7, <1>8, ContinueLock

\* Calls, which are judged whichever way they go, and the timer's tick.
LEMMA CallLock ==
  ASSUME StackInv, LockInv, CallStep \/ Tick, SelfTestFails = {FALSE}
  PROVE  LockInv'
<1>1. PICK A, K :
        /\ A \in SUBSET Locks
        /\ Judged(Op, Held(depth), A) /\ Safe(Tail(Top.todo), A, K)
  BY TopJudged
<1>2. owner' = owner
  BY DEF CallStep, Tick
<1>3. Held(depth) \in SUBSET Locks /\ Quiet \in Sorts /\ Quiet \subseteq Operation
  BY DEF Held, Sorts, Quiet
<1>4. /\ Op \in Operation /\ Top.todo \in Seq(Operation) /\ Top.todo # << >>
  BY TopFacts
<1>5. Tail(Top.todo) \in Seq(Operation)
  BY <1>4, HeadTailProperties
<1>6. PICK w : /\ Piece(Quiet, w, Held(depth), Held(depth))
               /\ Continue(w \o Tail(Top.todo)) /\ A = Held(depth)
  <2>1. CASE CallStep
    <3>1. PICK way \in Ways(Op.op) : Continue(way \o Tail(Top.todo))
      BY <2>1 DEF CallStep
    <3>2. Held(depth) \cap Needs(Op) = {}
      BY <1>1 DEF Judged
    <3>3. Piece(Quiet, way, Held(depth), Held(depth)) /\ Op.op \notin {"lock", "unlock", "hlt"}
      BY <1>3, <1>4, <3>2, WaysPieces
    <3> QED
      BY <1>1, <3>1, <3>3 DEF Judged
  <2>2. CASE Tick
    <3>1. Op.op = "tick"
      BY <2>2 DEF Tick
    <3>2. Needs(Op) = {"SERIAL"}
      BY <3>1 DEF Needs
    <3>3. "SERIAL" \notin Held(depth) /\ A = Held(depth)
      BY <1>1, <3>1, <3>2 DEF Judged
    <3>4. /\ Piece(Quiet, Log, Held(depth), Held(depth))
          /\ Piece(Quiet, << >>, Held(depth), Held(depth))
      BY <1>3, <3>3, LogPiece, EmptyPiece
    <3> QED
      BY <2>2, <3>3, <3>4 DEF Tick
  <2> QED
    BY <2>1, <2>2
<1>7. w \in Seq(Operation) /\ Safe(w, Held(depth), Held(depth))
  BY <1>3, <1>6, SeqMonotonic DEF Piece
<1>8. Safe(w \o Tail(Top.todo), Held(depth), K)
  BY <1>1, <1>5, <1>6, <1>7, SafeConcat
<1> QED
  BY <1>2, <1>6, <1>8, ContinueSameLock

\* Instructions and the end of interrupt have nothing to do with locks.
LEMMA InstructionLock ==
  ASSUME StackInv, LockInv, Instruction \/ EoiStep
  PROVE  LockInv'
<1>1. PICK A, K :
        /\ A \in SUBSET Locks
        /\ Judged(Op, Held(depth), A) /\ Safe(Tail(Top.todo), A, K)
  BY TopJudged
<1>2. /\ Op.op \in {"lidt", "sti", "cli", "heap_init", "eoi"} /\ owner' = owner
      /\ Continue(Tail(Top.todo))
  BY DEF Instruction, EoiStep
<1>3. A = Held(depth)
  BY <1>1, <1>2 DEF Judged
<1> QED
  BY <1>1, <1>2, <1>3, ContinueSameLock

\* A handler that is entered has no lock.
LEMMA EnterLock ==
  ASSUME StackInv, LockInv, NEW kind, NEW t, Enter(kind, t), owner' = owner,
         iflag \in BOOLEAN, Safe(t, {}, {})
  PROVE  LockInv'
<1> DEFINE c == Context(kind, t, iflag)
           n == Len(stack)
<1>1. stack \in Seq(ContextType) /\ n \in Nat
  BY LenProperties DEF StackInv
<1>2. c.todo = t /\ stack' = Append(stack, c)
  BY DEF Context, Enter
<1> HIDE DEF c
<1>3. /\ Len(stack') = n + 1 /\ stack'[n + 1] = c
      /\ \A i \in 1 .. n : stack'[i] = stack[i]
  <2>1. stack \in Seq(ContextType \cup {c})
    BY <1>1, SeqMonotonic
  <2> QED
    BY <1>2, <2>1, AppendProperties
<1>4. owner \in [Locks -> 0 .. n]
  BY DEF LockInv
<1> HIDE DEF n
<1>5. owner' \in [Locks -> 0 .. n + 1]
  BY <1>1, <1>4
<1>6. \A i \in 1 .. n + 1 : \E K : Safe(stack'[i].todo, {l \in Locks : owner'[l] = i}, K)
  <2> SUFFICES ASSUME NEW i \in 1 .. n + 1
               PROVE  \E K : Safe(stack'[i].todo, {l \in Locks : owner'[l] = i}, K)
    OBVIOUS
  <2>1. CASE i \in 1 .. n
    <3>1. {l \in Locks : owner'[l] = i} = Held(i) /\ stack'[i] = stack[i]
      BY <1>3, <2>1 DEF Held
    <3>2. \E K : Safe(stack[i].todo, Held(i), K)
      BY <2>1 DEF LockInv, n
    <3> QED
      BY <3>1, <3>2
  <2>2. CASE i = n + 1
    <3>1. {l \in Locks : owner'[l] = i} = {}
      BY <1>1, <1>4, <2>2
    <3> QED
      BY <1>2, <1>3, <2>2, <3>1
  <2>3. i \in 1 .. n \/ i = n + 1
    BY <1>1
  <2> QED
    BY <2>1, <2>2, <2>3
<1> QED
  BY <1>3, <1>5, <1>6 DEF LockInv, Held

\* A handler that returns has dropped its locks.
LEMMA ReturnLock ==
  ASSUME StackInv, LockInv, Return
  PROVE  LockInv'
<1>1. PICK A, K :
        /\ A \in SUBSET Locks
        /\ Judged(Op, Held(depth), A) /\ Safe(Tail(Top.todo), A, K)
  BY TopJudged
<1>2. Op.op = "iretq" /\ owner' = owner
  BY DEF Return
<1>3. Needs(Op) = Locks
  BY <1>2 DEF Needs
<1>4. Held(depth) = {}
  BY <1>1, <1>3 DEF Judged, Held
<1>5. /\ Len(stack') = Len(stack) - 1 /\ Len(stack) > 1
      /\ \A i \in 1 .. Len(stack) - 1 : stack'[i] = stack[i]
  BY PopStack
<1>6. depth = Len(stack) /\ depth \in Nat
  BY TopFacts
<1>7. owner' \in [Locks -> 0 .. Len(stack')]
  <2>1. \A l \in Locks : owner[l] \in 0 .. depth /\ owner[l] # depth
    BY <1>4, <1>6 DEF LockInv, Held
  <2>2. \A l \in Locks : owner[l] \in 0 .. depth - 1
    BY <1>6, <2>1
  <2> QED
    BY <1>2, <1>5, <1>6, <2>2 DEF LockInv
<1>8. \A i \in 1 .. Len(stack') : i \in 1 .. Len(stack) /\ stack'[i] = stack[i]
  BY <1>5, <1>6
<1> QED
  BY <1>2, <1>7, <1>8 DEF LockInv, Held

\* Every step keeps it, given the invariant of the interrupt controller.
LEMMA NextLock ==
  ASSUME PicInv, LockInv, [Next]_vars, SelfTestFails = {FALSE}
  PROVE  LockInv'
<1>0. StackInv /\ iflag \in BOOLEAN
  BY DEF PicInv
<1>1. CASE LockStep
  BY <1>0, <1>1, LockStepLock
<1>2. CASE UnlockStep
  BY <1>0, <1>2, UnlockStepLock
<1>3. CASE CallStep \/ Tick
  BY <1>0, <1>3, CallLock
<1>4. CASE Instruction \/ EoiStep
  BY <1>0, <1>4, InstructionLock
<1>5. CASE Return
  BY <1>0, <1>5, ReturnLock
<1>6. CASE Idle \/ vars' = vars
  BY <1>6 DEF Idle, vars, LockInv, Held
<1>7. ASSUME NEW irq \in Irqs, Raise(irq)
      PROVE  LockInv'
  BY <1>7 DEF Raise, LockInv, Held
<1>8. ASSUME NEW irq \in Irqs, Deliver(irq) \/ Spurious(irq)
      PROVE  LockInv'
  <2>1. Enter("irq", irq_common_handler(irq)) /\ owner' = owner
    BY <1>8 DEF Deliver, Spurious
  <2>2. Safe(irq_common_handler(irq), {}, {})
    <3>1. irq \in 0 .. 15
      BY InterruptAssumption
    <3>2. PICK lines \in InService(irq) : TRUE
      BY DEF InService
    <3> QED
      BY <3>1, <3>2, HandlerFacts
  <2> QED
    BY <1>0, <2>1, <2>2, EnterLock
<1>9. CASE Fault
  BY <1>0, <1>9, EnterLock, OtherHandlers DEF Fault
<1>10. CASE Syscall
  BY <1>0, <1>10, EnterLock, OtherHandlers DEF Syscall
<1> QED
  BY <1>1, <1>2, <1>3, <1>4, <1>5, <1>6, <1>7, <1>8, <1>9, <1>10 DEF Next, Step

\* When the serial self-test passes, no code path takes a lock it already
\* holds: whoever spins does so because of a context it interrupted.
THEOREM LocksCorrect ==
  ASSUME SelfTestFails = {FALSE}
  PROVE  Spec => []NoSelfDeadlock
<1> DEFINE Inv == PicInv /\ LockInv
<1>1. Init => Inv
  BY InitPic, InitLock
<1>2. Inv /\ [Next]_vars => Inv'
  BY NextPic, NextLock
<1>3. Inv => NoSelfDeadlock
  <2> SUFFICES ASSUME PicInv, LockInv, Waits
               PROVE  Wedged
    BY DEF NoSelfDeadlock
  <2>1. StackInv
    BY DEF PicInv
  <2>2. PICK A, K :
          /\ A \in SUBSET Locks
          /\ Judged(Op, Held(depth), A) /\ Safe(Tail(Top.todo), A, K)
    BY <2>1, TopJudged
  <2>3. Op.op = "lock" /\ owner[Op.arg] # 0
    BY DEF Waits
  <2>4. Needs(Op) = {Op.arg}
    BY <2>3 DEF Needs
  <2>5. Op.arg \in Locks /\ owner[Op.arg] # depth
    BY <2>2, <2>3, <2>4 DEF Judged, Held
  <2>6. depth = Len(stack) /\ depth \in Nat
    BY <2>1, TopFacts
  <2>7. owner[Op.arg] \in 0 .. depth
    BY <2>5, <2>6 DEF LockInv
  <2>8. owner[Op.arg] < depth
    BY <2>5, <2>6, <2>7
  <2> QED
    BY <2>8 DEF Wedged
<1> QED
  BY <1>1, <1>2, <1>3, PTL DEF Spec

=============================================================================
