----------------------------- MODULE Interrupts -----------------------------
(***************************************************************************)
(* One processor, the interrupt controllers and the kernel's spin locks:   *)
(* kernel/src/arch/x86_64/idt.rs with the boot sequence of lib.rs and      *)
(* arch/x86_64/mod.rs.                                                     *)
(*                                                                         *)
(* The processor runs a stack of contexts, the main flow at the bottom;    *)
(* only the top one runs.  Each context has the list of what it has still  *)
(* to do: locks it takes and drops, instructions that matter here, and     *)
(* calls, which are replaced by what they do.  A spin lock that is taken   *)
(* stays taken until its owner runs again.                                 *)
(***************************************************************************)
EXTENDS Integers, Sequences, FiniteSets, FiniteSetsExt

CONSTANTS
  Irqs,           \* interrupt lines that are used, from 0 to 15
  LOG_EVERY,      \* timer ticks between two log lines, 100 in the code
  SelfTestFails,  \* outcomes of the serial loopback test, a set of BOOLEANs
  Faults,         \* bound: exceptions taken, 0 or 1
  Syscalls,       \* bound: traps through the gate of vector 0x80
  MaxIrqs         \* bound: interrupts raised

ASSUME InterruptAssumption ==
  /\ Irqs \subseteq 0 .. 15 /\ LOG_EVERY \in Nat \ {0}
  /\ SelfTestFails \subseteq BOOLEAN /\ SelfTestFails # {}
  /\ Faults \in 0 .. 1 /\ Syscalls \in Nat /\ MaxIrqs \in Nat

VARIABLES
  stack,       \* contexts: [kind, todo, flag], flag being the saved IF
  iflag,       \* the interrupt flag of the processor
  owner,       \* of each lock: the depth of its owner in the stack, or 0
  idt,         \* IDT loaded
  heap_ready,  \* the inner allocator of the heap is initialised
  ticks,       \* TIMER_TICKS, modulo LOG_EVERY
  irr,         \* lines that request an interrupt
  isr,         \* lines in service, of the master (0..7) and the slave (8..15)
  used         \* history: irqs, faults and syscalls so far; short: something the
               \* kernel needs was not there; clash: an interrupt came when its
               \* handler could not do its work

vars == <<stack, iflag, owner, idt, heap_ready, ticks, irr, isr, used>>

Locks == {"SERIAL", "INNER", "HEAP_END", "FRAME_ALLOCATOR", "MEMORY_STATS",
          "SCREEN", "EXTENDED_KEY", "MODIFIERS", "KEYBOARD_BUF"}

----------------------------------------------------------------------------
(* What the code does, as lists of operations.                             *)

Lock(l) == <<[op |-> "lock", arg |-> l]>>
Unlock(l) == <<[op |-> "unlock", arg |-> l]>>
Do(op) == <<[op |-> op, arg |-> 0]>>
Within(l, ops) == Lock(l) \o ops \o Unlock(l)

\* SerialLogger::log and serial_print
Log == Within("SERIAL", << >>)

\* The panic handler: a log line, then hlt for ever.
Panic == Log \o Do("hlt")

\* idt::halt, at the end of every exception handler.
Halt == Log \o Do("cli") \o Do("hlt")

\* AutoExtendHeap::try_extend up to its last lines, for one frame.
OneFrame == Within("FRAME_ALLOCATOR", << >>)
NoFrame  == Within("FRAME_ALLOCATOR", Log) \o Log
Attempt  == Within("INNER", << >>)

alloc_error_handler ==
  Attempt \o Within("HEAP_END", << >>) \o Within("FRAME_ALLOCATOR", << >>)
    \o Log \o Log \o Log \o Panic

\* Mutant: the log line of an extension asks heap_size for the total, with
\* heap_end still locked.
AllocWays_log_inside ==
  {Attempt,
   Attempt \o Within("HEAP_END", OneFrame \o Attempt \o Within("HEAP_END", << >>) \o Log)
     \o Attempt}

\* The ways GlobalAlloc::alloc can go: a fit; the heap grows; it grows by
\* less than was asked; there is no frame, or the cap is reached, and the
\* caller ends in alloc_error_handler.  Before heap::init growing panics.
AllocWays ==
  IF heap_ready
  THEN {Attempt,
        Attempt \o Within("HEAP_END", OneFrame \o Attempt \o Log) \o Attempt,
        Attempt \o Within("HEAP_END", OneFrame \o NoFrame \o Attempt \o Log)
          \o Attempt \o alloc_error_handler,
        Attempt \o Within("HEAP_END", NoFrame) \o alloc_error_handler,
        Attempt \o Within("HEAP_END", Log) \o alloc_error_handler}
  ELSE {Attempt \o Lock("HEAP_END") \o NoFrame \o Unlock("HEAP_END") \o alloc_error_handler,
        Attempt \o Lock("HEAP_END") \o OneFrame \o Lock("INNER") \o Panic}

\* Mutant: handle_scancode copies MODIFIERS before the guard is dropped.
KeyboardWays_nested ==
  {Within("EXTENDED_KEY", << >>),
   Within("EXTENDED_KEY", << >>) \o Within("MODIFIERS", Within("MODIFIERS", << >>))
     \o Within("KEYBOARD_BUF", Do("alloc"))}

\* keyboard::handle_interrupt: the prefix, or an event that may make the
\* buffer grow.
KeyboardWays ==
  LET event == Within("EXTENDED_KEY", << >>) \o Within("MODIFIERS", << >>)
                 \o Within("MODIFIERS", << >>)
  IN  {Within("EXTENDED_KEY", << >>),
       event \o Within("KEYBOARD_BUF", << >>),
       event \o Within("KEYBOARD_BUF", Do("alloc"))}

\* serial::init; a panic in the self-test leaves SERIAL locked.
SerialInitWays ==
  {IF fails THEN Log \o Lock("SERIAL") \o Panic
   ELSE Log \o Within("SERIAL", << >>) \o Log : fails \in SelfTestFails}

\* arch::x86_64::init
idt_init == Log \o Do("lidt") \o Log \o Log \o Log \o Log

arch_init ==
  Log \o idt_init \o Log \o Do("serial_init") \o Do("sti") \o Log

\* The frames of the initial heap; heap::init panics when there are too few,
\* heap_end being locked.
HeapFrames == {OneFrame, Within("FRAME_ALLOCATOR", Log) \o Panic}

mem_init ==
  Log \o Within("MEMORY_STATS", Log) \o Within("MEMORY_STATS", Log)
    \o Within("FRAME_ALLOCATOR", Log)
    \o Within("HEAP_END",
              Do("heap_frames") \o Within("INNER", Do("heap_init")) \o Log)
    \o Within("HEAP_END", << >>) \o Log

\* Screen::init makes its buffer.
screen_init == Within("SCREEN", Do("alloc") \o Log)

drivers_init == Log \o screen_init \o Log

create_process == Log \o Do("alloc") \o Log

\* Mutant: the drivers are initialised before the memory they use.
Boot_drivers_first ==
  Log \o arch_init \o Log \o drivers_init \o mem_init \o Log
    \o create_process \o Log \o Lock("SCREEN") \o Do("draw")

\* _start64 and kernel_main up to the drawing loop, which keeps SCREEN.
Boot ==
  Log \o arch_init \o Log \o mem_init \o drivers_init \o Log
    \o create_process \o Log \o Lock("SCREEN") \o Do("draw")

\* One round of the drawing loop: it allocates and frees.  It panics when the
\* frame buffer has not four bytes a pixel, as the one assumed without a tag.
DrawWays == {Do("alloc") \o Within("INNER", << >>) \o Do("draw"), Panic}

\* How a call can go, other operations not being calls.
Ways(op) ==
  CASE op = "alloc"       -> AllocWays
    [] op = "serial_init" -> SerialInitWays
    [] op = "heap_frames" -> HeapFrames
    [] op = "keyboard"    -> KeyboardWays
    [] op = "draw"        -> DrawWays
    [] OTHER              -> {}

----------------------------------------------------------------------------
Context(kind, todo, flag) == [kind |-> kind, todo |-> todo, flag |-> flag]

Init ==
  /\ stack = <<Context("main", Boot, FALSE)>>
  /\ iflag = FALSE
  /\ owner = [l \in Locks |-> 0]
  /\ idt = FALSE /\ heap_ready = FALSE
  /\ ticks = 0
  /\ irr = {} /\ isr = {}
  /\ used = [irqs |-> 0, faults |-> 0, syscalls |-> 0, short |-> FALSE, clash |-> FALSE]

depth == Len(stack)
Top   == stack[depth]
Op    == Head(Top.todo)

\* The context on top goes on with these operations.
Continue(todo) == stack' = [stack EXCEPT ![depth].todo = todo]

\* The gates: every handler is behind an interrupt gate, but the system call
\* behind a trap gate.
ClearsIF(kind) == kind # "trap"

\* The processor enters a handler.
Enter(kind, todo) ==
  /\ stack' = Append(stack, Context(kind, todo, iflag))
  /\ iflag' = IF ClearsIF(kind) THEN FALSE ELSE iflag

----------------------------------------------------------------------------
(* Steps of the context on top.                                            *)

LockStep ==
  /\ Op.op = "lock" /\ owner[Op.arg] = 0
  /\ owner' = [owner EXCEPT ![Op.arg] = depth]
  /\ Continue(Tail(Top.todo))
  /\ UNCHANGED <<iflag, idt, heap_ready, ticks, irr, isr, used>>

UnlockStep ==
  /\ Op.op = "unlock"
  /\ owner' = [owner EXCEPT ![Op.arg] = 0]
  /\ Continue(Tail(Top.todo))
  /\ UNCHANGED <<iflag, idt, heap_ready, ticks, irr, isr, used>>

\* A way that panics for want of frames, of room below the cap, of a frame
\* buffer it can draw on or of a port that passes its test.  (An allocation
\* before heap::init panics for another reason.)
Short(way) == way # << >> /\ way[Len(way)].op = "hlt" /\ (Op.op = "alloc" => heap_ready)

\* A call is replaced by one of the ways it can go.
CallStep ==
  /\ \E way \in Ways(Op.op) :
       /\ Continue(way \o Tail(Top.todo))
       /\ used' = [used EXCEPT !.short = @ \/ Short(way)]
  /\ UNCHANGED <<iflag, owner, idt, heap_ready, ticks, irr, isr>>

\* Instructions of the boot sequence and of halt.
Instruction ==
  /\ Op.op \in {"lidt", "sti", "cli", "heap_init"}
  /\ idt' = (idt \/ Op.op = "lidt")
  /\ heap_ready' = (heap_ready \/ Op.op = "heap_init")
  /\ iflag' = IF Op.op = "sti" THEN TRUE ELSE IF Op.op = "cli" THEN FALSE ELSE iflag
  /\ Continue(Tail(Top.todo))
  /\ UNCHANGED <<owner, ticks, irr, isr, used>>

\* A non-specific end of interrupt takes the highest priority of one chip
\* out of service.
AfterEoi(chip, lines) ==
  IF lines \cap chip = {} THEN lines ELSE lines \ {Min(lines \cap chip)}

Master == 0 .. 7
Slave  == 8 .. 15

\* Mutant: the slave's lines are answered on the slave only.
send_eoi_one_chip(irq) ==
  IF irq >= 8 THEN AfterEoi(Slave, isr) ELSE AfterEoi(Master, isr)

\* The slave's lines are answered on both chips.
send_eoi(irq) ==
  AfterEoi(Master, IF irq >= 8 THEN AfterEoi(Slave, isr) ELSE isr)

\* The timer's handler counts and sometimes logs.
Tick ==
  /\ Op.op = "tick"
  /\ ticks' = (ticks + 1) % LOG_EVERY
  /\ Continue((IF ticks' = 0 THEN Log ELSE << >>) \o Tail(Top.todo))
  /\ UNCHANGED <<iflag, owner, idt, heap_ready, irr, isr, used>>

EoiStep ==
  /\ Op.op = "eoi"
  /\ isr' = send_eoi(Op.arg)
  /\ Continue(Tail(Top.todo))
  /\ UNCHANGED <<iflag, owner, idt, heap_ready, ticks, irr, used>>

\* iretq
Return ==
  /\ Op.op = "iretq"
  /\ stack' = SubSeq(stack, 1, depth - 1)
  /\ iflag' = Top.flag
  /\ UNCHANGED <<owner, idt, heap_ready, ticks, irr, isr, used>>

Step == LockStep \/ UnlockStep \/ CallStep \/ Instruction \/ Tick \/ EoiStep \/ Return

\* Spinning on a lock that is taken, or halted.
Idle ==
  /\ Op.op = "hlt" \/ (Op.op = "lock" /\ owner[Op.arg] # 0)
  /\ UNCHANGED vars

----------------------------------------------------------------------------
(* Interrupts, exceptions and traps.                                       *)

\* A device asks for an interrupt.
Raise(irq) ==
  /\ used.irqs < MaxIrqs
  /\ irq \notin irr
  /\ irr' = irr \cup {irq}
  /\ used' = [used EXCEPT !.irqs = @ + 1]
  /\ UNCHANGED <<stack, iflag, owner, idt, heap_ready, ticks, isr>>

\* irq_common_handler and the code around it.
irq_common_handler(irq) ==
  (CASE irq = 0 -> Do("tick") [] irq = 1 -> Do("keyboard") [] OTHER -> Log)
    \o <<[op |-> "eoi", arg |-> irq]>> \o Do("iretq")

\* The locks a handler may take, and when it cannot do its work: one of them
\* is taken, or a key has to go into a buffer for which there is no heap yet.
HandlerLocks(irq) == IF irq = 1 THEN Locks \ {"MEMORY_STATS", "SCREEN"} ELSE {"SERIAL"}

Clash(irq) == (\E l \in HandlerLocks(irq) : owner[l] # 0) \/ (irq = 1 /\ ~ heap_ready)

\* The controllers let a request through unless a line of the same or a
\* higher priority is in service; the slave hangs on the master's line 2.
Deliver(irq) ==
  /\ iflag /\ irq \in irr
  /\ LET line == IF irq \in Slave THEN 2 ELSE irq
     IN  /\ \A m \in isr \cap Master : line < m
         /\ irq \in Slave => \A s \in isr \cap Slave : irq < s
         /\ isr' = isr \cup {line, irq}
  /\ irr' = irr \ {irq}
  /\ used' = [used EXCEPT !.clash = @ \/ Clash(irq)]
  /\ Enter("irq", irq_common_handler(irq))
  /\ UNCHANGED <<owner, idt, heap_ready, ticks>>

\* A request that went away: the controller answers with its last line and
\* puts nothing in service (the slave does, on the master).
Spurious(irq) ==
  /\ iflag /\ irq \in Irqs \cap {7, 15}
  /\ used.irqs < MaxIrqs
  /\ used' = [used EXCEPT !.irqs = @ + 1, !.clash = @ \/ Clash(irq)]
  /\ \A m \in isr \cap Master : (IF irq = 15 THEN 2 ELSE 7) < m
  /\ isr' = IF irq = 15 THEN isr \cup {2} ELSE isr
  /\ Enter("irq", irq_common_handler(irq))
  /\ UNCHANGED <<owner, idt, heap_ready, ticks, irr>>

\* What an exception handler logs.
Report == Log

\* An exception in the running context: a report, then halt.
Fault ==
  /\ idt /\ Op.op # "hlt"
  /\ used.faults < Faults
  /\ used' = [used EXCEPT !.faults = @ + 1]
  /\ Enter("exception", Report \o Halt)
  /\ UNCHANGED <<owner, idt, heap_ready, ticks, irr, isr>>

\* int 0x80: the handler only returns.  (Nothing in the kernel executes it
\* yet; a program would do so while the main flow runs.)
Syscall ==
  /\ Top.kind = "main" /\ Op.op = "draw"
  /\ used.syscalls < Syscalls
  /\ used' = [used EXCEPT !.syscalls = @ + 1]
  /\ Enter("trap", Do("iretq"))
  /\ UNCHANGED <<owner, idt, heap_ready, ticks, irr, isr>>

Next ==
  \/ Step \/ Idle
  \/ \E irq \in Irqs : Raise(irq) \/ Deliver(irq) \/ Spurious(irq)
  \/ Fault \/ Syscall

\* The processor keeps running the context on top.
Spec == Init /\ [][Next]_vars /\ WF_vars(Step)

----------------------------------------------------------------------------
(* Properties.                                                             *)

Halted == Op.op = "hlt"
Waits  == Op.op = "lock" /\ owner[Op.arg] # 0

\* The context on top waits for a lock of a context it interrupted: it waits
\* for ever.
Wedged == Waits /\ owner[Op.arg] < depth

\* No code path takes a lock it already holds: whoever spins does so because
\* of a context that was interrupted.  (Given that the serial self-test
\* passes.)
NoSelfDeadlock == Waits => Wedged

\* Handlers of interrupts do not nest, and every interrupt is answered with
\* the right end-of-interrupt commands: when no handler runs nothing is in
\* service on either controller, also after spurious interrupts, and so no
\* line stays blocked.
PicDrained ==
  LET handlers == {i \in 1 .. depth : stack[i].kind = "irq"}
  IN  /\ Cardinality(handlers) <= 1
      /\ handlers = {} => isr = {}

\* A handler that was entered returns, unless the kernel is wedged or halted.
\* (The deepest that returns is an interrupt in a system call, at level 3; what
\* is above it is the handler of an exception, which never returns.)
HandlerReturns == \A d \in 2 .. 3 : depth = d ~> (depth < d \/ Wedged \/ Halted)

\* The kernel reaches its drawing loop and comes round again and again, unless
\* an exception happened, something it needs was not there, or an interrupt came
\* while a lock its handler takes was held (or a key before heap::init).  So
\* these are the only causes of a kernel that hangs or halts: an interrupt at
\* any other moment does no harm, not while SCREEN or MEMORY_STATS is held, not
\* within another handler, and not by a line that stays blocked.
KernelRuns ==
  \/ []<>(Top.kind = "main" /\ Op.op = "draw")
  \/ <>(used.short \/ used.clash \/ used.faults > 0)

\* What serial.rs:58 says of Serial::init: "Panics if the loopback self-test
\* fails", and a panic ends in hlt.  (The panic handler's log line waits for
\* the lock of SERIAL, which init holds.)
SelfTestPanics == SelfTestFails = {TRUE} => <>Halted
=============================================================================
