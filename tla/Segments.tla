------------------------------ MODULE Segments ------------------------------
(***************************************************************************)
(* Descriptor tables and the way into a handler and back: gdt.rs, the      *)
(* tables and the entry code of idt.rs and the order arch::x86_64::init    *)
(* sets them up in.  What the processor does with the tables (it decodes   *)
(* the descriptors, chooses a stack, pushes a frame) is modelled from how  *)
(* the code relies on it.                                                  *)
(*                                                                         *)
(* An address is a number of eight digits of radix RADIX, a byte in the    *)
(* code each; so is what the fields of a descriptor are cut out of.        *)
(***************************************************************************)
EXTENDS Integers, Sequences, SequencesExt

CONSTANTS
  RADIX,              \* values of a byte, 256 in the code
  KERNEL_STACK_LEN,   \* bytes, 32768 in the code
  IST_STACK0_LEN,     \* bytes, 16384 in the code
  BOOT_STACK_LEN,     \* bytes below what the main flow uses of the boot stub's 65536
  Layouts,            \* where the linker may put things
  Exceptions,         \* vectors of the exceptions that occur
  Irqs,               \* interrupt lines that are used
  Ints,               \* operands of the int instructions of programs
  MaxEvents           \* bound: interrupts, exceptions and traps

\* Values of 16, 24 and 32 bits.
RADIX2 == RADIX * RADIX
RADIX3 == RADIX2 * RADIX
RADIX4 == RADIX2 * RADIX2

Address == 0 .. RADIX4 * RADIX4 - 1

\* A layout: handlers start at code, 16 bytes apart; the boot stack and a
\* program's stack are given by their tops, the kernel's stacks by their
\* first bytes.  The handlers of all 256 vectors would lie in the address space.
ASSUME SegmentsAssumption ==
  /\ RADIX \in Nat \ {0, 1} /\ MaxEvents \in Nat
  /\ KERNEL_STACK_LEN \in Nat /\ IST_STACK0_LEN \in Nat /\ BOOT_STACK_LEN \in Nat
  /\ Layouts \subseteq
       [code : Address, tss : Address, boot_stack : Address, user_stack : Address,
        kernel_stack : Address, ist_stack0 : Address]
  /\ \A l \in Layouts : l.code + 16 * 256 \in Address
  /\ Exceptions \subseteq 0 .. 31 /\ Irqs \subseteq 0 .. 15 /\ Ints \subseteq 0 .. 255

VARIABLES
  layout,           \* where things are
  next,             \* position in arch_init of the main flow
  TSS, IDT,         \* tables in memory; the GDT but for its last entry is constant
  tss_entry,        \* the last entry of the GDT
  gdtr, tr, idtr,   \* table registers
  pic,              \* the PIC is remapped
  cpu,              \* [cs, ss, rsp, rip, iflag, regs]
  mem,              \* words of the stacks that were written
  saved,            \* history: what was interrupted, and by what, innermost last
  shutdown,         \* what led to a triple fault, or NoCause
  events            \* number of interrupts, exceptions and traps

segmentVars == <<layout, next, TSS, IDT, tss_entry, gdtr, tr, idtr, pic, cpu, mem, saved,
                 shutdown, events>>

tables == <<layout, TSS, IDT, tss_entry, gdtr, tr, idtr, pic>>

----------------------------------------------------------------------------
(* Descriptors: how the code builds them.                                  *)

\* GdtEntry::new; the processor ignores base and limit of code and data.
GdtEntry(access, granularity) ==
  [access |-> access \cup {"DESCRIPTOR"}, granularity |-> granularity]

code      == GdtEntry({"PRESENT", "EXECUTABLE", "READ_WRITE"}, {"4K", "LONG_MODE"})
data      == GdtEntry({"PRESENT", "READ_WRITE"}, {"4K", "DEFAULT_OPSIZE"})
user_code == GdtEntry(code.access \cup {"PRIV_RING3"}, {"4K", "LONG_MODE"})
user_data == GdtEntry(data.access \cup {"PRIV_RING3"}, {"4K", "DEFAULT_OPSIZE"})
null      == [access |-> {}, granularity |-> {}]

\* TssEntry::new; flags1 is 0x89.
TssEntry(addr, size) ==
  [length |-> size, flags1 |-> 137, base_low |-> addr % RADIX2,
   base_mid |-> (addr \div RADIX2) % RADIX, base_high |-> (addr \div RADIX3) % RADIX,
   base_upper |-> (addr \div RADIX4) % RADIX4]

NullTssEntry ==
  [length |-> 0, flags1 |-> 0, base_low |-> 0, base_mid |-> 0, base_high |-> 0,
   base_upper |-> 0]

\* TaskStateSegment, packed: reserved1, rsps, reserved2, ists, and 8 + 2 + 2
\* bytes.
RspsAt == 4
IstsAt == RspsAt + 3 * 8 + 8
SizeOfTss == IstsAt + 7 * 8 + 12

\* The IDT's entries.  type_attr is [present, dpl, type].
IdtEntry(handler, selector, ist, gate_type, dpl) ==
  [offset_low |-> handler % RADIX2, offset_mid |-> (handler \div RADIX2) % RADIX2,
   offset_high |-> (handler \div RADIX4) % RADIX4, selector |-> selector, ist |-> ist,
   present |-> TRUE, dpl |-> dpl, type |-> gate_type]

NullIdtEntry ==
  [offset_low |-> 0, offset_mid |-> 0, offset_high |-> 0, selector |-> 0, ist |-> 0,
   present |-> FALSE, dpl |-> 0, type |-> "none"]

KERNEL_CODE_SELECTOR == 8
KERNEL_DATA_SELECTOR == 16
USER_CODE_SELECTOR   == 24 + 3
USER_DATA_SELECTOR   == 32 + 3
TSS_SELECTOR         == 40

\* IdtEntry::set_handler on an entry that is still null.
set_handler(handler) == IdtEntry(handler, KERNEL_CODE_SELECTOR, 0, "interrupt", 0)

\* The slots of the GDT from null on; the one of the TSS is a double slot.
Gdt == <<null, code, data, user_code, user_data>>
SizeOfGdt == 8 * Len(Gdt) + 16

\* The boot stub's table has only the first three.
SizeOfBootGdt == 24

----------------------------------------------------------------------------
(* What arch::x86_64::init does, instruction by instruction.               *)

\* Where the handler of a vector is.
Handler(v) == layout.code + 16 * v

\* Vectors with a handler.
Handled == (0 .. 8) \cup (10 .. 14) \cup (16 .. 20) \cup (32 .. 47) \cup {128}

\* The table idt::init fills.
idt_entries ==
  [v \in 0 .. 255 |->
     CASE v = 8 -> IdtEntry(Handler(v), KERNEL_CODE_SELECTOR, 1, "interrupt", 0)
       [] v = 128 -> IdtEntry(Handler(v), KERNEL_CODE_SELECTOR, 0, "trap", 3)
       [] v \in Handled \ {8, 128} -> set_handler(Handler(v))
       [] OTHER -> NullIdtEntry]

\* Mutant: a word past the end.
StackPointer_past(first, len) == first + len + 8

\* &STACK[STACK.len() - 1]
StackPointer(first, len) == first + len - 1

\* Mutant: interrupts are enabled in front.
arch_init_early_sti ==
  <<"stacks", "sti", "tss_entry", "lgdt", "cs", "ss", "ltr", "entries", "lidt", "pic">>

\* gdt::init, idt::init, enable_interrupts
arch_init ==
  <<"stacks", "tss_entry", "lgdt", "cs", "ss", "ltr", "entries", "lidt", "pic", "sti">>

NoCause == [kind |-> "none", n |-> 0]

\* The registers that are pushed, and all registers.
Push15 == <<"rax", "rbx", "rcx", "rdx", "rsi", "rdi", "rbp", "r8", "r9", "r10", "r11",
            "r12", "r13", "r14", "r15">>
Regs == ToSet(Push15)

\* As the boot stub leaves them.
SegmentsInit ==
  /\ layout \in Layouts
  /\ next = 1
  /\ TSS = [rsps |-> [i \in 1 .. 3 |-> 0], ists |-> [i \in 1 .. 7 |-> 0]]
  /\ IDT = [v \in 0 .. 255 |-> NullIdtEntry]
  /\ tss_entry = NullTssEntry
  /\ gdtr = SizeOfBootGdt - 1 /\ tr = [base |-> 0, limit |-> -1] /\ idtr = -1
  /\ pic = FALSE
  /\ cpu = [cs |-> KERNEL_CODE_SELECTOR, ss |-> KERNEL_DATA_SELECTOR,
            rsp |-> layout.boot_stack, rip |-> [at |-> -1, step |-> 0],
            iflag |-> FALSE, regs |-> [r \in Regs |-> r]]
  /\ mem = << >>
  /\ saved = << >> /\ shutdown = NoCause /\ events = 0

\* One instruction of the main flow.
Setup(op) ==
  /\ next <= Len(arch_init) /\ arch_init[next] = op
  /\ saved = << >> /\ shutdown = NoCause
  /\ next' = next + 1
  /\ UNCHANGED <<layout, mem, saved, shutdown, events>>

SetStacks ==
  /\ Setup("stacks")
  /\ TSS' = [TSS EXCEPT !.rsps[1] = StackPointer(layout.kernel_stack, KERNEL_STACK_LEN),
                        !.ists[1] = StackPointer(layout.ist_stack0, IST_STACK0_LEN)]
  /\ UNCHANGED <<IDT, tss_entry, gdtr, tr, idtr, pic, cpu>>

SetTssEntry ==
  /\ Setup("tss_entry")
  /\ tss_entry' = TssEntry(layout.tss, SizeOfTss - 1)
  /\ UNCHANGED <<TSS, IDT, gdtr, tr, idtr, pic, cpu>>

load_gdt ==
  /\ Setup("lgdt")
  /\ gdtr' = SizeOfGdt - 1
  /\ UNCHANGED <<TSS, IDT, tss_entry, tr, idtr, pic, cpu>>

\* reload_segments: retfq, then the data segments.
ReloadCode ==
  /\ Setup("cs")
  /\ cpu' = [cpu EXCEPT !.cs = KERNEL_CODE_SELECTOR]
  /\ UNCHANGED <<TSS, IDT, tss_entry, gdtr, tr, idtr, pic>>

ReloadData ==
  /\ Setup("ss")
  /\ cpu' = [cpu EXCEPT !.ss = KERNEL_DATA_SELECTOR]
  /\ UNCHANGED <<TSS, IDT, tss_entry, gdtr, tr, idtr, pic>>

\* ltr puts together what TssEntry::new took apart.
Joined(e) ==
  e.base_low + e.base_mid * RADIX2 + e.base_high * RADIX3 + e.base_upper * RADIX4

load_tss ==
  /\ Setup("ltr")
  /\ tss_entry.flags1 = 137 /\ TSS_SELECTOR + 15 <= gdtr
  /\ tr' = [base |-> Joined(tss_entry), limit |-> tss_entry.length]
  /\ UNCHANGED <<TSS, IDT, tss_entry, gdtr, idtr, pic, cpu>>

SetEntries ==
  /\ Setup("entries")
  /\ IDT' = idt_entries
  /\ UNCHANGED <<TSS, tss_entry, gdtr, tr, idtr, pic, cpu>>

LoadIdt ==
  /\ Setup("lidt")
  /\ idtr' = 256 * 16 - 1
  /\ UNCHANGED <<TSS, IDT, tss_entry, gdtr, tr, pic, cpu>>

init_pic ==
  /\ Setup("pic")
  /\ pic' = TRUE
  /\ UNCHANGED <<TSS, IDT, tss_entry, gdtr, tr, idtr, cpu>>

enable_interrupts ==
  /\ Setup("sti")
  /\ cpu' = [cpu EXCEPT !.iflag = TRUE]
  /\ UNCHANGED <<TSS, IDT, tss_entry, gdtr, tr, idtr, pic>>

\* A program starts, in ring 3 on a stack of its own.  (The kernel has the
\* segments and the gate for it, and no code yet that does so.)
EnterUser ==
  /\ next > Len(arch_init) /\ saved = << >> /\ shutdown = NoCause
  /\ cpu.cs = KERNEL_CODE_SELECTOR
  /\ cpu' = [cpu EXCEPT !.cs = USER_CODE_SELECTOR, !.ss = USER_DATA_SELECTOR,
                        !.rsp = layout.user_stack]
  /\ UNCHANGED <<tables, next, mem, saved, shutdown, events>>

----------------------------------------------------------------------------
(* The processor.                                                          *)

Rpl(selector) == selector % 4
Cpl == Rpl(cpu.cs)

\* The descriptor of a selector, if the table that is loaded has it.
Descriptor(selector) ==
  IF (selector \div 8) * 8 + 7 <= gdtr /\ selector \div 8 < Len(Gdt)
  THEN Gdt[selector \div 8 + 1] ELSE null

\* A code segment a gate may lead to.
IsCode(d) == {"PRESENT", "DESCRIPTOR", "EXECUTABLE"} \subseteq d.access
               /\ "LONG_MODE" \in d.granularity
Dpl(d) == IF "PRIV_RING3" \in d.access THEN 3 ELSE 0

\* A word of the TSS, from where tr says it is: RSP0 at 4, the ISTs from 36.
InTss(offset) == tr.base = layout.tss /\ offset + 7 <= tr.limit
FieldAt(offset) ==
  CASE offset \in RspsAt .. RspsAt + 23 -> TSS.rsps[(offset - RspsAt) \div 8 + 1]
    [] offset \in IstsAt .. IstsAt + 55 -> TSS.ists[(offset - IstsAt) \div 8 + 1]
    [] OTHER -> 0

Switches(gate) == gate.ist # 0 \/ Cpl # 0
StackOffset(gate) == IF gate.ist # 0 THEN 36 + 8 * (gate.ist - 1) ELSE 4

\* The gate of a vector can be gone through.
Deliverable(v, by_int) ==
  LET gate == IDT[v]
      target == Descriptor(gate.selector)
  IN  /\ 16 * v + 15 <= idtr
      /\ gate.present
      /\ by_int => gate.dpl >= Cpl
      /\ IsCode(target) /\ Dpl(target) <= Cpl
      /\ Switches(gate) => InTss(StackOffset(gate))

\* Otherwise there is a general protection fault, or a double fault.
NoVector == -1
Taken(v, by_int) ==
  IF Deliverable(v, by_int) THEN v
  ELSE IF Deliverable(13, FALSE) THEN 13
  ELSE IF Deliverable(8, FALSE) THEN 8 ELSE NoVector

\* Exceptions that push an error code.
HasErrorCode == {8, 10, 11, 12, 13, 14, 17}

\* Words are pushed below sp, the first one highest.
Push(sp, words) ==
  LET at == {sp - 8 * i : i \in DOMAIN words}
  IN  [a \in DOMAIN mem \cup at |-> IF a \in at THEN words[(sp - a) \div 8] ELSE mem[a]]

Enter(cause, v, error) ==
  LET gate == IDT[v]
      old == IF Switches(gate) THEN FieldAt(StackOffset(gate)) ELSE cpu.rsp
      sp == (old \div 16) * 16
      frame == <<cpu.ss, cpu.rsp, cpu.iflag, cpu.cs, cpu.rip>>
                 \o (IF error THEN <<"error">> ELSE << >>)
  IN  /\ mem' = Push(sp, frame)
      /\ cpu' = [cpu EXCEPT
           !.cs = gate.selector, !.ss = IF Cpl # 0 THEN 0 ELSE @,
           !.rsp = sp - 8 * Len(frame), !.iflag = @ /\ gate.type = "trap",
           !.rip = [at |-> gate.offset_low + gate.offset_mid * RADIX2
                             + gate.offset_high * RADIX4,
                    step |-> 0]]
      /\ saved' = Append(saved, [cause |-> cause, cpu |-> cpu])

\* A vector arrives: a handler is entered, or the machine resets.
Arrive(cause, v, by_int) ==
  /\ shutdown = NoCause /\ events < MaxEvents
  /\ events' = events + 1
  /\ LET u == Taken(v, by_int)
         fails == ~ Deliverable(v, by_int)
     IN  IF u = NoVector
         THEN shutdown' = cause /\ UNCHANGED <<cpu, mem, saved>>
         ELSE /\ Enter(cause, u, u \in HasErrorCode /\ (fails \/ cause.kind = "exception"))
              /\ UNCHANGED shutdown
  /\ UNCHANGED <<tables, next>>

Cause(kind, n) == [kind |-> kind, n |-> n]

Exception == \E v \in Exceptions : Arrive(Cause("exception", v), v, FALSE)

\* The vector is the PIC's choice.
Interrupt ==
  /\ cpu.iflag
  /\ \E irq \in Irqs :
       Arrive(Cause("irq", irq),
              IF pic THEN 32 + irq ELSE IF irq < 8 THEN 8 + irq ELSE 104 + irq, FALSE)

\* A program executes int n.
SoftwareInterrupt == Cpl = 3 /\ \E n \in Ints : Arrive(Cause("int", n), n, TRUE)

----------------------------------------------------------------------------
(* The entry code of the handlers.                                         *)

\* Handlers made by exception_with_error, and page_fault.
WithError == {8, 10, 11, 12, 13, 14, 17}

\* The handler that runs: the one whose code is there.
Running == {v \in Handled : saved # << >> /\ cpu.rip.at = Handler(v)}
AtStep(vs, step) == Running \cap vs # {} /\ cpu.rip.step = step /\ shutdown = NoCause

Goto(step) == [at |-> cpu.rip.at, step |-> step]

\* Mutant: two registers change places.
pushed_regs_swapped ==
  [i \in DOMAIN Push15 |->
     cpu.regs[CASE i = 8 -> "r9" [] i = 9 -> "r8" [] OTHER -> Push15[i]]]

pushed_regs == [i \in DOMAIN Push15 |-> cpu.regs[Push15[i]]]

\* push_regs!, at the start of every handler.
push_regs ==
  /\ AtStep(Handled, 0)
  /\ mem' = Push(cpu.rsp, pushed_regs)
  /\ cpu' = [cpu EXCEPT !.rsp = @ - 8 * Len(Push15), !.rip = Goto(1)]
  /\ UNCHANGED <<tables, next, saved, shutdown, events>>

\* An exception's inner function gets the address of the frame, logs and
\* halts.
Inner ==
  /\ AtStep(0 .. 31, 1)
  /\ cpu' = [cpu EXCEPT !.regs["rdi"] = cpu.rsp, !.iflag = FALSE, !.rip = Goto(2)]
  /\ UNCHANGED <<tables, next, mem, saved, shutdown, events>>

\* irq_common_handler may change what the calling convention lets it change.
Scratch == {"rax", "rcx", "rdx", "rsi", "rdi", "r8", "r9", "r10", "r11"}

IrqHandler ==
  /\ AtStep(32 .. 47, 1)
  /\ cpu' = [cpu EXCEPT
       !.regs = [r \in Regs |-> IF r \in Scratch THEN "scratch" ELSE @[r]],
       !.rip = Goto(2)]
  /\ UNCHANGED <<tables, next, mem, saved, shutdown, events>>

\* syscall_handler does nothing yet.
SyscallHandler ==
  /\ AtStep({128}, 1)
  /\ cpu' = [cpu EXCEPT !.rip = Goto(2)]
  /\ UNCHANGED <<tables, next, mem, saved, shutdown, events>>

\* Mutant: two registers change places.
popped_regs_swapped == [Reverse(Push15) EXCEPT ![10] = "rsi", ![11] = "rdi"]

popped_regs == Reverse(Push15)

\* pop_regs!
pop_regs ==
  /\ AtStep(32 .. 128, 2)
  /\ cpu' = [cpu EXCEPT
       !.regs = [r \in Regs |->
                   LET i == CHOOSE i \in DOMAIN popped_regs : popped_regs[i] = r
                   IN  mem[cpu.rsp + 8 * (i - 1)]],
       !.rsp = @ + 8 * Len(popped_regs), !.rip = Goto(3)]
  /\ UNCHANGED <<tables, next, mem, saved, shutdown, events>>

\* iretq
Return ==
  /\ AtStep(32 .. 128, 3)
  /\ LET word(i) == mem[cpu.rsp + 8 * i]
     IN  cpu' = [cpu EXCEPT !.rip = word(0), !.cs = word(1), !.iflag = word(2),
                            !.rsp = word(3), !.ss = word(4)]
  /\ saved' = Front(saved)
  /\ UNCHANGED <<tables, next, mem, shutdown, events>>

----------------------------------------------------------------------------
ArchInit ==
  \/ SetStacks \/ SetTssEntry \/ load_gdt \/ ReloadCode \/ ReloadData \/ load_tss
  \/ SetEntries \/ LoadIdt \/ init_pic \/ enable_interrupts

EntryCode == push_regs \/ Inner \/ IrqHandler \/ SyscallHandler \/ pop_regs \/ Return

SegmentsNext ==
  \/ ArchInit \/ EnterUser \/ EntryCode \/ Exception \/ Interrupt \/ SoftwareInterrupt

SegmentsSpec == SegmentsInit /\ [][SegmentsNext]_segmentVars

----------------------------------------------------------------------------
(* Properties.                                                             *)

Innermost == Last(saved)

\* The handler the code has for an event: programs get general_protection for
\* the gates they may not use, as does a vector without a handler.
Meant(cause) ==
  CASE cause.kind = "irq" -> 32 + cause.n
    [] cause.kind = "exception" -> IF cause.n \in Handled THEN cause.n ELSE 13
    [] cause.kind = "int" -> IF cause.n = 128 THEN 128 ELSE 13

\* Once the tables are loaded whatever arrives, from any ring, ends up in its
\* own handler, at the address its gate was built from; the machine resets
\* only for an exception during gdt::init or idt::init.
HandledAfterSetup ==
  /\ shutdown # NoCause => shutdown.kind = "exception" /\ idtr = -1
  /\ saved # << >> => cpu.rip.at = Handler(Meant(Innermost.cause))

\* InterruptFrame and InterruptFrameWithError, field by field.
Fields(v) ==
  Reverse(Push15) \o (IF v \in WithError THEN <<"error_code">> ELSE << >>)
    \o <<"rip", "cs", "rflags", "rsp", "ss">>

\* The stack handlers run on: IST_STACK0 from a double fault on, KERNEL_STACK
\* when a program was interrupted, else the stack of the main flow.
StackInUse ==
  LET stack(first, len) == [first |-> first, len |-> len]
  IN  IF \E i \in DOMAIN saved : Meant(saved[i].cause) = 8
      THEN stack(layout.ist_stack0, IST_STACK0_LEN)
      ELSE IF \E i \in DOMAIN saved : Rpl(saved[i].cpu.cs) = 3
      THEN stack(layout.kernel_stack, KERNEL_STACK_LEN)
      ELSE stack(layout.boot_stack - BOOT_STACK_LEN, BOOT_STACK_LEN)

\* Bytes of the frame of the handler that runs: without the registers before
\* push_regs! and after pop_regs!.
FrameLen ==
  8 * (Len(Fields(Meant(Innermost.cause)))
         - IF cpu.rip.step \in {1, 2} THEN 0 ELSE Len(Push15))

\* An entry takes a handler's 15 registers, up to 6 words and 15 bytes to
\* align them.
DeepestFrame == 8 * 15 + 8 * 6 + 15

\* The stack pointers in the TSS are addresses of last bytes, of arrays that
\* need not be aligned: all the same every byte of the frame of the handler
\* that runs, from the first word the processor pushed to the last register,
\* lies inside the stack it is meant for, for as many handlers inside each
\* other as that stack has room for.
FramesInStacks ==
  saved # << >> /\ DeepestFrame * Len(saved) < StackInUse.len =>
    /\ StackInUse.first <= cpu.rsp
    /\ cpu.rsp + FrameLen <= StackInUse.first + StackInUse.len

\* An exception's report shows the registers, the code address and the stack
\* of the context that was interrupted: the inner function finds each of them
\* where its type of frame has it, with or without an error code in between.
ReportIsTrue ==
  AtStep(0 .. 31, 2) =>
    LET f == Fields(CHOOSE v \in Running : TRUE)
        was == Innermost.cpu
        value(i) == mem[cpu.regs["rdi"] + 8 * (i - 1)]
    IN  \A i \in DOMAIN f :
          value(i) = CASE f[i] = "error_code" -> "error"
                       [] f[i] = "rip" -> was.rip
                       [] f[i] = "cs" -> was.cs
                       [] f[i] = "rflags" -> was.iflag
                       [] f[i] = "rsp" -> was.rsp
                       [] f[i] = "ss" -> was.ss
                       [] OTHER -> was.regs[f[i]]

\* A handler that returns leaves the context it interrupted exactly as it
\* was, registers, stack, ring and interrupt flag, also when the trap gate of
\* a system call let an interrupt in.
Resumes == [][Return => cpu' = Innermost.cpu]_segmentVars
=============================================================================
