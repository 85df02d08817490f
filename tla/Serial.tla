------------------------------- MODULE Serial -------------------------------
(***************************************************************************)
(* The serial port and the log written to it: arch/x86_64/serial.rs and    *)
(* logging.rs, with the port (Uart) running beside the processor.  Lines   *)
(* are logged before the port is initialised, by the main flow afterwards, *)
(* and by an interrupt handler at any moment once interrupts are on.       *)
(*                                                                         *)
(* A context is at a position of its program, one operation of the code    *)
(* each; a context that waits does nothing.                                *)
(***************************************************************************)
EXTENDS Uart, FiniteSets, SequencesExt

CONSTANTS
  Early,      \* lines the main flow logs before serial::init
  Late,       \* lines it logs after enabling interrupts
  Handler,    \* lines an interrupt handler logs
  Level,      \* the level passed to logging::init, Trace (5) in the code
  Input,      \* bytes the far end sends, in order
  Byte,       \* the bytes of lines and of input
  MaxIrqs     \* bound: interrupts

LOOPBACK_TEST_BYTE == "AE"

\* A line is [level, text].  The lines of kprintln! and serial_print!, which no
\* level holds back, have level 0; the first early line is the one
\* set_log_level logs itself.
Lines == [level : 0 .. 5, text : Seq(Byte \ {"CR"})]

\* What the kernel logs before serial::init is ASCII.
ASSUME SerialAssumption ==
  /\ Level \in 0 .. 5 /\ MaxIrqs \in Nat
  /\ {"CR", "LF"} \subseteq Byte
  /\ Early \in Seq(Lines) /\ Late \in Seq(Lines) /\ Handler \in Seq(Lines)
  /\ \A i \in DOMAIN Early : LOOPBACK_TEST_BYTE \notin ToSet(Early[i].text)
  /\ Input \in Seq(Byte)

VARIABLES
  uart,       \* the registers of COM1
  log_level,  \* LOGGER.log_level_int
  at,         \* the position of each context in its program
  running,    \* the context that runs
  owner,      \* who has SERIAL: "none", "init", or the context writing a line
  line,       \* what is left of the text of that line
  cr,         \* the CR in front of the next LF is written
  iflag,      \* interrupts are enabled
  irqs,       \* interrupts so far
  input,      \* what the far end has still to send
  ready,      \* history: serial::init is over
  said,       \* history: the lines logged since then at an enabled level
  wire,       \* history: bytes put on the line since then
  lost,       \* history: bytes of lines that the far end did not get once
              \* serial::init had begun: dropped, cleared, garbled or looped back
  heard,      \* history: bytes received from the far end
  taken       \* history: bytes read_byte has returned

portVars == <<uart, log_level, at, running, owner, line, cr, iflag, irqs, input, ready,
              said, wire, lost, heard, taken>>

----------------------------------------------------------------------------
(* The programs.                                                           *)

Op(op, arg, val) == [op |-> op, arg |-> arg, val |-> val]
Out(reg, val) == Op("out", reg, val)
Do(op) == Op(op, 0, 0)

disable_interrupts == <<Out("IER", 0)>>

set_baud == <<Out("LCR", LCR_DLAB), Out("DATA", 1), Out("IER", 0)>>

configure_line == <<Out("LCR", LCR_8N1)>>

configure_fifo == <<Out("FCR", 0)>>

\* Mutant: loopback mode is not left.
loopback_test_stays ==
  <<Out("MCR", TRUE), Out("DATA", LOOPBACK_TEST_BYTE), Do("test"), Out("MCR", TRUE)>>

\* The test byte is read back at once; see Test.
loopback_test ==
  <<Out("MCR", TRUE), Out("DATA", LOOPBACK_TEST_BYTE), Do("test"), Out("MCR", FALSE)>>

\* Serial::init
Serial_init ==
  disable_interrupts \o set_baud \o configure_line \o configure_fifo \o loopback_test

Log(l) == Op("log", 0, l)
Logs(lines) == [i \in DOMAIN lines |-> Log(lines[i])]

\* The panic handler.
Panic == <<Log([level |-> 1, text |-> <<"LF">>]), Do("hlt")>>

\* logging::init, arch::init with serial::init and enable_interrupts, and
\* what follows; somebody reads bytes in the end.  The panic handler comes
\* last, where only a failed self-test leads.
Main ==
  <<Op("set_level", 0, Level)>> \o Logs(Early)
    \o <<Do("lock")>> \o Serial_init \o <<Do("unlock"), Do("sti")>>
    \o Logs(Late) \o <<Do("read"), Do("read"), Do("hlt")>> \o Panic

PanicAt == Len(Main) - 1

\* An interrupt handler.
Irq == Logs(Handler) \o <<Do("iretq")>>

\* Mutant: carriage returns are left to the terminal.
write_string_raw(text, with_cr) == [byte |-> Head(text), rest |-> Tail(text), cr |-> FALSE]

\* Serial::write_string: the byte that is next, LF being CR LF, and what is
\* left after it.
write_string(text, with_cr) ==
  IF Head(text) = "LF" /\ ~ with_cr
  THEN [byte |-> "CR", rest |-> text, cr |-> TRUE]
  ELSE [byte |-> Head(text), rest |-> Tail(text), cr |-> FALSE]

\* SerialLogger::enabled
enabled(l) == l.level <= log_level

----------------------------------------------------------------------------
\* What the firmware left: any speed, FIFOs on or off.
PortInit ==
  /\ uart \in [lcr : {LCR_8N1}, baud : {<<1, 0>>, <<12, 0>>}, fifo : BOOLEAN,
               loop : {FALSE}, ier : {0}, thr : {<< >>}, tsr : {<< >>}, rx : {<< >>}]
  /\ log_level = 3
  /\ at = [main |-> 1, irq |-> 1]
  /\ running = "main" /\ owner = "none" /\ line = << >> /\ cr = FALSE
  /\ iflag = FALSE /\ irqs = 0
  /\ input = Input
  /\ ready = FALSE /\ said = << >> /\ wire = << >> /\ lost = << >>
  /\ heard = << >> /\ taken = << >>

This == IF running = "main" THEN Main[at.main] ELSE Irq[at.irq]
Doing(op) == This.op = op
Goto(i) == at' = [at EXCEPT ![running] = i]
Continue == Goto(at[running] + 1)

\* LOGGER.set_log_level
SetLevel ==
  /\ Doing("set_level")
  /\ log_level' = This.val
  /\ Continue
  /\ UNCHANGED <<uart, running, owner, line, cr, iflag, irqs, input, ready, said, wire,
                 lost, heard, taken>>

\* SerialLogger::log: nothing, or the line once SERIAL is free.
LogLine ==
  /\ Doing("log") /\ owner # running
  /\ IF enabled(This.val)
     THEN owner = "none" /\ owner' = running /\ line' = This.val.text /\ UNCHANGED at
     ELSE Continue /\ UNCHANGED <<owner, line>>
  /\ said' = IF ready /\ This.val.level <= Level THEN said \o This.val.text ELSE said
  /\ UNCHANGED <<uart, log_level, running, cr, iflag, irqs, input, ready, wire, lost,
                 heard, taken>>

\* The end of SerialLogger::log, where its guard is dropped.
LogEnd ==
  /\ owner = running /\ line = << >>
  /\ owner' = "none"
  /\ Continue
  /\ UNCHANGED <<uart, log_level, running, line, cr, iflag, irqs, input, ready, said,
                 wire, lost, heard, taken>>

\* SERIAL.lock() of serial::init
Acquire ==
  /\ Doing("lock") /\ owner = "none"
  /\ owner' = "init"
  /\ Continue
  /\ UNCHANGED <<uart, log_level, running, line, cr, iflag, irqs, input, ready, said,
                 wire, lost, heard, taken>>

\* Its end.
Release ==
  /\ Doing("unlock")
  /\ owner' = "none" /\ ready' = TRUE
  /\ Continue
  /\ UNCHANGED <<uart, log_level, running, line, cr, iflag, irqs, input, said, wire,
                 lost, heard, taken>>

\* outb
Write(reg, val) ==
  /\ uart' = Outb(uart, reg, val).uart
  /\ lost' = lost \o Outb(uart, reg, val).lost

OutStep ==
  /\ Doing("out")
  /\ Write(This.arg, This.val)
  /\ Continue
  /\ UNCHANGED <<log_level, running, owner, line, cr, iflag, irqs, input, ready, said,
                 wire, heard, taken>>

\* Mutants: as long as the FIFO is not full; with the test inverted.
MayWrite_room == Len(uart.thr) < Room(uart)
MayWrite_inverted == ~ THR_EMPTY(uart)

\* The loop of write_byte ends.
MayWrite == THR_EMPTY(uart)

write_byte ==
  /\ owner = running /\ line # << >> /\ MayWrite
  /\ LET next == write_string(line, cr)
     IN  Write("DATA", next.byte) /\ line' = next.rest /\ cr' = next.cr
  /\ UNCHANGED <<log_level, at, running, owner, iflag, irqs, input, ready, said, wire,
                 heard, taken>>

\* The end of loopback_test: whatever is in the data register by now counts.
Test ==
  /\ Doing("test")
  /\ Goto(IF Inb(uart) = LOOPBACK_TEST_BYTE THEN at[running] + 1 ELSE PanicAt)
  /\ uart' = AfterInb(uart)
  /\ UNCHANGED <<log_level, running, owner, line, cr, iflag, irqs, input, ready, said,
                 wire, lost, heard, taken>>

read_byte ==
  /\ Doing("read")
  /\ taken' = IF DATA_READY(uart) THEN Append(taken, Inb(uart)) ELSE taken
  /\ uart' = AfterInb(uart)
  /\ Continue
  /\ UNCHANGED <<log_level, running, owner, line, cr, iflag, irqs, input, ready, said,
                 wire, lost, heard>>

\* arch::enable_interrupts
EnableInterrupts ==
  /\ Doing("sti")
  /\ iflag' = TRUE
  /\ Continue
  /\ UNCHANGED <<uart, log_level, running, owner, line, cr, irqs, input, ready, said,
                 wire, lost, heard, taken>>

\* A handler runs to its end with interrupts off.
Interrupt ==
  /\ iflag /\ irqs < MaxIrqs
  /\ irqs' = irqs + 1
  /\ iflag' = FALSE
  /\ running' = "irq"
  /\ at' = [at EXCEPT !.irq = 1]
  /\ UNCHANGED <<uart, log_level, owner, line, cr, input, ready, said, wire, lost, heard,
                 taken>>

Return ==
  /\ Doing("iretq")
  /\ running' = "main"
  /\ iflag' = TRUE
  /\ UNCHANGED <<uart, log_level, at, owner, line, cr, irqs, input, ready, said, wire,
                 lost, heard, taken>>

Step ==
  \/ SetLevel \/ LogLine \/ LogEnd \/ Acquire \/ Release \/ OutStep \/ write_byte
  \/ Test \/ read_byte \/ EnableInterrupts \/ Return

\* Waiting for the lock.
Waits == Doing("log") /\ enabled(This.val) /\ owner \notin {"none", running}

\* Spinning, on the lock or on the status register, or halted.
Idle ==
  /\ Waits \/ (owner = running /\ line # << >> /\ ~ MayWrite) \/ Doing("hlt")
  /\ UNCHANGED portVars

----------------------------------------------------------------------------
(* The port and the far end.                                               *)

LoadStep ==
  /\ CanLoad(uart)
  /\ uart' = Load(uart)
  /\ UNCHANGED <<log_level, at, running, owner, line, cr, iflag, irqs, input, ready,
                 said, wire, lost, heard, taken>>

\* The byte of a line in the shift register goes nowhere, or not in the right
\* format; the speed the firmware left is not the code's.
Wasted ==
  /\ ready \/ owner = "init"
  /\ uart.loop \/ ~ uart.tsr[1].clear
  /\ uart.tsr[1].byte # LOOPBACK_TEST_BYTE

ShiftStep ==
  /\ CanShift(uart)
  /\ uart' = Shifted(uart)
  /\ wire' = IF ready /\ ~ uart.loop THEN wire \o uart.tsr ELSE wire
  /\ lost' = IF Wasted THEN Append(lost, uart.tsr[1].byte) ELSE lost
  /\ UNCHANGED <<log_level, at, running, owner, line, cr, iflag, irqs, input, ready,
                 said, heard, taken>>

\* The far end sends a byte; in loopback mode the line is cut off.
Arrive ==
  /\ input # << >>
  /\ input' = Tail(input)
  /\ uart' = IF uart.loop THEN uart ELSE Received(uart, Head(input))
  /\ heard' = IF uart' # uart THEN Append(heard, Head(input)) ELSE heard
  /\ UNCHANGED <<log_level, at, running, owner, line, cr, iflag, irqs, ready, said, wire,
                 lost, taken>>

Device == LoadStep \/ ShiftStep

PortNext == Step \/ Idle \/ Interrupt \/ Device \/ Arrive

\* The processor runs and the port transmits; nobody has to send anything.
PortSpec == PortInit /\ [][PortNext]_portVars /\ WF_portVars(Step) /\ WF_portVars(Device)

----------------------------------------------------------------------------
(* Properties.                                                             *)

\* What is on the line or in the transmitter since initialisation.
Output ==
  [i \in DOMAIN wire |-> wire[i].byte] \o [i \in DOMAIN uart.tsr |-> uart.tsr[i].byte]
    \o uart.thr

\* How many bytes of text the first i bytes of the output are.
TextUpTo(i) == Cardinality({j \in 1 .. i : Output[j] # "CR"})

\* Since initialisation every line at the requested level or below reaches
\* the line whole, in the order of the calls and in the right format, with
\* CR LF at its ends: no byte is dropped, none goes to a divisor latch or
\* back into the port, and no other line comes in between.  What was said is
\* the output without the CRs and the rest of the line being written.
LinesIntact ==
  ready =>
    /\ \A i \in DOMAIN wire : wire[i].clear
    /\ Len(said) = TextUpTo(Len(Output)) + Len(line)
    /\ \A i \in DOMAIN Output : Output[i] # "CR" => said[TextUpTo(i)] = Output[i]
    /\ \A i \in DOMAIN line : said[TextUpTo(Len(Output)) + i] = line[i]
    /\ \A i \in DOMAIN Output : Output[i] = "LF" => i > 1 /\ Output[i - 1] = "CR"

\* serial::init does not wait for the transmitter, so that it garbles, clears
\* or loops back what is on its way out; that costs at most two bytes of the
\* lines logged before, as write_byte never leaves more than one in the FIFO
\* and one in the shift register.
InitLosesTwoBytes == Len(lost) <= 2

\* read_byte returns what the far end sent since initialisation, in order:
\* neither the test byte nor what the kernel prints itself.
InputIsTheirs == ready => IsSuffix(taken \o uart.rx, heard)

\* In the end the main flow has got through all its lines and halts, unless
\* the self-test failed, whose panic waits for the lock of serial::init, or a
\* handler waits for the lock of the line it interrupted.
LinesEnd ==
  <>[](Doing("hlt") \/ (Waits /\ (running = "irq" \/ ~ ready)))
=============================================================================
