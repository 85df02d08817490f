-------------------------------- MODULE Uart --------------------------------
(***************************************************************************)
(* A 16550 serial port as the code of arch/x86_64/serial.rs meets it, as   *)
(* operators on the record of its registers.  Its transmitter has a FIFO   *)
(* (a single holding register while FIFOs are off) in front of a shift     *)
(* register; in loopback mode what is shifted out is received and the line *)
(* is cut off.  Modelled from how the driver uses it.                      *)
(***************************************************************************)
EXTENDS Integers, Sequences

CONSTANT FIFO_LEN   \* of the FIFOs, 16 in the device

ASSUME FifoAssumption == FIFO_LEN \in Nat \ {0}

\* Values of the line control register: DLAB, and the bits of a character.
LCR_8N1  == [dlab |-> FALSE, bits |-> 8]
LCR_DLAB == [dlab |-> TRUE, bits |-> 5]

\* A byte of the transmitter, and whether the receiver will understand it.
Sent(byte, clear) == [byte |-> byte, clear |-> clear]

\* The far end expects 115200 baud, 8N1.
Configured(u) == u.lcr = LCR_8N1 /\ u.baud = <<1, 0>>

\* How many bytes the transmitter holds besides the one being shifted.
Room(u) == IF u.fifo THEN FIFO_LEN ELSE 1

\* LSR_THR_EMPTY and LSR_DATA_READY
THR_EMPTY(u)  == u.thr = << >>
DATA_READY(u) == u.rx # << >>

\* Changing format or speed garbles what is on its way out.
Garbled(u) == [i \in DOMAIN u.tsr |-> Sent(u.tsr[i].byte, FALSE)]

\* outb to a register: the port it leaves, and the bytes that are lost.
Outb(u, reg, val) ==
  CASE reg = "DATA" /\ u.lcr.dlab ->
         [uart |-> [u EXCEPT !.baud[1] = val, !.tsr = Garbled(u)], lost |-> << >>]
    [] reg = "DATA" /\ ~ u.lcr.dlab /\ Len(u.thr) < Room(u) ->
         [uart |-> [u EXCEPT !.thr = Append(@, val)], lost |-> << >>]
    [] reg = "DATA" /\ ~ u.lcr.dlab /\ Len(u.thr) >= Room(u) ->
         [uart |-> u, lost |-> <<val>>]
    [] reg = "IER" /\ u.lcr.dlab ->
         [uart |-> [u EXCEPT !.baud[2] = val, !.tsr = Garbled(u)], lost |-> << >>]
    [] reg = "IER" /\ ~ u.lcr.dlab ->
         [uart |-> [u EXCEPT !.ier = val], lost |-> << >>]
    [] reg = "LCR" ->
         [uart |-> [u EXCEPT !.lcr = val, !.tsr = Garbled(u)], lost |-> << >>]
    [] reg = "FCR" ->  \* both FIFOs on and cleared
         [uart |-> [u EXCEPT !.fifo = TRUE, !.thr = << >>, !.rx = << >>], lost |-> u.thr]
    [] reg = "MCR" ->
         [uart |-> [u EXCEPT !.loop = val], lost |-> << >>]

\* The next byte moves into the shift register.
CanLoad(u) == u.thr # << >> /\ u.tsr = << >>
Load(u) == [u EXCEPT !.thr = Tail(@), !.tsr = <<Sent(Head(u.thr), Configured(u))>>]

\* A byte is received, if there is room for it.
Received(u, byte) ==
  IF Len(u.rx) < Room(u) THEN [u EXCEPT !.rx = Append(@, byte)] ELSE u

\* The shift register is emptied, onto the line or back into the port.
CanShift(u) == u.tsr # << >>
Shifted(u) ==
  IF u.loop THEN Received([u EXCEPT !.tsr = << >>],
                          IF u.tsr[1].clear THEN u.tsr[1].byte ELSE "noise")
  ELSE [u EXCEPT !.tsr = << >>]

\* inb of REG_DATA: the oldest byte received, or whatever was there before.
Inb(u) == IF DATA_READY(u) THEN Head(u.rx) ELSE "stale"
AfterInb(u) == IF DATA_READY(u) THEN [u EXCEPT !.rx = Tail(@)] ELSE u
=============================================================================
