---------------------------- MODULE SerialProofs ----------------------------
(***************************************************************************)
(* Proofs about Serial, for any lines that are logged, any input, FIFOs of *)
(* any depth and any number of interrupts.                                 *)
(*                                                                         *)
(* The invariant ties five things together: where each flow is and who has *)
(* the lock of SERIAL (LockFits), how the port is set up (PortFits), what   *)
(* was lost and may still be (LossFits), how much of the lines logged so   *)
(* far has gone out (OutputFits), and what of the input is where           *)
(* (HeardFits).  The last two need a self-test that only passes when its   *)
(* own byte came back (TestFits).                                          *)
(***************************************************************************)
EXTENDS Serial, SequenceTheorems, FiniteSetTheorems, TLAPS

----------------------------------------------------------------------------
(* The invariant of the serial port.                                       *)

\* Position k of the main flow, counted from the end of the early lines;
\* serial::init takes the lock at 2 and gives it back at 13.
P(k) == Len(Early) + k
HaltAt == PanicAt - 1

\* What can be in the port's receiver, and elsewhere.
Char == Byte \cup {LOOPBACK_TEST_BYTE, "noise"}

\* What is on its way out.
SentBytes == [byte : Char, clear : BOOLEAN]

\* The sequences of them, and the speeds.
Chars == Seq(Char)
Sending == Seq(SentBytes)
Speeds == {<<1, 0>>, <<12, 0>>}

UartType ==
  [lcr : {LCR_8N1, LCR_DLAB}, baud : Speeds, fifo : BOOLEAN, loop : BOOLEAN, ier : {0},
   thr : Chars, tsr : Sending, rx : Chars]

PortType ==
  /\ uart \in UartType /\ Len(uart.thr) <= 1 /\ Len(uart.tsr) <= 1
  /\ log_level \in 0 .. 5
  /\ at \in [main : 1 .. Len(Main), irq : 1 .. Len(Irq)]
  /\ line \in Seq(Byte \ {"CR"}) /\ cr \in BOOLEAN /\ iflag \in BOOLEAN
  /\ ready \in BOOLEAN /\ input \in Seq(Byte)
  /\ said \in Seq(Byte) /\ wire \in Seq(SentBytes)
  /\ lost \in Seq(Char) /\ heard \in Seq(Byte) /\ taken \in Seq(Char)

\* Who runs, and who has the lock.
LockFits ==
  /\ running \in {"main", "irq"} /\ owner \in {"none", "init", "main", "irq"}
  /\ running = "irq" => ready
  /\ iflag => ready /\ running = "main"
  /\ owner = "main" => Main[at.main].op = "log"
  /\ owner = "irq" => running = "irq" /\ Irq[at.irq].op = "log"
  /\ owner = "init" <=> at.main \in P(3) .. P(13) \cup PanicAt .. Len(Main)
  /\ owner \in {"none", "init"} => line = << >>
  /\ cr => line # << >>
  /\ ready <=> at.main \in P(14) .. HaltAt
  /\ at.main > 1 => log_level = Level
  /\ ~ ready => said = << >> /\ wire = << >> /\ taken = << >>

\* None of these bytes is the test byte.
Free(s) == \A i \in DOMAIN s : s[i] # LOOPBACK_TEST_BYTE
TestByteNotSent == Free(Input)

\* No byte that was logged early or sent by the far end is the test byte.
NoTestByte ==
  /\ Free(uart.rx) /\ Free(uart.thr) /\ Free(line)
  /\ \A i \in DOMAIN uart.tsr : uart.tsr[i].byte # LOOPBACK_TEST_BYTE

\* The first byte to read is not the test byte, nor will be.
Foul ==
  \/ uart.rx # << >> /\ Head(uart.rx) # LOOPBACK_TEST_BYTE
  \/ uart.rx = << >> /\ uart.tsr # << >> /\ uart.tsr[1].byte # LOOPBACK_TEST_BYTE

\* The test byte is all there is.
Clean ==
  \/ uart.rx = << >> /\ uart.tsr = << >> /\ uart.thr = <<LOOPBACK_TEST_BYTE>>
  \/ uart.rx = << >> /\ uart.tsr = <<Sent(LOOPBACK_TEST_BYTE, TRUE)>> /\ uart.thr = << >>
  \/ uart.rx = <<LOOPBACK_TEST_BYTE>> /\ uart.tsr = << >> /\ uart.thr = << >>

\* The port, from position to position of serial::init.
PortFits ==
  /\ at.main \in {P(9), P(10)} => uart.thr = << >>
  /\ at.main < PanicAt => (uart.lcr = LCR_DLAB <=> at.main \in P(5) .. P(7))
  /\ at.main < PanicAt => (uart.loop <=> at.main \in P(10) .. P(12))
  /\ at.main \in P(6) .. HaltAt => uart.baud = <<1, 0>>
  /\ at.main \in P(9) .. HaltAt => uart.fifo

\* The byte being shifted may still be lost.
Owed ==
  IF \/ uart.tsr = << >> \/ uart.tsr[1].byte = LOOPBACK_TEST_BYTE
     \/ ready /\ uart.tsr[1].clear
  THEN 0 ELSE 1

\* What was lost so far, and what can be lost yet: up to the reset of the FIFOs
\* all that the transmitter holds, later what is in the shift register.
LossFits ==
  /\ at.main <= P(2) => lost = << >>
  /\ at.main <= P(10) => Len(lost) + Len(uart.thr) + Len(uart.tsr) <= 2
  /\ at.main > P(10) => Len(lost) + Owed <= 2
  /\ at.main > P(10) /\ ~ ready => uart.thr \in {<< >>, <<LOOPBACK_TEST_BYTE>>}

\* The self-test, if the far end does not send the test byte.
TestFits ==
  /\ Free(input)
  /\ at.main <= P(10) => NoTestByte
  /\ at.main = P(11) => Foul \/ Clean
  /\ at.main \in {P(12), P(13)} => uart.thr = << >> /\ uart.tsr = << >>
  /\ at.main = P(12) => uart.rx = << >>

\* What was received since initialisation.
HeardFits ==
  at.main \in P(13) .. HaltAt => \E h \in Seq(Char) : heard = h \o (taken \o uart.rx)

\* How many of the first i bytes of o are text; what was said, s, is the text
\* of o and then l; o ends in the CR of the LF that is next in l.
Upto(o, i) == Cardinality({j \in 1 .. i : o[j] # "CR"})

Spoken(o, s, l) ==
  /\ Len(s) = Upto(o, Len(o)) + Len(l)
  /\ \A i \in DOMAIN o : o[i] # "CR" => s[Upto(o, i)] = o[i]
  /\ \A i \in DOMAIN l : s[Upto(o, Len(o)) + i] = l[i]
  /\ \A i \in DOMAIN o : o[i] = "LF" => i > 1 /\ o[i - 1] = "CR"

Ended(o, l) == o # << >> /\ o[Len(o)] = "CR" /\ l # << >> /\ Head(l) = "LF"

\* What was written since initialisation.
OutputFits ==
  ready =>
    /\ \A i \in DOMAIN wire : wire[i].clear
    /\ \A i \in DOMAIN uart.tsr : uart.tsr[i].clear
    /\ Spoken(Output, said, line)
    /\ cr => Ended(Output, line)

Typed == PortType /\ LockFits /\ PortFits

----------------------------------------------------------------------------
(* The programs, by position.                                              *)

PanicLine == [level |-> 1, text |-> <<"LF">>]
Ops ==
  {Log(l) : l \in Lines} \cup {Op("set_level", 0, Level)}
    \cup {Do("lock"), Do("unlock"), Do("sti"), Do("read"), Do("hlt"), Do("iretq"), Do("test")}
    \cup {Out("IER", 0), Out("LCR", LCR_DLAB), Out("DATA", 1), Out("LCR", LCR_8N1),
          Out("FCR", 0), Out("MCR", TRUE), Out("DATA", LOOPBACK_TEST_BYTE), Out("MCR", FALSE)}

\* r is s followed by t.
Chained(S, r, s, t) ==
  /\ r \in Seq(S) /\ Len(r) = Len(s) + Len(t)
  /\ \A i \in 1 .. Len(s) : r[i] = s[i]
  /\ \A i \in 1 .. Len(t) : r[Len(s) + i] = t[i]

\* The elements of a concatenation, by position.
LEMMA ConcatAt == \A S : \A s, t \in Seq(S) : Chained(S, s \o t, s, t)
<1> SUFFICES ASSUME NEW S, NEW s \in Seq(S), NEW t \in Seq(S)
             PROVE  Chained(S, s \o t, s, t)
  OBVIOUS
<1>1. Len(s) \in Nat /\ Len(t) \in Nat
  BY LenProperties
<1>2. /\ s \o t \in Seq(S) /\ Len(s \o t) = Len(s) + Len(t)
      /\ \A i \in 1 .. Len(s) + Len(t) :
           (s \o t)[i] = IF i <= Len(s) THEN s[i] ELSE t[i - Len(s)]
  BY ConcatProperties
<1> QED
  BY <1>1, <1>2 DEF Chained

\* The lines of a list are logged one by one.
LEMMA LogsAre ==
  ASSUME NEW lines \in Seq(Lines)
  PROVE  /\ Logs(lines) \in Seq(Ops) /\ Len(Logs(lines)) = Len(lines) /\ Len(lines) \in Nat
         /\ \A i \in 1 .. Len(lines) : lines[i] \in Lines /\ Logs(lines)[i] = Log(lines[i])
<1>1. Len(lines) \in Nat /\ DOMAIN lines = 1 .. Len(lines) /\ \A i \in 1 .. Len(lines) : lines[i] \in Lines
  BY LenProperties, ElementOfSeq
<1>2. Logs(lines) = [i \in 1 .. Len(lines) |-> Log(lines[i])]
  BY <1>1 DEF Logs
<1>3. \A i \in 1 .. Len(lines) : Log(lines[i]) \in Ops
  BY <1>1 DEF Ops
<1> QED
  BY <1>1, <1>2, <1>3, IsASeq

\* A function on 1 .. n is a sequence.
LEMMA FunctionIsSeq ==
  ASSUME NEW S, NEW n \in Nat, NEW f \in [1 .. n -> S]
  PROVE  f \in Seq(S) /\ Len(f) = n
  OBVIOUS

\* Short sequences.
LEMMA Tuples ==
  ASSUME NEW S, NEW a \in S, NEW b \in S, NEW c \in S, NEW d \in S
  PROVE  /\ <<a>> \in Seq(S) /\ Len(<<a>>) = 1 /\ <<a>>[1] = a
         /\ <<a, b>> \in Seq(S) /\ Len(<<a, b>>) = 2 /\ <<a, b>>[1] = a /\ <<a, b>>[2] = b
         /\ <<a, b, c>> \in Seq(S) /\ Len(<<a, b, c>>) = 3
         /\ <<a, b, c>>[1] = a /\ <<a, b, c>>[2] = b /\ <<a, b, c>>[3] = c
         /\ <<a, b, c, d>> \in Seq(S) /\ Len(<<a, b, c, d>>) = 4
         /\ <<a, b, c, d>>[1] = a /\ <<a, b, c, d>>[2] = b
         /\ <<a, b, c, d>>[3] = c /\ <<a, b, c, d>>[4] = d
  OBVIOUS

\* The operations of Serial::init.
LEMMA InitOps ==
  /\ Serial_init \in Seq(Ops) /\ Len(Serial_init) = 10
  /\ Serial_init[1] = Out("IER", 0) /\ Serial_init[2] = Out("LCR", LCR_DLAB)
  /\ Serial_init[3] = Out("DATA", 1) /\ Serial_init[4] = Out("IER", 0)
  /\ Serial_init[5] = Out("LCR", LCR_8N1) /\ Serial_init[6] = Out("FCR", 0)
  /\ Serial_init[7] = Out("MCR", TRUE) /\ Serial_init[8] = Out("DATA", LOOPBACK_TEST_BYTE)
  /\ Serial_init[9] = Do("test") /\ Serial_init[10] = Out("MCR", FALSE)
<1>1. /\ Out("IER", 0) \in Ops /\ Out("LCR", LCR_DLAB) \in Ops /\ Out("DATA", 1) \in Ops
      /\ Out("LCR", LCR_8N1) \in Ops /\ Out("FCR", 0) \in Ops /\ Out("MCR", TRUE) \in Ops
      /\ Out("DATA", LOOPBACK_TEST_BYTE) \in Ops /\ Do("test") \in Ops
      /\ Out("MCR", FALSE) \in Ops
  BY DEF Ops
<1>2. /\ disable_interrupts \in Seq(Ops) /\ Len(disable_interrupts) = 1
      /\ disable_interrupts[1] = Out("IER", 0)
  BY <1>1, Tuples, Zenon DEF disable_interrupts
<1>3. /\ set_baud \in Seq(Ops) /\ Len(set_baud) = 3 /\ set_baud[1] = Out("LCR", LCR_DLAB)
      /\ set_baud[2] = Out("DATA", 1) /\ set_baud[3] = Out("IER", 0)
  BY <1>1, Tuples, Zenon DEF set_baud
<1>4. /\ configure_line \in Seq(Ops) /\ Len(configure_line) = 1
      /\ configure_line[1] = Out("LCR", LCR_8N1)
  BY <1>1, Tuples, Zenon DEF configure_line
<1>5. /\ configure_fifo \in Seq(Ops) /\ Len(configure_fifo) = 1
      /\ configure_fifo[1] = Out("FCR", 0)
  BY <1>1, Tuples, Zenon DEF configure_fifo
<1>6. /\ loopback_test \in Seq(Ops) /\ Len(loopback_test) = 4
      /\ loopback_test[1] = Out("MCR", TRUE) /\ loopback_test[2] = Out("DATA", LOOPBACK_TEST_BYTE)
      /\ loopback_test[3] = Do("test") /\ loopback_test[4] = Out("MCR", FALSE)
  BY <1>1, Tuples, Zenon DEF loopback_test
<1>7. PICK a : a = disable_interrupts \o set_baud
  OBVIOUS
<1>8. PICK b : b = a \o configure_line
  OBVIOUS
<1>9. PICK c : c = b \o configure_fifo
  OBVIOUS
<1>10. Serial_init = c \o loopback_test
  BY <1>7, <1>8, <1>9 DEF Serial_init
<1>11. Chained(Ops, a, disable_interrupts, set_baud)
  BY <1>2, <1>3, <1>7, ConcatAt
<1>12. a \in Seq(Ops)
  BY <1>11 DEF Chained
<1>13. Chained(Ops, b, a, configure_line)
  BY <1>4, <1>8, <1>12, ConcatAt
<1>14. b \in Seq(Ops)
  BY <1>13 DEF Chained
<1>15. Chained(Ops, c, b, configure_fifo)
  BY <1>5, <1>9, <1>14, ConcatAt
<1>16. c \in Seq(Ops)
  BY <1>15 DEF Chained
<1>17. Chained(Ops, Serial_init, c, loopback_test)
  BY <1>6, <1>10, <1>16, ConcatAt
<1>18. /\ Len(a) = 4 /\ a[1] = disable_interrupts[1] /\ a[2] = set_baud[1]
       /\ a[3] = set_baud[2] /\ a[4] = set_baud[3]
  BY <1>2, <1>3, <1>11 DEF Chained
<1>19. /\ Len(b) = 5 /\ b[1] = a[1] /\ b[2] = a[2] /\ b[3] = a[3] /\ b[4] = a[4]
       /\ b[5] = configure_line[1]
  BY <1>4, <1>13, <1>18 DEF Chained
<1>20. /\ Len(c) = 6 /\ c[1] = b[1] /\ c[2] = b[2] /\ c[3] = b[3] /\ c[4] = b[4]
       /\ c[5] = b[5] /\ c[6] = configure_fifo[1]
  BY <1>5, <1>15, <1>19 DEF Chained
<1>21. /\ Serial_init \in Seq(Ops) /\ Len(Serial_init) = 10 /\ Serial_init[1] = c[1]
       /\ Serial_init[2] = c[2] /\ Serial_init[3] = c[3] /\ Serial_init[4] = c[4]
       /\ Serial_init[5] = c[5] /\ Serial_init[6] = c[6]
  BY <1>6, <1>17, <1>20 DEF Chained
<1>22. /\ Serial_init[7] = loopback_test[1] /\ Serial_init[8] = loopback_test[2]
       /\ Serial_init[9] = loopback_test[3] /\ Serial_init[10] = loopback_test[4]
  <2>1. \A i \in 1 .. 4 : Serial_init[6 + i] = loopback_test[i]
    <3>1. Len(c) = 6 /\ Len(loopback_test) = 4
      BY <1>6, <1>20
    <3> QED
      BY <1>17, <3>1 DEF Chained
  <2> QED
    BY <2>1
<1> QED
  BY <1>2, <1>3, <1>4, <1>5, <1>6, <1>18, <1>19, <1>20, <1>21, <1>22, Zenon

\* The operations of the main flow.
LEMMA MainOps ==
  LET e == Len(Early)
      l == Len(Late)
  IN  /\ e \in Nat /\ l \in Nat /\ Len(Main) = e + l + 19
      /\ Main[1] = Op("set_level", 0, Level)
      /\ \A i \in 1 .. e : Main[1 + i] = Log(Early[i])
      /\ Main[e + 2] = Do("lock")
      /\ \A i \in 1 .. 10 : Main[e + 2 + i] = Serial_init[i]
      /\ Main[e + 13] = Do("unlock") /\ Main[e + 14] = Do("sti")
      /\ \A i \in 1 .. l : Main[e + 14 + i] = Log(Late[i])
      /\ Main[e + l + 15] = Do("read") /\ Main[e + l + 16] = Do("read")
      /\ Main[e + l + 17] = Do("hlt") /\ Main[e + l + 18] = Log(PanicLine)
      /\ Main[e + l + 19] = Do("hlt")
<1> DEFINE e == Len(Early)
           l == Len(Late)
           s1 == <<Op("set_level", 0, Level)>>
           s3 == <<Do("lock")>>
           s5 == <<Do("unlock"), Do("sti")>>
           s7 == <<Do("read"), Do("read"), Do("hlt")>>
<1>1. /\ Logs(Early) \in Seq(Ops) /\ Len(Logs(Early)) = e /\ e \in Nat
      /\ \A i \in 1 .. e : Logs(Early)[i] = Log(Early[i])
  BY SerialAssumption, LogsAre
<1>2. /\ Logs(Late) \in Seq(Ops) /\ Len(Logs(Late)) = l /\ l \in Nat
      /\ \A i \in 1 .. l : Logs(Late)[i] = Log(Late[i])
  BY SerialAssumption, LogsAre
<1>3. /\ Op("set_level", 0, Level) \in Ops /\ Do("lock") \in Ops /\ Do("unlock") \in Ops
      /\ Do("sti") \in Ops /\ Do("read") \in Ops /\ Do("hlt") \in Ops
  BY DEF Ops
<1>4. Log(PanicLine) \in Ops
  <2>1. PanicLine \in Lines
    BY SerialAssumption DEF PanicLine, Lines
  <2> QED
    BY <2>1 DEF Ops
<1>5. s1 \in Seq(Ops) /\ Len(s1) = 1 /\ s1[1] = Op("set_level", 0, Level)
  BY <1>3, Tuples, Zenon
<1>6. s3 \in Seq(Ops) /\ Len(s3) = 1 /\ s3[1] = Do("lock")
  BY <1>3, Tuples, Zenon
<1>7. s5 \in Seq(Ops) /\ Len(s5) = 2 /\ s5[1] = Do("unlock") /\ s5[2] = Do("sti")
  BY <1>3, Tuples, Zenon
<1>8. /\ s7 \in Seq(Ops) /\ Len(s7) = 3
      /\ s7[1] = Do("read") /\ s7[2] = Do("read") /\ s7[3] = Do("hlt")
  BY <1>3, Tuples, Zenon
<1>9. Panic \in Seq(Ops) /\ Len(Panic) = 2 /\ Panic[1] = Log(PanicLine) /\ Panic[2] = Do("hlt")
  BY <1>3, <1>4, Tuples, Zenon DEF Panic, PanicLine
<1>10. Main = s1 \o Logs(Early) \o s3 \o Serial_init \o s5 \o Logs(Late) \o s7 \o Panic
  BY DEF Main
<1> HIDE DEF s1, s3, s5, s7, e, l
<1>11. PICK a : a = s1 \o Logs(Early)
  OBVIOUS
<1>12. PICK b : b = a \o s3
  OBVIOUS
<1>13. PICK c : c = b \o Serial_init
  OBVIOUS
<1>14. PICK d : d = c \o s5
  OBVIOUS
<1>15. PICK f : f = d \o Logs(Late)
  OBVIOUS
<1>16. PICK g : g = f \o s7
  OBVIOUS
<1>17. Main = g \o Panic
  BY <1>10, <1>11, <1>12, <1>13, <1>14, <1>15, <1>16
<1>18. Chained(Ops, a, s1, Logs(Early))
  BY <1>1, <1>5, <1>11, ConcatAt
<1>19. a \in Seq(Ops)
  BY <1>18 DEF Chained
<1>20. Chained(Ops, b, a, s3)
  BY <1>6, <1>12, <1>19, ConcatAt
<1>21. b \in Seq(Ops)
  BY <1>20 DEF Chained
<1>22. Chained(Ops, c, b, Serial_init)
  BY <1>13, <1>21, InitOps, ConcatAt
<1>23. c \in Seq(Ops)
  BY <1>22 DEF Chained
<1>24. Chained(Ops, d, c, s5)
  BY <1>7, <1>14, <1>23, ConcatAt
<1>25. d \in Seq(Ops)
  BY <1>24 DEF Chained
<1>26. Chained(Ops, f, d, Logs(Late))
  BY <1>2, <1>15, <1>25, ConcatAt
<1>27. f \in Seq(Ops)
  BY <1>26 DEF Chained
<1>28. Chained(Ops, g, f, s7)
  BY <1>8, <1>16, <1>27, ConcatAt
<1>29. g \in Seq(Ops)
  BY <1>28 DEF Chained
<1>30. Chained(Ops, Main, g, Panic)
  BY <1>9, <1>17, <1>29, ConcatAt
<1>31. Len(a) = e + 1 /\ a[1] = s1[1] /\ \A i \in 1 .. e : a[1 + i] = Log(Early[i])
  BY <1>1, <1>5, <1>18 DEF Chained
<1>32. Len(b) = e + 2 /\ (\A i \in 1 .. e + 1 : b[i] = a[i]) /\ b[e + 2] = s3[1]
  BY <1>1, <1>6, <1>20, <1>31 DEF Chained
<1>33. /\ Len(c) = e + 12 /\ (\A i \in 1 .. e + 2 : c[i] = b[i])
       /\ \A i \in 1 .. 10 : c[e + 2 + i] = Serial_init[i]
  <2>1. Len(Serial_init) = 10
    BY InitOps
  <2> QED
    BY <1>1, <2>1, <1>22, <1>32 DEF Chained
<1>34. /\ Len(d) = e + 14 /\ (\A i \in 1 .. e + 12 : d[i] = c[i])
       /\ d[e + 13] = s5[1] /\ d[e + 14] = s5[2]
  BY <1>1, <1>7, <1>24, <1>33 DEF Chained
<1>35. /\ Len(f) = e + l + 14 /\ (\A i \in 1 .. e + 14 : f[i] = d[i])
       /\ \A i \in 1 .. l : f[e + 14 + i] = Log(Late[i])
  BY <1>1, <1>2, <1>26, <1>34 DEF Chained
<1>36. /\ Len(g) = e + l + 17 /\ (\A i \in 1 .. e + l + 14 : g[i] = f[i])
       /\ g[e + l + 15] = s7[1] /\ g[e + l + 16] = s7[2] /\ g[e + l + 17] = s7[3]
  <2>1. Len(s7) = 3 /\ Len(f) = e + l + 14 /\ e + l + 14 \in Nat
    BY <1>1, <1>2, <1>8, <1>35
  <2>2. /\ Len(g) = Len(f) + Len(s7) /\ \A i \in 1 .. Len(f) : g[i] = f[i]
        /\ \A i \in 1 .. Len(s7) : g[Len(f) + i] = s7[i]
    BY <1>28 DEF Chained
  <2>3. \A i \in 1 .. 3 : g[e + l + 14 + i] = s7[i]
    BY <2>1, <2>2
  <2>4. g[e + l + 15] = s7[1] /\ g[e + l + 16] = s7[2] /\ g[e + l + 17] = s7[3]
    BY <1>1, <1>2, <2>3
  <2> QED
    BY <1>1, <1>2, <2>1, <2>2, <2>4
<1>37. /\ Len(Main) = e + l + 19 /\ (\A i \in 1 .. e + l + 17 : Main[i] = g[i])
       /\ Main[e + l + 18] = Panic[1] /\ Main[e + l + 19] = Panic[2]
  BY <1>1, <1>2, <1>9, <1>30, <1>36 DEF Chained
<1>38. \A i \in 1 .. e + 14 : Main[i] = d[i]
  BY <1>1, <1>2, <1>35, <1>36, <1>37
<1>39. \A i \in 1 .. e + 2 : Main[i] = b[i]
  <2> SUFFICES ASSUME NEW i \in 1 .. e + 2
               PROVE  Main[i] = b[i]
    OBVIOUS
  <2>1. i \in 1 .. e + 12 /\ i \in 1 .. e + 14
    BY <1>1
  <2> QED
    BY <2>1, <1>33, <1>34, <1>38, Zenon
<1>40. /\ Main[1] = Op("set_level", 0, Level) /\ Main[e + 2] = Do("lock")
       /\ \A i \in 1 .. e : Main[1 + i] = Log(Early[i])
  <2>1. /\ 1 \in 1 .. e + 1 /\ 1 \in 1 .. e + 2 /\ e + 2 \in 1 .. e + 2
        /\ \A i \in 1 .. e : 1 + i \in 1 .. e + 1 /\ 1 + i \in 1 .. e + 2
    BY <1>1
  <2>2. Main[1] = s1[1] /\ Main[e + 2] = s3[1]
    <3>1. Main[1] = b[1] /\ Main[e + 2] = b[e + 2]
      BY <2>1, <1>39
    <3>2. b[1] = a[1]
      BY <2>1, <1>32
    <3> QED
      BY <3>1, <3>2, <1>31, <1>32
  <2>3. \A i \in 1 .. e : Main[1 + i] = a[1 + i]
    BY <2>1, <1>32, <1>39
  <2> QED
    BY <2>2, <2>3, <1>5, <1>6, <1>31
<1>41. /\ Main[e + 13] = Do("unlock") /\ Main[e + 14] = Do("sti")
       /\ \A i \in 1 .. 10 : Main[e + 2 + i] = Serial_init[i]
  <2>1. e + 13 \in 1 .. e + 14 /\ e + 14 \in 1 .. e + 14
    BY <1>1
  <2>2. Main[e + 13] = Do("unlock") /\ Main[e + 14] = Do("sti")
    BY <2>1, <1>7, <1>34, <1>38
  <2>3. \A i \in 1 .. 10 : e + 2 + i \in 1 .. e + 12 /\ e + 2 + i \in 1 .. e + 14
    BY <1>1
  <2>4. \A i \in 1 .. 10 : Main[e + 2 + i] = Serial_init[i]
    BY <2>3, <1>33, <1>34, <1>38
  <2> QED
    BY <2>2, <2>4
<1>42. \A i \in 1 .. l : Main[e + 14 + i] = Log(Late[i])
  BY <1>1, <1>2, <1>35, <1>36, <1>37
<1>43. /\ Main[e + l + 15] = Do("read") /\ Main[e + l + 16] = Do("read")
       /\ Main[e + l + 17] = Do("hlt")
  BY <1>1, <1>2, <1>8, <1>36, <1>37
<1>44. Main[e + l + 18] = Log(PanicLine) /\ Main[e + l + 19] = Do("hlt")
  BY <1>9, <1>37
<1> QED
  BY <1>1, <1>2, <1>37, <1>40, <1>41, <1>42, <1>43, <1>44, Zenon DEF e, l

\* The lengths of the programs.
LEMMA Lengths ==
  /\ Len(Early) \in Nat /\ Len(Late) \in Nat /\ Len(Handler) \in Nat
  /\ Len(Main) = Len(Early) + Len(Late) + 19
  /\ PanicAt = Len(Early) + Len(Late) + 18 /\ HaltAt = Len(Early) + Len(Late) + 17
<1>1. Len(Early) \in Nat /\ Len(Late) \in Nat /\ Len(Main) = Len(Early) + Len(Late) + 19
  BY MainOps
<1>2. Len(Handler) \in Nat
  BY SerialAssumption, LenProperties
<1> QED
  BY <1>1, <1>2 DEF PanicAt, HaltAt

\* The operation of the main flow at each of its positions.
LEMMA MainIs ==
  ASSUME NEW i \in 1 .. Len(Main)
  PROVE  /\ i = 1 => Main[i].op = "set_level" /\ Main[i].val = Level
         /\ i \in 2 .. P(1) =>
              /\ Main[i].op = "log" /\ Main[i].val \in Lines
              /\ LOOPBACK_TEST_BYTE \notin ToSet(Main[i].val.text)
         /\ i = P(2) => Main[i].op = "lock"
         /\ i \in {P(3), P(6)} => Main[i] = Out("IER", 0)
         /\ i = P(4) => Main[i] = Out("LCR", LCR_DLAB)
         /\ i = P(5) => Main[i] = Out("DATA", 1)
         /\ i = P(7) => Main[i] = Out("LCR", LCR_8N1)
         /\ i = P(8) => Main[i] = Out("FCR", 0)
         /\ i = P(9) => Main[i] = Out("MCR", TRUE)
         /\ i = P(10) => Main[i] = Out("DATA", LOOPBACK_TEST_BYTE)
         /\ i = P(11) => Main[i].op = "test"
         /\ i = P(12) => Main[i] = Out("MCR", FALSE)
         /\ i = P(13) => Main[i].op = "unlock"
         /\ i = P(14) => Main[i].op = "sti"
         /\ i \in P(15) .. HaltAt - 3 => Main[i].op = "log" /\ Main[i].val \in Lines
         /\ i \in {HaltAt - 2, HaltAt - 1} => Main[i].op = "read"
         /\ i \in {HaltAt, Len(Main)} => Main[i].op = "hlt"
         /\ i = PanicAt => Main[i].op = "log" /\ Main[i].val = PanicLine
<1> DEFINE e == Len(Early)
           l == Len(Late)
<1>1. /\ e \in Nat /\ l \in Nat /\ Len(Main) = e + l + 19
      /\ PanicAt = e + l + 18 /\ HaltAt = e + l + 17
  BY Lengths
<1>2. \A o, v : Op(o, 0, v).op = o /\ Op(o, 0, v).val = v /\ Do(o).op = o
                /\ Log(v).op = "log" /\ Log(v).val = v
  BY DEF Op, Do, Log
<1>3. i = 1 => Main[i].op = "set_level" /\ Main[i].val = Level
  <2>1. Main[1] = Op("set_level", 0, Level)
    BY MainOps
  <2>2. Main[1].op = "set_level" /\ Main[1].val = Level
    BY <2>1 DEF Op
  <2> QED
    BY <2>2
<1>4. ASSUME i \in 2 .. P(1)
      PROVE  /\ Main[i].op = "log" /\ Main[i].val \in Lines
             /\ LOOPBACK_TEST_BYTE \notin ToSet(Main[i].val.text)
  <2>1. i - 1 \in 1 .. e /\ i = 1 + (i - 1)
    BY <1>1, <1>4 DEF P
  <2>2. Main[i] = Log(Early[i - 1])
    BY <2>1, MainOps
  <2>3. i - 1 \in DOMAIN Early /\ Early[i - 1] \in Lines
    BY <2>1, SerialAssumption, LenProperties, ElementOfSeq
  <2> QED
    BY <1>2, <2>2, <2>3, SerialAssumption
<1>5. i = P(2) => Main[i].op = "lock"
  <2>1. Main[P(2)] = Do("lock")
    BY MainOps DEF P
  <2> QED
    BY <1>2, <2>1, Zenon
<1>6. ASSUME NEW k \in 1 .. 10, i = P(k + 2)
      PROVE  Main[i] = Serial_init[k]
  <2>1. i = e + 2 + k
    BY <1>1, <1>6 DEF P
  <2>2. \A j \in 1 .. 10 : Main[e + 2 + j] = Serial_init[j]
    BY MainOps
  <2> QED
    BY <2>1, <2>2
<1>7. /\ i \in {P(3), P(6)} => Main[i] = Out("IER", 0)
      /\ i = P(4) => Main[i] = Out("LCR", LCR_DLAB)
      /\ i = P(5) => Main[i] = Out("DATA", 1)
      /\ i = P(7) => Main[i] = Out("LCR", LCR_8N1)
      /\ i = P(8) => Main[i] = Out("FCR", 0)
      /\ i = P(9) => Main[i] = Out("MCR", TRUE)
      /\ i = P(10) => Main[i] = Out("DATA", LOOPBACK_TEST_BYTE)
      /\ i = P(12) => Main[i] = Out("MCR", FALSE)
      /\ i = P(11) => Main[i] = Do("test")
  <2>1. /\ i = P(3) => Main[i] = Serial_init[1]
        /\ i = P(4) => Main[i] = Serial_init[2]
        /\ i = P(5) => Main[i] = Serial_init[3]
        /\ i = P(6) => Main[i] = Serial_init[4]
        /\ i = P(7) => Main[i] = Serial_init[5]
        /\ i = P(8) => Main[i] = Serial_init[6]
        /\ i = P(9) => Main[i] = Serial_init[7]
        /\ i = P(10) => Main[i] = Serial_init[8]
        /\ i = P(11) => Main[i] = Serial_init[9]
        /\ i = P(12) => Main[i] = Serial_init[10]
    BY <1>6
  <2> QED
    BY <2>1, InitOps, Zenon
<1>8. i = P(13) => Main[i].op = "unlock"
  <2>1. Main[P(13)] = Do("unlock")
    BY MainOps DEF P
  <2> QED
    BY <1>2, <2>1, Zenon
<1>9. i = P(14) => Main[i].op = "sti"
  <2>1. Main[P(14)] = Do("sti")
    BY MainOps DEF P
  <2> QED
    BY <1>2, <2>1, Zenon
<1>10. ASSUME i \in P(15) .. HaltAt - 3
       PROVE  Main[i].op = "log" /\ Main[i].val \in Lines
  <2>1. i - (e + 14) \in 1 .. l /\ i = e + 14 + (i - (e + 14))
    BY <1>1, <1>10 DEF P
  <2>2. Main[i] = Log(Late[i - (e + 14)])
    BY <2>1, MainOps
  <2>3. Late[i - (e + 14)] \in Lines
    BY <2>1, SerialAssumption, LenProperties, ElementOfSeq
  <2> QED
    BY <1>2, <2>2, <2>3
<1>11. i \in {HaltAt - 2, HaltAt - 1} => Main[i].op = "read"
  <2>1. HaltAt - 2 = e + l + 15 /\ HaltAt - 1 = e + l + 16
    BY <1>1
  <2>2. Main[e + l + 15] = Do("read") /\ Main[e + l + 16] = Do("read")
    BY MainOps
  <2>3. Main[e + l + 15].op = "read" /\ Main[e + l + 16].op = "read"
    BY <2>2, <1>2
  <2> QED
    BY <2>1, <2>3
<1>12. i \in {HaltAt, Len(Main)} => Main[i].op = "hlt"
  <2>1. Main[e + l + 17] = Do("hlt") /\ Main[e + l + 19] = Do("hlt")
    BY MainOps
  <2>2. Main[e + l + 17].op = "hlt" /\ Main[e + l + 19].op = "hlt"
    BY <2>1, <1>2
  <2> QED
    BY <1>1, <2>2
<1>13. i = PanicAt => Main[i].op = "log" /\ Main[i].val = PanicLine
  BY <1>1, MainOps, <1>2
<1>14. i = P(11) => Main[i].op = "test"
  BY <1>2, <1>7
<1> QED
  BY <1>3, <1>4, <1>5, <1>7, <1>8, <1>9, <1>10, <1>11, <1>12, <1>13, <1>14, Zenon

\* The operation of a handler at each of its positions.
LEMMA IrqIs ==
  /\ Len(Irq) = Len(Handler) + 1
  /\ \A i \in 1 .. Len(Handler) : Irq[i].op = "log" /\ Irq[i].val \in Lines
  /\ Irq[Len(Handler) + 1].op = "iretq"
<1> DEFINE s == Logs(Handler)
           t == <<Do("iretq")>>
           h == Len(Handler)
<1>1. /\ s \in Seq(Ops) /\ Len(s) = h /\ h \in Nat
      /\ \A i \in 1 .. h : Handler[i] \in Lines /\ s[i] = Log(Handler[i])
  BY SerialAssumption, LogsAre
<1>2. t \in Seq(Ops) /\ Len(t) = 1 /\ t[1] = Do("iretq")
  <2>1. Do("iretq") \in Ops
    BY DEF Ops
  <2> QED
    BY <2>1, Tuples, Zenon
<1>3. Irq = s \o t
  BY DEF Irq
<1> HIDE DEF s, t, h
<1>4. PICK r : r = s \o t
  OBVIOUS
<1>5. Chained(Ops, r, s, t)
  BY <1>1, <1>2, <1>4, ConcatAt
<1>6. Len(r) = h + 1 /\ (\A i \in 1 .. h : r[i] = s[i]) /\ r[h + 1] = t[1]
  BY <1>1, <1>2, <1>5 DEF Chained
<1>7. \A v : Log(v).op = "log" /\ Log(v).val = v /\ Do("iretq").op = "iretq"
  BY DEF Op, Do, Log
<1>8. Irq = r
  BY <1>3, <1>4
<1>9. \A i \in 1 .. h : r[i].op = "log" /\ r[i].val \in Lines
  BY <1>1, <1>6, <1>7
<1>10. r[h + 1].op = "iretq"
  BY <1>2, <1>6, <1>7
<1> QED
  BY <1>6, <1>8, <1>9, <1>10, Zenon DEF h

\* The context that runs is at a position of its program.
LEMMA Here ==
  ASSUME PortType, LockFits
  PROVE  /\ at.main \in 1 .. Len(Main) /\ at.irq \in 1 .. Len(Irq)
         /\ running = "main" => This = Main[at.main]
         /\ running = "irq" => This = Irq[at.irq] /\ ready
         /\ running = "irq" /\ at.irq <= Len(Handler) => This.op = "log" /\ This.val \in Lines
         /\ running = "irq" /\ at.irq > Len(Handler) => This.op = "iretq"
<1>1. at.main \in 1 .. Len(Main) /\ at.irq \in 1 .. Len(Irq) /\ Len(Handler) \in Nat
  BY Lengths DEF PortType
<1>2. running = "main" => This = Main[at.main]
  BY DEF This
<1>3. running = "irq" => This = Irq[at.irq] /\ ready
  BY DEF This, LockFits
<1>4. at.irq <= Len(Handler) => at.irq \in 1 .. Len(Handler)
  BY <1>1
<1>5. at.irq > Len(Handler) => at.irq = Len(Handler) + 1
  BY <1>1, IrqIs
<1>6. ASSUME running = "irq", at.irq <= Len(Handler)
      PROVE  This.op = "log" /\ This.val \in Lines
  BY <1>3, <1>4, <1>6, IrqIs
<1>7. ASSUME running = "irq", at.irq > Len(Handler)
      PROVE  This.op = "iretq"
  BY <1>3, <1>5, <1>7, IrqIs
<1> QED
  BY <1>1, <1>2, <1>3, <1>6, <1>7

\* The main flow is somewhere in its program.
LEMMA Somewhere ==
  ASSUME NEW i \in 1 .. Len(Main)
  PROVE  \/ i = 1 \/ i \in 2 .. P(1) \/ i = P(2) \/ i \in P(3) .. P(10) \/ i = P(11)
         \/ i = P(12) \/ i = P(13) \/ i = P(14) \/ i \in P(15) .. HaltAt - 3
         \/ i \in {HaltAt - 2, HaltAt - 1} \/ i \in {HaltAt, Len(Main)} \/ i = PanicAt
<1>1. PICK e, l : e = Len(Early) /\ l = Len(Late)
  OBVIOUS
<1>2. /\ e \in Nat /\ l \in Nat /\ Len(Main) = e + l + 19
      /\ PanicAt = e + l + 18 /\ HaltAt = e + l + 17
  BY <1>1, Lengths
<1>3. \A k : P(k) = e + k
  BY <1>1 DEF P
<1>4. i \in Nat /\ 1 <= i /\ i <= e + l + 19
  BY <1>2
<1>5. CASE i <= e + 10
  <2>1. i = 1 \/ i \in 2 .. e + 1 \/ i = e + 2 \/ i \in e + 3 .. e + 10
    BY <1>2, <1>4, <1>5
  <2> QED
    BY <1>3, <2>1, Zenon
<1>6. CASE i > e + 10
  <2>1. \/ i = e + 11 \/ i = e + 12 \/ i = e + 13 \/ i = e + 14
        \/ i \in e + 15 .. e + l + 14 \/ i = e + l + 15 \/ i = e + l + 16
        \/ i = e + l + 17 \/ i = e + l + 18 \/ i = e + l + 19
    BY <1>2, <1>4, <1>6
  <2>2. HaltAt - 3 = e + l + 14 /\ HaltAt - 2 = e + l + 15 /\ HaltAt - 1 = e + l + 16
    BY <1>2
  <2> QED
    BY <1>2, <1>3, <2>1, <2>2, Zenon
<1> QED
  BY <1>2, <1>4, <1>5, <1>6

\* The registers are written in serial::init alone.
LEMMA OutsAre ==
  ASSUME NEW i \in P(3) .. P(10)
  PROVE  Main[i].op = "out"
<1>1. i \in 1 .. Len(Main)
  BY Lengths DEF P
<1>2. i \in {P(3), P(6)} \/ i = P(4) \/ i = P(5) \/ i = P(7) \/ i = P(8) \/ i = P(9) \/ i = P(10)
  BY Lengths DEF P
<1>3. \A r, v : Out(r, v).op = "out"
  BY DEF Out, Op
<1>4. \E r, v : Main[i] = Out(r, v)
  <2>1. CASE i \in {P(3), P(6)}
    <3>1. Main[i] = Out("IER", 0)
      BY <1>1, <2>1, MainIs
    <3> QED
      BY <3>1
  <2>2. CASE i = P(4)
    <3>1. Main[i] = Out("LCR", LCR_DLAB)
      BY <1>1, <2>2, MainIs
    <3> QED
      BY <3>1
  <2>3. CASE i = P(5)
    <3>1. Main[i] = Out("DATA", 1)
      BY <1>1, <2>3, MainIs
    <3> QED
      BY <3>1
  <2>4. CASE i = P(7)
    <3>1. Main[i] = Out("LCR", LCR_8N1)
      BY <1>1, <2>4, MainIs
    <3> QED
      BY <3>1
  <2>5. CASE i = P(8)
    <3>1. Main[i] = Out("FCR", 0)
      BY <1>1, <2>5, MainIs
    <3> QED
      BY <3>1
  <2>6. CASE i = P(9)
    <3>1. Main[i] = Out("MCR", TRUE)
      BY <1>1, <2>6, MainIs
    <3> QED
      BY <3>1
  <2>7. CASE i = P(10)
    <3>1. Main[i] = Out("DATA", LOOPBACK_TEST_BYTE)
      BY <1>1, <2>7, MainIs
    <3> QED
      BY <3>1
  <2> QED
    BY <1>2, <2>1, <2>2, <2>3, <2>4, <2>5, <2>6, <2>7
<1> QED
  BY <1>3, <1>4

\* Where the context that runs is, by its operation.
LEMMA Where ==
  ASSUME PortType, LockFits
  PROVE  /\ Doing("set_level") => running = "main" /\ at.main = 1 /\ This.val = Level
         /\ Doing("log") =>
              /\ This.val \in Lines
              /\ \/ running = "irq" /\ at.irq <= Len(Handler)
                 \/ running = "main" /\ at.main \in 2 .. P(1)
                      /\ LOOPBACK_TEST_BYTE \notin ToSet(This.val.text)
                 \/ running = "main" /\ at.main \in P(15) .. HaltAt - 3
                 \/ running = "main" /\ at.main = PanicAt
         /\ Doing("lock") => running = "main" /\ at.main = P(2)
         /\ Doing("unlock") => running = "main" /\ at.main = P(13)
         /\ Doing("sti") => running = "main" /\ at.main = P(14)
         /\ Doing("out") =>
              running = "main" /\ at.main \in P(3) .. P(10) \cup {P(12)} /\ This = Main[at.main]
         /\ Doing("test") => running = "main" /\ at.main = P(11)
         /\ Doing("read") => running = "main" /\ at.main \in {HaltAt - 2, HaltAt - 1}
         /\ Doing("iretq") => running = "irq"
<1>1. running \in {"main", "irq"}
  BY DEF LockFits
<1>2. CASE running = "irq"
  <2>1. at.irq \in 1 .. Len(Irq) /\ Len(Handler) \in Nat
    BY Here, Lengths
  <2>2. at.irq <= Len(Handler) \/ at.irq > Len(Handler)
    BY <2>1
  <2>3. CASE at.irq <= Len(Handler)
    <3>1. This.op = "log" /\ This.val \in Lines
      BY <1>2, <2>3, Here
    <3> QED
      BY <1>2, <2>3, <3>1 DEF Doing
  <2>4. CASE at.irq > Len(Handler)
    <3>1. This.op = "iretq"
      BY <1>2, <2>4, Here
    <3> QED
      BY <1>2, <2>4, <3>1 DEF Doing
  <2> QED
    BY <2>2, <2>3, <2>4
<1>3. CASE running = "main"
  <2> DEFINE i == at.main
  <2>1. i \in 1 .. Len(Main) /\ This = Main[i]
    BY <1>3, Here
  <2> HIDE DEF i
  <2>2. CASE i = 1
    <3>1. This.op = "set_level" /\ This.val = Level
      BY <2>1, <2>2, MainIs
    <3> QED
      BY <1>3, <2>2, <3>1 DEF Doing, i
  <2>3. CASE i \in 2 .. P(1)
    <3>1. /\ This.op = "log" /\ This.val \in Lines
          /\ LOOPBACK_TEST_BYTE \notin ToSet(This.val.text)
      BY <2>1, <2>3, MainIs
    <3> QED
      BY <1>3, <2>3, <3>1 DEF Doing, i
  <2>4. CASE i = P(2)
    <3>1. This.op = "lock"
      BY <2>1, <2>4, MainIs
    <3> QED
      BY <1>3, <2>4, <3>1 DEF Doing, i
  <2>5. CASE i \in P(3) .. P(10)
    <3>1. This.op = "out"
      BY <2>1, <2>5, OutsAre
    <3> QED
      BY <1>3, <2>1, <2>5, <3>1 DEF Doing, i
  <2>6. CASE i = P(11)
    <3>1. This.op = "test"
      BY <2>1, <2>6, MainIs
    <3> QED
      BY <1>3, <2>6, <3>1 DEF Doing, i
  <2>7. CASE i = P(12)
    <3>1. This = Out("MCR", FALSE)
      BY <2>1, <2>7, MainIs
    <3>2. This.op = "out"
      BY <3>1 DEF Out, Op
    <3> QED
      BY <1>3, <2>1, <2>7, <3>2 DEF Doing, i
  <2>8. CASE i = P(13)
    <3>1. This.op = "unlock"
      BY <2>1, <2>8, MainIs
    <3> QED
      BY <1>3, <2>8, <3>1 DEF Doing, i
  <2>9. CASE i = P(14)
    <3>1. This.op = "sti"
      BY <2>1, <2>9, MainIs
    <3> QED
      BY <1>3, <2>9, <3>1 DEF Doing, i
  <2>10. CASE i \in P(15) .. HaltAt - 3
    <3>1. This.op = "log" /\ This.val \in Lines
      BY <2>1, <2>10, MainIs
    <3> QED
      BY <1>3, <2>10, <3>1 DEF Doing, i
  <2>11. CASE i \in {HaltAt - 2, HaltAt - 1}
    <3>1. This.op = "read"
      BY <2>1, <2>11, MainIs
    <3> QED
      BY <1>3, <2>11, <3>1 DEF Doing, i
  <2>12. CASE i \in {HaltAt, Len(Main)}
    <3>1. This.op = "hlt"
      BY <2>1, <2>12, MainIs
    <3> QED
      BY <1>3, <3>1 DEF Doing
  <2>13. CASE i = PanicAt
    <3>1. This.op = "log" /\ This.val = PanicLine
      BY <2>1, <2>13, MainIs
    <3>2. PanicLine \in Lines
      BY SerialAssumption DEF PanicLine, Lines
    <3> QED
      BY <1>3, <2>13, <3>1, <3>2 DEF Doing, i
  <2> QED
    BY <2>1, <2>2, <2>3, <2>4, <2>5, <2>6, <2>7, <2>8, <2>9, <2>10, <2>11, <2>12, <2>13,
       Somewhere, Zenon
<1> QED
  BY <1>1, <1>2, <1>3, Zenon

\* Where a context goes.
LEMMA Going ==
  ASSUME PortType, LockFits, NEW i
  PROVE  /\ Goto(i) /\ running = "main" /\ i \in 1 .. Len(Main) =>
              /\ at' \in [main : 1 .. Len(Main), irq : 1 .. Len(Irq)]
              /\ at'.main = i /\ at'.irq = at.irq
         /\ Goto(i) /\ running = "irq" /\ i \in 1 .. Len(Irq) =>
              /\ at' \in [main : 1 .. Len(Main), irq : 1 .. Len(Irq)]
              /\ at'.irq = i /\ at'.main = at.main
<1>1. at \in [main : 1 .. Len(Main), irq : 1 .. Len(Irq)]
  BY DEF PortType
<1>2. ASSUME Goto(i), running = "main", i \in 1 .. Len(Main)
      PROVE  /\ at' \in [main : 1 .. Len(Main), irq : 1 .. Len(Irq)]
             /\ at'.main = i /\ at'.irq = at.irq
  <2>1. at' = [at EXCEPT !.main = i]
    BY <1>2 DEF Goto
  <2> QED
    BY <1>1, <1>2, <2>1
<1>3. ASSUME Goto(i), running = "irq", i \in 1 .. Len(Irq)
      PROVE  /\ at' \in [main : 1 .. Len(Main), irq : 1 .. Len(Irq)]
             /\ at'.irq = i /\ at'.main = at.main
  <2>1. at' = [at EXCEPT !.irq = i]
    BY <1>3 DEF Goto
  <2> QED
    BY <1>1, <1>3, <2>1
<1> QED
  BY <1>2, <1>3

----------------------------------------------------------------------------
(* The registers.                                                          *)

\* A port and what an access leaves of it.
LEMMA PortFields ==
  ASSUME NEW u \in UartType
  PROVE  /\ u.lcr \in {LCR_8N1, LCR_DLAB} /\ u.baud \in {<<1, 0>>, <<12, 0>>}
         /\ u.fifo \in BOOLEAN /\ u.loop \in BOOLEAN /\ u.thr \in Seq(Char)
         /\ u.tsr \in Seq(SentBytes) /\ u.rx \in Seq(Char)
         /\ u.ier = 0 /\ Room(u) \in Nat \ {0}
  BY FifoAssumption DEF UartType, Room, Chars, Sending, Speeds

\* DLAB of the values of the line control register.
LEMMA Dlab ==
  ASSUME NEW u \in UartType
  PROVE  /\ u.lcr.dlab <=> u.lcr = LCR_DLAB
         /\ ~ u.lcr.dlab <=> u.lcr = LCR_8N1
         /\ u.lcr.dlab \in BOOLEAN
<1>1. u.lcr \in {LCR_8N1, LCR_DLAB}
  BY PortFields
<1>2. LCR_8N1.dlab = FALSE /\ LCR_DLAB.dlab = TRUE
  BY Zenon DEF LCR_8N1, LCR_DLAB
<1>3. CASE u.lcr = LCR_8N1
  BY <1>2, <1>3, Zenon
<1>4. CASE u.lcr = LCR_DLAB
  BY <1>2, <1>4, Zenon
<1> QED
  BY <1>1, <1>3, <1>4

\* Garbling keeps the byte.
LEMMA Garbling ==
  ASSUME NEW u \in UartType
  PROVE  /\ Garbled(u) \in Seq(SentBytes)
         /\ Len(Garbled(u)) = Len(u.tsr) /\ DOMAIN Garbled(u) = DOMAIN u.tsr
         /\ \A i \in DOMAIN u.tsr : Garbled(u)[i].byte = u.tsr[i].byte
<1>1. u.tsr \in Seq(SentBytes)
  BY PortFields
<1>2. /\ Len(u.tsr) \in Nat /\ DOMAIN u.tsr = 1 .. Len(u.tsr)
      /\ \A i \in 1 .. Len(u.tsr) : u.tsr[i] \in SentBytes
  BY <1>1, LenProperties, ElementOfSeq
<1>3. Garbled(u) = [i \in 1 .. Len(u.tsr) |-> Sent(u.tsr[i].byte, FALSE)]
  BY <1>2 DEF Garbled
<1>4. \A i \in 1 .. Len(u.tsr) : Sent(u.tsr[i].byte, FALSE) \in SentBytes
  BY <1>2 DEF Sent, SentBytes
<1>5. Garbled(u) \in Seq(SentBytes) /\ Len(Garbled(u)) = Len(u.tsr)
  <2>1. Garbled(u) \in [1 .. Len(u.tsr) -> SentBytes]
    BY <1>3, <1>4
  <2> QED
    BY <1>2, <2>1, FunctionIsSeq
<1>6. \A i \in 1 .. Len(u.tsr) : Garbled(u)[i].byte = u.tsr[i].byte
  BY <1>3 DEF Sent
<1> QED
  BY <1>2, <1>3, <1>5, <1>6

\* outb to the interrupt enable register, or the high half of the divisor.
LEMMA OutIer ==
  ASSUME NEW u \in UartType
  PROVE  LET w == Outb(u, "IER", 0).uart
         IN  /\ w \in UartType /\ Outb(u, "IER", 0).lost = << >>
             /\ w.lcr = u.lcr /\ w.baud = u.baud /\ w.fifo = u.fifo /\ w.loop = u.loop
             /\ w.thr = u.thr /\ w.rx = u.rx /\ w.tsr \in {u.tsr, Garbled(u)}
<1>1. CASE u.lcr.dlab
  <2>1. Outb(u, "IER", 0)
          = [uart |-> [u EXCEPT !.baud[2] = 0, !.tsr = Garbled(u)], lost |-> << >>]
    BY <1>1 DEF Outb
  <2>2. [u.baud EXCEPT ![2] = 0] = u.baud
    BY PortFields
  <2>3. Outb(u, "IER", 0)
          = [uart |-> [u EXCEPT !.baud = u.baud, !.tsr = Garbled(u)], lost |-> << >>]
    BY <2>1, <2>2 DEF UartType
  <2>4. u.baud \in Speeds /\ Garbled(u) \in Sending
    BY PortFields, Garbling DEF Speeds, Sending
  <2>5. PICK w : w = [u EXCEPT !.baud = u.baud, !.tsr = Garbled(u)]
    OBVIOUS
  <2>6. Outb(u, "IER", 0).uart = w /\ Outb(u, "IER", 0).lost = << >>
    BY <2>3, <2>5
  <2>7. /\ w \in UartType /\ w.lcr = u.lcr /\ w.baud = u.baud /\ w.fifo = u.fifo
        /\ w.loop = u.loop /\ w.thr = u.thr /\ w.tsr = Garbled(u) /\ w.rx = u.rx
    BY <2>4, <2>5 DEF UartType
  <2> QED
    BY <2>6, <2>7
<1>2. CASE ~ u.lcr.dlab
  <2>1. Outb(u, "IER", 0) = [uart |-> [u EXCEPT !.ier = 0], lost |-> << >>]
    BY <1>2 DEF Outb
  <2> QED
    BY <2>1 DEF UartType
<1> QED
  BY <1>1, <1>2

\* outb to the low half of the divisor.
LEMMA OutDivisor ==
  ASSUME NEW u \in UartType, u.lcr = LCR_DLAB
  PROVE  LET w == Outb(u, "DATA", 1).uart
         IN  /\ w \in UartType /\ Outb(u, "DATA", 1).lost = << >>
             /\ w.lcr = u.lcr /\ w.baud = <<1, 0>> /\ w.fifo = u.fifo /\ w.loop = u.loop
             /\ w.thr = u.thr /\ w.rx = u.rx /\ w.tsr = Garbled(u)
<1>1. Outb(u, "DATA", 1)
        = [uart |-> [u EXCEPT !.baud[1] = 1, !.tsr = Garbled(u)], lost |-> << >>]
  BY Dlab DEF Outb
<1>2. [u.baud EXCEPT ![1] = 1] = <<1, 0>>
  BY PortFields
<1>3. Outb(u, "DATA", 1)
        = [uart |-> [u EXCEPT !.baud = <<1, 0>>, !.tsr = Garbled(u)], lost |-> << >>]
  BY <1>1, <1>2 DEF UartType
<1>4. <<1, 0>> \in Speeds /\ Garbled(u) \in Sending
  BY Garbling DEF Speeds, Sending
<1>5. PICK w : w = [u EXCEPT !.baud = <<1, 0>>, !.tsr = Garbled(u)]
  OBVIOUS
<1>6. Outb(u, "DATA", 1).uart = w /\ Outb(u, "DATA", 1).lost = << >>
  BY <1>3, <1>5
<1>7. /\ w \in UartType /\ w.lcr = u.lcr /\ w.baud = <<1, 0>> /\ w.fifo = u.fifo
      /\ w.loop = u.loop /\ w.thr = u.thr /\ w.tsr = Garbled(u) /\ w.rx = u.rx
  BY <1>4, <1>5 DEF UartType
<1> QED
  BY <1>6, <1>7

\* outb to the transmitter when it is empty.
LEMMA OutData ==
  ASSUME NEW u \in UartType, u.lcr = LCR_8N1, u.thr = << >>, NEW b \in Char
  PROVE  LET w == Outb(u, "DATA", b).uart
         IN  /\ w \in UartType /\ Outb(u, "DATA", b).lost = << >>
             /\ w.lcr = u.lcr /\ w.baud = u.baud /\ w.fifo = u.fifo /\ w.loop = u.loop
             /\ w.thr = <<b>> /\ w.rx = u.rx /\ w.tsr = u.tsr
<1>1. Len(u.thr) < Room(u)
  BY PortFields
<1>2. Outb(u, "DATA", b) = [uart |-> [u EXCEPT !.thr = Append(@, b)], lost |-> << >>]
  <2>1. ~ u.lcr.dlab /\ ~ (Len(u.thr) >= Room(u))
    BY <1>1, Dlab, PortFields
  <2> QED
    BY <1>1, <2>1 DEF Outb
<1>3. Append(u.thr, b) = <<b>> /\ <<b>> \in Chars
  BY DEF Chars
<1>4. Outb(u, "DATA", b) = [uart |-> [u EXCEPT !.thr = <<b>>], lost |-> << >>]
  BY <1>2, <1>3
<1> QED
  BY <1>3, <1>4 DEF UartType

\* outb to the line control register.
LEMMA OutLcr ==
  ASSUME NEW u \in UartType, NEW v \in {LCR_8N1, LCR_DLAB}
  PROVE  LET w == Outb(u, "LCR", v).uart
         IN  /\ w \in UartType /\ Outb(u, "LCR", v).lost = << >>
             /\ w.lcr = v /\ w.baud = u.baud /\ w.fifo = u.fifo /\ w.loop = u.loop
             /\ w.thr = u.thr /\ w.rx = u.rx /\ w.tsr = Garbled(u)
<1>1. Outb(u, "LCR", v) = [uart |-> [u EXCEPT !.lcr = v, !.tsr = Garbled(u)], lost |-> << >>]
  BY DEF Outb
<1>2. Garbled(u) \in Sending
  BY Garbling DEF Sending
<1>3. PICK w : w = [u EXCEPT !.lcr = v, !.tsr = Garbled(u)]
  OBVIOUS
<1>4. Outb(u, "LCR", v).uart = w /\ Outb(u, "LCR", v).lost = << >>
  BY <1>1, <1>3
<1>5. /\ w \in UartType /\ w.lcr = v /\ w.baud = u.baud /\ w.fifo = u.fifo
      /\ w.loop = u.loop /\ w.thr = u.thr /\ w.tsr = Garbled(u) /\ w.rx = u.rx
  BY <1>2, <1>3 DEF UartType
<1> QED
  BY <1>4, <1>5

\* outb to the FIFO control register.
LEMMA OutFcr ==
  ASSUME NEW u \in UartType
  PROVE  LET w == Outb(u, "FCR", 0).uart
         IN  /\ w \in UartType /\ Outb(u, "FCR", 0).lost = u.thr
             /\ w.lcr = u.lcr /\ w.baud = u.baud /\ w.fifo = TRUE /\ w.loop = u.loop
             /\ w.thr = << >> /\ w.rx = << >> /\ w.tsr = u.tsr
<1>1. Outb(u, "FCR", 0)
        = [uart |-> [u EXCEPT !.fifo = TRUE, !.thr = << >>, !.rx = << >>], lost |-> u.thr]
  BY DEF Outb
<1>2. << >> \in Chars
  BY DEF Chars
<1>3. PICK w : w = [u EXCEPT !.fifo = TRUE, !.thr = << >>, !.rx = << >>]
  OBVIOUS
<1>4. Outb(u, "FCR", 0).uart = w /\ Outb(u, "FCR", 0).lost = u.thr
  BY <1>1, <1>3
<1>5. /\ w \in UartType /\ w.lcr = u.lcr /\ w.baud = u.baud /\ w.fifo = TRUE
      /\ w.loop = u.loop /\ w.thr = << >> /\ w.tsr = u.tsr /\ w.rx = << >>
  BY <1>2, <1>3 DEF UartType
<1> QED
  BY <1>4, <1>5

\* outb to the modem control register.
LEMMA OutMcr ==
  ASSUME NEW u \in UartType, NEW v \in BOOLEAN
  PROVE  LET w == Outb(u, "MCR", v).uart
         IN  /\ w \in UartType /\ Outb(u, "MCR", v).lost = << >>
             /\ w.lcr = u.lcr /\ w.baud = u.baud /\ w.fifo = u.fifo /\ w.loop = v
             /\ w.thr = u.thr /\ w.rx = u.rx /\ w.tsr = u.tsr
<1>1. Outb(u, "MCR", v) = [uart |-> [u EXCEPT !.loop = v], lost |-> << >>]
  BY DEF Outb
<1> QED
  BY <1>1 DEF UartType

\* The transmitter loads its shift register.
LEMMA Loading ==
  ASSUME NEW u \in UartType, CanLoad(u), Len(u.thr) <= 1
  PROVE  LET w == Load(u)
         IN  /\ w \in UartType
             /\ w.lcr = u.lcr /\ w.baud = u.baud /\ w.fifo = u.fifo /\ w.loop = u.loop
             /\ u.thr = <<Head(u.thr)>> /\ Head(u.thr) \in Char /\ u.tsr = << >>
             /\ w.thr = << >> /\ w.rx = u.rx /\ w.tsr = <<Sent(Head(u.thr), Configured(u))>>
<1>1. u.thr \in Seq(Char) /\ u.thr # << >> /\ u.tsr = << >>
  BY PortFields DEF CanLoad
<1>2. u.thr = <<Head(u.thr)>> /\ Tail(u.thr) = << >> /\ Head(u.thr) \in Char
  BY <1>1
<1>3. Sent(Head(u.thr), Configured(u)) \in SentBytes
  BY <1>2 DEF Sent, SentBytes, Configured
<1>4. <<Sent(Head(u.thr), Configured(u))>> \in Sending
  BY <1>3, Tuples, Zenon DEF Sending
<1>5. Load(u) = [u EXCEPT !.thr = << >>, !.tsr = <<Sent(Head(u.thr), Configured(u))>>]
  BY <1>2 DEF Load
<1>6. << >> \in Chars
  BY DEF Chars
<1>7. PICK w : w = Load(u)
  OBVIOUS
<1>8. w = [u EXCEPT !.thr = << >>, !.tsr = <<Sent(Head(u.thr), Configured(u))>>]
  BY <1>5, <1>7
<1>9. /\ w \in UartType /\ w.lcr = u.lcr /\ w.baud = u.baud /\ w.fifo = u.fifo
      /\ w.loop = u.loop /\ w.thr = << >> /\ w.tsr = <<Sent(Head(u.thr), Configured(u))>>
      /\ w.rx = u.rx
  BY <1>4, <1>6, <1>8 DEF UartType
<1> QED
  BY <1>1, <1>2, <1>7, <1>9, Zenon

\* The receiver gets a byte.
LEMMA Receiving ==
  ASSUME NEW u \in UartType, NEW b \in Char
  PROVE  LET w == Received(u, b)
         IN  /\ w \in UartType
             /\ w.lcr = u.lcr /\ w.baud = u.baud /\ w.fifo = u.fifo /\ w.loop = u.loop
             /\ w.thr = u.thr /\ w.tsr = u.tsr /\ w.rx \in {u.rx, Append(u.rx, b)}
             /\ w # u => w.rx = Append(u.rx, b)
             /\ u.rx = << >> => w.rx = <<b>>
<1>1. u.rx \in Chars /\ Append(u.rx, b) \in Chars
  BY PortFields DEF Chars
<1>2. CASE Len(u.rx) < Room(u)
  <2>1. Received(u, b) = [u EXCEPT !.rx = Append(u.rx, b)]
    BY <1>2 DEF Received
  <2>2. u.rx = << >> => Append(u.rx, b) = <<b>>
    OBVIOUS
  <2> QED
    BY <1>1, <2>1, <2>2 DEF UartType
<1>3. CASE ~ (Len(u.rx) < Room(u))
  <2>1. Received(u, b) = u
    BY <1>3 DEF Received
  <2>2. u.rx # << >>
    BY <1>3, PortFields
  <2> QED
    BY <2>1, <2>2
<1> QED
  BY <1>2, <1>3

\* The shift register is emptied.
LEMMA Shifting ==
  ASSUME NEW u \in UartType, CanShift(u), Len(u.tsr) <= 1
  PROVE  LET w == Shifted(u)
             b == IF u.tsr[1].clear THEN u.tsr[1].byte ELSE "noise"
         IN  /\ w \in UartType /\ b \in Char
             /\ w.lcr = u.lcr /\ w.baud = u.baud /\ w.fifo = u.fifo /\ w.loop = u.loop
             /\ w.thr = u.thr /\ w.tsr = << >>
             /\ u.tsr = <<u.tsr[1]>> /\ u.tsr[1] \in SentBytes
             /\ ~ u.loop => w.rx = u.rx
             /\ u.loop => w.rx \in {u.rx, Append(u.rx, b)}
             /\ u.loop /\ u.rx = << >> => w.rx = <<b>>
<1> DEFINE b == IF u.tsr[1].clear THEN u.tsr[1].byte ELSE "noise"
           v == [u EXCEPT !.tsr = << >>]
<1>1. u.tsr \in Seq(SentBytes) /\ u.tsr # << >>
  BY PortFields DEF CanShift
<1>2. u.tsr = <<u.tsr[1]>> /\ u.tsr[1] \in SentBytes
  BY <1>1
<1>3. b \in Char
  BY <1>2 DEF SentBytes, Char
<1>4. /\ v \in UartType /\ v.lcr = u.lcr /\ v.baud = u.baud /\ v.fifo = u.fifo
      /\ v.loop = u.loop /\ v.thr = u.thr /\ v.tsr = << >> /\ v.rx = u.rx
  <2>1. << >> \in Sending
    BY DEF Sending
  <2> QED
    BY <2>1 DEF UartType
<1>5. Shifted(u) = IF u.loop THEN Received(v, b) ELSE v
  BY DEF Shifted
<1> HIDE DEF v, b
<1>6. CASE u.loop
  <2>1. Shifted(u) = Received(v, b)
    BY <1>5, <1>6
  <2> DEFINE w == Received(v, b)
  <2>2. /\ w \in UartType
        /\ w.lcr = v.lcr /\ w.baud = v.baud /\ w.fifo = v.fifo /\ w.loop = v.loop
        /\ w.thr = v.thr /\ w.tsr = v.tsr /\ w.rx \in {v.rx, Append(v.rx, b)}
        /\ v.rx = << >> => w.rx = <<b>>
    BY <1>3, <1>4, Receiving
  <2> HIDE DEF w
  <2>3. Shifted(u) = w
    BY <2>1 DEF w
  <2> QED
    BY <1>2, <1>3, <1>4, <1>6, <2>2, <2>3, Zenon DEF b
<1>7. CASE ~ u.loop
  <2>1. Shifted(u) = v
    BY <1>5, <1>7
  <2> QED
    BY <1>2, <1>3, <1>4, <1>7, <2>1 DEF b
<1> QED
  BY <1>6, <1>7

\* A byte is read.
LEMMA Reading ==
  ASSUME NEW u \in UartType
  PROVE  LET w == AfterInb(u)
         IN  /\ w \in UartType
             /\ w.lcr = u.lcr /\ w.baud = u.baud /\ w.fifo = u.fifo /\ w.loop = u.loop
             /\ w.thr = u.thr /\ w.tsr = u.tsr
             /\ DATA_READY(u) => u.rx # << >> /\ Head(u.rx) \in Char /\ Inb(u) = Head(u.rx)
                                   /\ w.rx = Tail(u.rx)
             /\ ~ DATA_READY(u) => u.rx = << >> /\ Inb(u) = "stale" /\ w.rx = u.rx
<1>1. u.rx \in Seq(Char)
  BY PortFields
<1>2. CASE DATA_READY(u)
  <2>1. AfterInb(u) = [u EXCEPT !.rx = Tail(u.rx)] /\ Inb(u) = Head(u.rx) /\ u.rx # << >>
    BY <1>2 DEF AfterInb, Inb, DATA_READY
  <2>2. Tail(u.rx) \in Chars /\ Head(u.rx) \in Char
    BY <1>1, <2>1 DEF Chars
  <2> QED
    BY <1>2, <2>1, <2>2 DEF UartType
<1>3. CASE ~ DATA_READY(u)
  BY <1>3 DEF AfterInb, Inb, DATA_READY
<1> QED
  BY <1>2, <1>3

----------------------------------------------------------------------------
(* Types, the lock, and the positions of serial::init.                     *)

\* The main flow moves on outside Serial::init.
Passes ==
  /\ at' \in [main : 1 .. Len(Main), irq : 1 .. Len(Irq)]
  /\ \/ at'.main = at.main
     \/ /\ at'.main = at.main + 1
        /\ at.main \in 1 .. P(2) \cup P(13) .. HaltAt - 1 \cup {PanicAt}

\* A step that leaves the port alone, its receiver aside.
LEMMA PortKept ==
  ASSUME PortType, PortFits, Passes, uart'.thr = uart.thr,
         uart'.lcr = uart.lcr, uart'.loop = uart.loop, uart'.baud = uart.baud,
         uart'.fifo = uart.fifo
  PROVE  PortFits'
<1>1. at.main \in 1 .. Len(Main)
  BY DEF PortType
<1>2. PICK i, j : i = at.main /\ j = at'.main
  OBVIOUS
<1>3. \/ j = i
      \/ j = i + 1 /\ i \in 1 .. P(2) \cup P(13) .. HaltAt - 1 \cup {PanicAt}
  BY <1>2 DEF Passes
<1>4. i \in 1 .. Len(Main)
  BY <1>1, <1>2
<1>5. /\ i \in {P(9), P(10)} => uart.thr = << >>
      /\ i < PanicAt => (uart.lcr = LCR_DLAB <=> i \in P(5) .. P(7))
      /\ i < PanicAt => (uart.loop <=> i \in P(10) .. P(12))
      /\ i \in P(6) .. HaltAt => uart.baud = <<1, 0>>
      /\ i \in P(9) .. HaltAt => uart.fifo
  BY <1>2 DEF PortFits
<1>6. /\ j \in {P(9), P(10)} => i \in {P(9), P(10)}
      /\ j < PanicAt => i < PanicAt
      /\ j < PanicAt => (j \in P(5) .. P(7) <=> i \in P(5) .. P(7))
      /\ j < PanicAt => (j \in P(10) .. P(12) <=> i \in P(10) .. P(12))
      /\ j \in P(6) .. HaltAt => i \in P(6) .. HaltAt
      /\ j \in P(9) .. HaltAt => i \in P(9) .. HaltAt
  <2>1. CASE j = i
    BY <2>1, Zenon
  <2>2. ASSUME j # i
        PROVE  j = i + 1 /\ (i \in 1 .. P(2) \/ i \in P(13) .. HaltAt - 1 \/ i = PanicAt)
    BY <1>3, <2>2
  <2>3. CASE j = i + 1 /\ i \in 1 .. P(2)
    BY <2>3, Lengths DEF P
  <2>4. CASE j = i + 1 /\ i \in P(13) .. HaltAt - 1
    BY <2>4, Lengths DEF P
  <2>5. CASE j = i + 1 /\ i = PanicAt
    BY <2>5, Lengths DEF P
  <2> QED
    BY <2>1, <2>2, <2>3, <2>4, <2>5, Zenon
<1>7. /\ j \in {P(9), P(10)} => uart.thr = << >>
      /\ j < PanicAt => (uart.lcr = LCR_DLAB <=> j \in P(5) .. P(7))
      /\ j < PanicAt => (uart.loop <=> j \in P(10) .. P(12))
      /\ j \in P(6) .. HaltAt => uart.baud = <<1, 0>>
      /\ j \in P(9) .. HaltAt => uart.fifo
  BY <1>5, <1>6
<1> QED
  BY <1>2, <1>7 DEF PortFits, P, PanicAt, HaltAt

\* A step that leaves the port alone.
LEMMA PortStays ==
  ASSUME PortType, PortFits, Passes, uart' = uart
  PROVE  PortFits'
BY PortKept

\* The main flow continues.
LEMMA MainGoesOn ==
  ASSUME PortType, LockFits, running = "main", Continue,
         at.main \in 1 .. P(2) \cup P(13) .. HaltAt - 1 \cup {PanicAt}
  PROVE  Passes /\ at'.main = at.main + 1 /\ at'.irq = at.irq
<1>1. Goto(at.main + 1)
  BY DEF Continue
<1>2. at.main + 1 \in 1 .. Len(Main)
  BY Here, Lengths DEF P
<1> QED
  BY <1>1, <1>2, Going DEF Passes

\* A handler continues.
LEMMA IrqGoesOn ==
  ASSUME PortType, LockFits, running = "irq", Continue, at.irq <= Len(Handler)
  PROVE  Passes /\ at'.main = at.main /\ at'.irq = at.irq + 1
<1>1. Goto(at.irq + 1)
  BY DEF Continue
<1>2. at.irq + 1 \in 1 .. Len(Irq)
  BY Here, Lengths, IrqIs
<1> QED
  BY <1>1, <1>2, Going DEF Passes

\* The main flow has the lock of a line only while it logs.
LEMMA NotLogging ==
  ASSUME PortType, LockFits, running = "main", ~ Doing("log")
  PROVE  owner # "main" /\ owner # "irq"
<1>1. This = Main[at.main]
  BY Here
<1> QED
  BY <1>1 DEF LockFits, Doing

\* A step of either context that leaves the port alone moves on outside
\* Serial::init.
LEMMA GoesOn ==
  ASSUME Typed,
         SetLevel \/ Acquire \/ Release \/ EnableInterrupts \/ Interrupt \/ Return
           \/ LogLine \/ LogEnd
  PROVE  Passes
<1> USE DEF Typed
<1>1. CASE SetLevel
  <2>1. running = "main" /\ at.main = 1
    BY <1>1, Where DEF SetLevel
  <2> QED
    BY <1>1, <2>1, MainGoesOn, Lengths DEF SetLevel, P
<1>2. CASE Acquire
  <2>1. running = "main" /\ at.main = P(2)
    BY <1>2, Where DEF Acquire
  <2> QED
    BY <1>2, <2>1, MainGoesOn, Lengths DEF Acquire, P
<1>3. CASE Release
  <2>1. running = "main" /\ at.main = P(13)
    BY <1>3, Where DEF Release
  <2> QED
    BY <1>3, <2>1, MainGoesOn, Lengths DEF Release, P
<1>4. CASE EnableInterrupts
  <2>1. running = "main" /\ at.main = P(14)
    BY <1>4, Where DEF EnableInterrupts
  <2> QED
    BY <1>4, <2>1, MainGoesOn, Lengths DEF EnableInterrupts, P
<1>5. CASE Interrupt
  <2>1. 1 \in 1 .. Len(Irq)
    BY Lengths, IrqIs
  <2> QED
    BY <1>5, <2>1 DEF Interrupt, Passes, PortType
<1>6. CASE Return
  BY <1>6 DEF Passes, PortType, Return
<1>7. CASE LogLine \/ LogEnd
  <2>1. Doing("log")
    BY <1>7, Here DEF LockFits, LogLine, LogEnd, Doing
  <2>2. /\ \/ running = "irq" /\ at.irq <= Len(Handler)
           \/ running = "main" /\ at.main \in 2 .. P(1)
           \/ running = "main" /\ at.main \in P(15) .. HaltAt - 3
           \/ running = "main" /\ at.main = PanicAt
    BY <2>1, Where
  <2>3. Continue \/ at' = at
    BY <1>7 DEF LogLine, LogEnd
  <2>4. CASE at' = at
    BY <2>4 DEF Passes, PortType
  <2>5. CASE Continue /\ running = "irq"
    BY <2>2, <2>5, IrqGoesOn
  <2>6. CASE Continue /\ running = "main"
    BY <2>2, <2>6, MainGoesOn, Lengths DEF P
  <2> QED
    BY <2>2, <2>3, <2>4, <2>5, <2>6
<1> QED
  BY <1>1, <1>2, <1>3, <1>4, <1>5, <1>6, <1>7

LEMMA TypedSetLevel == Typed /\ SetLevel => Typed'
<1> SUFFICES ASSUME Typed, SetLevel
             PROVE  Typed'
  OBVIOUS
<1> USE DEF Typed
<1>1. running = "main" /\ at.main = 1 /\ This.val = Level
  BY Where DEF SetLevel
<1>2. Passes /\ at'.main = 2 /\ at'.irq = at.irq
  BY <1>1, MainGoesOn, Lengths DEF SetLevel, P
<1>3. PortFits'
  BY <1>2, PortStays DEF SetLevel
<1>4. log_level' \in 0 .. 5 /\ log_level' = Level
  BY <1>1, SerialAssumption DEF SetLevel
<1>5. PortType'
  BY <1>2, <1>4 DEF PortType, SetLevel, Passes
<1>6. owner # "main" /\ owner # "irq"
  BY <1>1, NotLogging DEF SetLevel, Doing
<1>7. LockFits'
  BY <1>1, <1>2, <1>4, <1>6, Lengths DEF LockFits, SetLevel, P, PanicAt, HaltAt
<1> QED
  BY <1>3, <1>5, <1>7

LEMMA TypedAcquire == Typed /\ Acquire => Typed'
<1> SUFFICES ASSUME Typed, Acquire
             PROVE  Typed'
  OBVIOUS
<1> USE DEF Typed
<1>1. running = "main" /\ at.main = P(2)
  BY Where DEF Acquire
<1>2. Passes /\ at'.main = P(3) /\ at'.irq = at.irq
  BY <1>1, MainGoesOn, Lengths DEF Acquire, P
<1>3. PortFits'
  BY <1>2, PortStays DEF Acquire
<1>4. PortType'
  BY <1>2 DEF PortType, Acquire, Passes
<1>5. LockFits'
  BY <1>1, <1>2, Lengths DEF LockFits, Acquire, P, PanicAt, HaltAt
<1> QED
  BY <1>3, <1>4, <1>5

LEMMA TypedRelease == Typed /\ Release => Typed'
<1> SUFFICES ASSUME Typed, Release
             PROVE  Typed'
  OBVIOUS
<1> USE DEF Typed
<1>1. running = "main" /\ at.main = P(13)
  BY Where DEF Release
<1>2. Passes /\ at'.main = P(14) /\ at'.irq = at.irq
  BY <1>1, MainGoesOn, Lengths DEF Release, P
<1>3. PortFits'
  BY <1>2, PortStays DEF Release
<1>4. PortType'
  BY <1>2 DEF PortType, Release, Passes
<1>5. LockFits'
  BY <1>1, <1>2, Lengths DEF LockFits, Release, P, PanicAt, HaltAt
<1> QED
  BY <1>3, <1>4, <1>5

LEMMA TypedEnableInterrupts == Typed /\ EnableInterrupts => Typed'
<1> SUFFICES ASSUME Typed, EnableInterrupts
             PROVE  Typed'
  OBVIOUS
<1> USE DEF Typed
<1>1. running = "main" /\ at.main = P(14)
  BY Where DEF EnableInterrupts
<1>2. Passes /\ at'.main = P(15) /\ at'.irq = at.irq
  BY <1>1, MainGoesOn, Lengths DEF EnableInterrupts, P
<1>3. PortFits'
  BY <1>2, PortStays DEF EnableInterrupts
<1>4. PortType'
  BY <1>2 DEF PortType, EnableInterrupts, Passes
<1>5. owner # "main" /\ owner # "irq"
  BY <1>1, NotLogging DEF EnableInterrupts, Doing
<1>6. LockFits'
  BY <1>1, <1>2, <1>5, Lengths DEF LockFits, EnableInterrupts, P, PanicAt, HaltAt
<1> QED
  BY <1>3, <1>4, <1>6

LEMMA TypedInterrupt == Typed /\ Interrupt => Typed'
<1> SUFFICES ASSUME Typed, Interrupt
             PROVE  Typed'
  OBVIOUS
<1> USE DEF Typed
<1>1. 1 \in 1 .. Len(Irq)
  BY Lengths, IrqIs
<1>2. Passes /\ at'.main = at.main /\ at'.irq = 1
  BY <1>1 DEF Interrupt, Passes, PortType
<1>3. PortFits'
  BY <1>2, PortStays DEF Interrupt
<1>4. PortType'
  BY <1>2 DEF PortType, Interrupt, Passes
<1>5. LockFits'
  BY <1>2 DEF LockFits, Interrupt
<1> QED
  BY <1>3, <1>4, <1>5

LEMMA TypedReturn == Typed /\ Return => Typed'
<1> SUFFICES ASSUME Typed, Return
             PROVE  Typed'
  OBVIOUS
<1> USE DEF Typed
<1>1. running = "irq" /\ This.op = "iretq"
  BY Where DEF Return, Doing
<1>2. Passes
  BY DEF Passes, PortType, Return
<1>3. PortFits'
  BY <1>2, PortStays DEF Return
<1>4. PortType'
  BY DEF PortType, Return
<1>5. owner # "irq" /\ ready
  <2>1. This = Irq[at.irq]
    BY <1>1, Here
  <2> QED
    BY <1>1, <2>1 DEF LockFits
<1>6. LockFits'
  BY <1>5 DEF LockFits, Return
<1> QED
  BY <1>3, <1>4, <1>6

\* A line of the main flow is logged on one side of serial::init.
LEMMA LinePassed ==
  ASSUME NEW i, i \in 2 .. P(1) \/ i \in P(15) .. HaltAt - 3 \/ i = PanicAt
  PROVE  /\ i > 1 /\ i + 1 > 1
         /\ i \in P(3) .. P(13) \cup PanicAt .. Len(Main)
              <=> i + 1 \in P(3) .. P(13) \cup PanicAt .. Len(Main)
         /\ i \in P(14) .. HaltAt <=> i + 1 \in P(14) .. HaltAt
<1>1. CASE i \in 2 .. P(1)
  BY <1>1, Lengths DEF P
<1>2. CASE i \in P(15) .. HaltAt - 3
  BY <1>2, Lengths DEF P
<1>3. CASE i = PanicAt
  BY <1>3, Lengths DEF P
<1> QED
  BY <1>1, <1>2, <1>3, Zenon

LEMMA TypedLogLine == Typed /\ LogLine => Typed'
<1> SUFFICES ASSUME Typed, LogLine
             PROVE  Typed'
  OBVIOUS
<1> USE DEF Typed
<1>1. /\ This.val \in Lines
      /\ \/ running = "irq" /\ at.irq <= Len(Handler)
         \/ running = "main" /\ at.main \in 2 .. P(1)
         \/ running = "main" /\ at.main \in P(15) .. HaltAt - 3
         \/ running = "main" /\ at.main = PanicAt
  BY Where DEF LogLine
<1>2. This.val.text \in Seq(Byte \ {"CR"}) /\ This.val.text \in Seq(Byte)
  <2>1. This.val.text \in Seq(Byte \ {"CR"})
    BY <1>1 DEF Lines
  <2> QED
    BY <2>1
<1>3. said' \in Seq(Byte) /\ (~ ready => said' = said)
  BY <1>2 DEF LogLine, PortType
<1>4. CASE enabled(This.val)
  <2>1. owner = "none" /\ owner' = running /\ line' = This.val.text /\ at' = at
    BY <1>4 DEF LogLine
  <2>2. Passes
    BY <2>1 DEF Passes, PortType
  <2>3. PortFits'
    BY <2>2, PortStays DEF LogLine
  <2>4. PortType'
    BY <1>2, <1>3, <2>1 DEF PortType, LogLine
  <2>5. running = "main" => This = Main[at.main] /\ at.main \notin P(3) .. P(13) \cup PanicAt .. Len(Main)
    BY <2>1, Here DEF LockFits
  <2>6. running = "irq" => This = Irq[at.irq]
    BY Here
  <2>7. This.op = "log"
    BY DEF LogLine, Doing
  <2>8. ~ cr
    BY <2>1 DEF LockFits
  <2>9. LockFits'
    BY <1>3, <2>1, <2>5, <2>6, <2>7, <2>8 DEF LockFits, LogLine, P, PanicAt, HaltAt
  <2> QED
    BY <2>3, <2>4, <2>9
<1>5. CASE ~ enabled(This.val)
  <2>1. Continue /\ owner' = owner /\ line' = line /\ owner # running
    BY <1>5 DEF LogLine
  <2>2. CASE running = "irq"
    <3>1. Passes /\ at'.main = at.main
      BY <1>1, <2>1, <2>2, IrqGoesOn
    <3>2. PortFits'
      BY <3>1, PortStays DEF LogLine
    <3>3. PortType'
      BY <1>3, <2>1, <3>1 DEF PortType, LogLine, Passes
    <3>4. LockFits'
      BY <1>3, <2>1, <2>2, <3>1 DEF LockFits, LogLine
    <3> QED
      BY <3>2, <3>3, <3>4
  <2>3. CASE running = "main"
    <3>1. Passes /\ at'.main = at.main + 1
      BY <1>1, <2>1, <2>3, MainGoesOn, Lengths DEF P
    <3>2. PortFits'
      BY <3>1, PortStays DEF LogLine
    <3>3. PortType'
      BY <1>3, <2>1, <3>1 DEF PortType, LogLine, Passes
    <3>4. owner # "main" /\ owner # "irq"
      BY <2>1, <2>3 DEF LockFits
    <3>5. /\ at.main > 1 /\ at'.main > 1
          /\ at.main \in P(3) .. P(13) \cup PanicAt .. Len(Main)
               <=> at'.main \in P(3) .. P(13) \cup PanicAt .. Len(Main)
          /\ at.main \in P(14) .. HaltAt <=> at'.main \in P(14) .. HaltAt
      BY <1>1, <2>3, <3>1, LinePassed
    <3>6. LockFits'
      BY <1>3, <2>1, <2>3, <3>4, <3>5 DEF LockFits, LogLine, P, PanicAt, HaltAt
    <3> QED
      BY <3>2, <3>3, <3>6
  <2> QED
    BY <1>1, <2>2, <2>3
<1> QED
  BY <1>4, <1>5

LEMMA TypedLogEnd == Typed /\ LogEnd => Typed'
<1> SUFFICES ASSUME Typed, LogEnd
             PROVE  Typed'
  OBVIOUS
<1> USE DEF Typed
<1>1. Doing("log")
  BY Here DEF LockFits, LogEnd, Doing
<1>2. /\ \/ running = "irq" /\ at.irq <= Len(Handler)
         \/ running = "main" /\ at.main \in 2 .. P(1)
         \/ running = "main" /\ at.main \in P(15) .. HaltAt - 3
         \/ running = "main" /\ at.main = PanicAt
  BY <1>1, Where
<1>3. Continue /\ owner = running /\ owner' = "none" /\ line = << >>
  BY DEF LogEnd
<1>4. ~ cr
  BY <1>3 DEF LockFits
<1>5. CASE running = "irq"
  <2>1. Passes /\ at'.main = at.main
    BY <1>2, <1>3, <1>5, IrqGoesOn
  <2>2. PortFits'
    BY <2>1, PortStays DEF LogEnd
  <2>3. PortType'
    BY <2>1 DEF PortType, LogEnd, Passes
  <2>4. LockFits'
    BY <1>3, <1>4, <1>5, <2>1 DEF LockFits, LogEnd
  <2> QED
    BY <2>2, <2>3, <2>4
<1>6. CASE running = "main"
  <2>1. Passes /\ at'.main = at.main + 1
    BY <1>2, <1>3, <1>6, MainGoesOn, Lengths DEF P
  <2>2. PortFits'
    BY <2>1, PortStays DEF LogEnd
  <2>3. PortType'
    BY <2>1 DEF PortType, LogEnd, Passes
  <2>4. /\ at.main > 1 /\ at'.main > 1
        /\ at.main \in P(3) .. P(13) \cup PanicAt .. Len(Main)
             <=> at'.main \in P(3) .. P(13) \cup PanicAt .. Len(Main)
        /\ at.main \in P(14) .. HaltAt <=> at'.main \in P(14) .. HaltAt
    BY <1>2, <1>6, <2>1, LinePassed
  <2>5. LockFits'
    BY <1>3, <1>4, <1>6, <2>4 DEF LockFits, LogEnd, P, PanicAt, HaltAt
  <2> QED
    BY <2>2, <2>3, <2>5
<1> QED
  BY <1>2, <1>5, <1>6

LEMMA TypedRead == Typed /\ read_byte => Typed'
<1> SUFFICES ASSUME Typed, read_byte
             PROVE  Typed'
  OBVIOUS
<1> USE DEF Typed
<1>1. running = "main" /\ at.main \in {HaltAt - 2, HaltAt - 1}
  BY Where DEF read_byte
<1>2. Passes /\ at'.main = at.main + 1 /\ at'.irq = at.irq
  BY <1>1, MainGoesOn, Lengths DEF read_byte, P
<1>3. uart \in UartType /\ uart' = AfterInb(uart)
  BY DEF PortType, read_byte
<1>4. /\ uart' \in UartType /\ uart'.thr = uart.thr /\ uart'.tsr = uart.tsr
      /\ uart'.lcr = uart.lcr /\ uart'.baud = uart.baud /\ uart'.fifo = uart.fifo
      /\ uart'.loop = uart.loop
  BY <1>3, Reading
<1>5. taken' \in Seq(Char)
  <2>1. DATA_READY(uart) => Inb(uart) \in Char
    BY <1>3, Reading
  <2>2. taken \in Seq(Char)
    BY DEF PortType
  <2> QED
    BY <2>1, <2>2 DEF read_byte
<1>6. PortType'
  BY <1>2, <1>4, <1>5 DEF PortType, read_byte, Passes
<1>7. owner # "main" /\ owner # "irq"
  BY <1>1, NotLogging DEF read_byte, Doing
<1>8. LockFits'
  <2>1. /\ at.main > 1 /\ at'.main > 1
        /\ at.main \in P(14) .. HaltAt /\ at'.main \in P(14) .. HaltAt
        /\ at.main \notin P(3) .. P(13) \cup PanicAt .. Len(Main)
        /\ at'.main \notin P(3) .. P(13) \cup PanicAt .. Len(Main)
    <3>1. \A i \in HaltAt - 2 .. HaltAt :
            i > 1 /\ i \in P(14) .. HaltAt /\ i \notin P(3) .. P(13) \cup PanicAt .. Len(Main)
      BY Lengths DEF P
    <3>2. at.main \in HaltAt - 2 .. HaltAt /\ at'.main \in HaltAt - 2 .. HaltAt
      BY <1>1, <1>2, Lengths
    <3> QED
      BY <3>1, <3>2
  <2> QED
    BY <1>1, <1>7, <2>1 DEF LockFits, read_byte, P, PanicAt, HaltAt
<1>9. PortFits'
  BY <1>2, <1>4, PortKept DEF read_byte
<1> QED
  BY <1>6, <1>8, <1>9

LEMMA TypedTest == Typed /\ Test => Typed'
<1> SUFFICES ASSUME Typed, Test
             PROVE  Typed'
  OBVIOUS
<1> USE DEF Typed
<1>1. running = "main" /\ at.main = P(11)
  BY Where DEF Test
<1>2. PICK i \in {P(12), PanicAt} : Goto(i)
  BY <1>1, Lengths DEF Test, P
<1>3. /\ at' \in [main : 1 .. Len(Main), irq : 1 .. Len(Irq)]
      /\ at'.main \in {P(12), PanicAt} /\ at'.irq = at.irq
  BY <1>1, <1>2, Going, Lengths DEF P
<1>4. uart \in UartType /\ uart' = AfterInb(uart)
  BY DEF PortType, Test
<1>5. /\ uart' \in UartType /\ uart'.thr = uart.thr /\ uart'.tsr = uart.tsr
      /\ uart'.lcr = uart.lcr /\ uart'.baud = uart.baud /\ uart'.fifo = uart.fifo
      /\ uart'.loop = uart.loop
  BY <1>4, Reading
<1>6. PortType'
  BY <1>3, <1>5 DEF PortType, Test
<1>7. owner # "main" /\ owner # "irq"
  BY <1>1, NotLogging DEF Test, Doing
<1>8. LockFits'
  BY <1>1, <1>3, <1>7, Lengths DEF LockFits, Test, P, PanicAt, HaltAt
<1>9. PortFits'
  BY <1>1, <1>3, <1>5, Lengths DEF PortFits, Test, P, PanicAt, HaltAt
<1> QED
  BY <1>6, <1>8, <1>9

\* What outb does to the port, by the position of serial::init.
OutEffect ==
  /\ at.main # P(8) => lost' = lost /\ uart'.fifo = uart.fifo
  /\ at.main = P(8) =>
       /\ lost' = lost \o uart.thr /\ uart'.fifo = TRUE
       /\ uart'.thr = << >> /\ uart'.rx = << >> /\ uart'.tsr = uart.tsr
  /\ at.main = P(10) =>
       uart'.thr = <<LOOPBACK_TEST_BYTE>> /\ uart'.rx = uart.rx /\ uart'.tsr = uart.tsr
  /\ at.main \notin {P(8), P(10)} =>
       uart'.thr = uart.thr /\ uart'.rx = uart.rx /\ uart'.tsr \in {uart.tsr, Garbled(uart)}
  /\ at.main = P(4) => uart'.lcr = LCR_DLAB
  /\ at.main = P(7) => uart'.lcr = LCR_8N1
  /\ at.main \notin {P(4), P(7)} => uart'.lcr = uart.lcr
  /\ at.main = P(5) => uart'.baud = <<1, 0>>
  /\ at.main # P(5) => uart'.baud = uart.baud
  /\ at.main = P(9) => uart'.loop = TRUE
  /\ at.main = P(12) => uart'.loop = FALSE
  /\ at.main \notin {P(9), P(12)} => uart'.loop = uart.loop
  /\ at.main = P(12) => uart'.tsr = uart.tsr

\* What an outb writes.
Wrote(reg, val) ==
  /\ uart' = Outb(uart, reg, val).uart
  /\ lost' = lost \o Outb(uart, reg, val).lost
  /\ Outb(uart, reg, val).lost = << >> => lost' = lost

\* The operation says what is written.
LEMMA OutWrites ==
  ASSUME PortType, OutStep, NEW reg, NEW val, This = Out(reg, val)
  PROVE  Wrote(reg, val)
<1>1. This.arg = reg /\ This.val = val
  BY DEF Out, Op
<1>2. uart' = Outb(uart, reg, val).uart /\ lost' = lost \o Outb(uart, reg, val).lost
  BY <1>1 DEF OutStep, Write
<1>3. lost \o << >> = lost
  BY ConcatEmptySeq DEF PortType
<1> QED
  BY <1>2, <1>3 DEF Wrote

LEMMA OutEffects ==
  ASSUME PortType, LockFits, PortFits, OutStep
  PROVE  /\ running = "main" /\ at.main \in P(3) .. P(10) \cup {P(12)}
         /\ at' \in [main : 1 .. Len(Main), irq : 1 .. Len(Irq)]
         /\ at'.main = at.main + 1 /\ at'.irq = at.irq
         /\ uart' \in UartType /\ OutEffect
<1>1. /\ running = "main" /\ at.main \in P(3) .. P(10) \cup {P(12)} /\ This = Main[at.main]
      /\ at.main \in 1 .. Len(Main)
  BY Where, Here DEF OutStep
<1>2. uart \in UartType
  BY DEF PortType
<1>3. /\ at' \in [main : 1 .. Len(Main), irq : 1 .. Len(Irq)]
      /\ at'.main = at.main + 1 /\ at'.irq = at.irq
  <2>1. Goto(at.main + 1)
    BY <1>1 DEF OutStep, Continue
  <2>2. at.main + 1 \in 1 .. Len(Main)
    <3>1. \A i \in P(3) .. P(10) \cup {P(12)} : i + 1 \in 1 .. Len(Main)
      BY Lengths DEF P
    <3> QED
      BY <1>1, <3>1
  <2> QED
    BY <1>1, <2>1, <2>2, Going
<1>4. /\ at.main < PanicAt
      /\ uart.lcr = LCR_DLAB <=> at.main \in P(5) .. P(7)
      /\ at.main = P(10) => uart.thr = << >>
  BY <1>1, Lengths DEF PortFits, P
<1> SUFFICES uart' \in UartType /\ OutEffect
  BY <1>1, <1>3
<1>5. CASE at.main = P(3)
  <2>1. Main[at.main] = Out("IER", 0)
    BY <1>1, <1>5, MainIs
  <2>2. Wrote("IER", 0)
    BY <1>1, <2>1, OutWrites
  <2>3. LET w == Outb(uart, "IER", 0).uart
        IN  /\ w \in UartType /\ Outb(uart, "IER", 0).lost = << >>
            /\ w.lcr = uart.lcr /\ w.baud = uart.baud /\ w.fifo = uart.fifo /\ w.loop = uart.loop
            /\ w.thr = uart.thr /\ w.rx = uart.rx /\ w.tsr \in {uart.tsr, Garbled(uart)}
    BY <1>2, OutIer
  <2>4. /\ uart' \in UartType /\ lost' = lost
        /\ uart'.lcr = uart.lcr /\ uart'.baud = uart.baud /\ uart'.fifo = uart.fifo /\ uart'.loop = uart.loop
        /\ uart'.thr = uart.thr /\ uart'.rx = uart.rx /\ uart'.tsr \in {uart.tsr, Garbled(uart)}
    BY <2>2, <2>3 DEF Wrote
  <2>5. at.main # P(4) /\ at.main # P(5) /\ at.main # P(7) /\ at.main # P(8) /\ at.main # P(9) /\ at.main # P(10) /\ at.main # P(12)
    BY <1>5, Lengths DEF P
  <2> QED
    BY <1>5, <2>4, <2>5 DEF OutEffect
<1>6. CASE at.main = P(4)
  <2>1. Main[at.main] = Out("LCR", LCR_DLAB)
    BY <1>1, <1>6, MainIs
  <2>2. Wrote("LCR", LCR_DLAB)
    BY <1>1, <2>1, OutWrites
  <2>3. LET w == Outb(uart, "LCR", LCR_DLAB).uart
        IN  /\ w \in UartType /\ Outb(uart, "LCR", LCR_DLAB).lost = << >>
            /\ w.lcr = LCR_DLAB /\ w.baud = uart.baud /\ w.fifo = uart.fifo /\ w.loop = uart.loop
            /\ w.thr = uart.thr /\ w.rx = uart.rx /\ w.tsr = Garbled(uart)
    BY <1>2, OutLcr
  <2>4. /\ uart' \in UartType /\ lost' = lost
        /\ uart'.lcr = LCR_DLAB /\ uart'.baud = uart.baud /\ uart'.fifo = uart.fifo /\ uart'.loop = uart.loop
        /\ uart'.thr = uart.thr /\ uart'.rx = uart.rx /\ uart'.tsr = Garbled(uart)
    BY <2>2, <2>3 DEF Wrote
  <2>5. at.main # P(5) /\ at.main # P(7) /\ at.main # P(8) /\ at.main # P(9) /\ at.main # P(10) /\ at.main # P(12)
    BY <1>6, Lengths DEF P
  <2> QED
    BY <1>6, <2>4, <2>5 DEF OutEffect
<1>7. CASE at.main = P(5)
  <2>1. Main[at.main] = Out("DATA", 1)
    BY <1>1, <1>7, MainIs
  <2>2. Wrote("DATA", 1)
    BY <1>1, <2>1, OutWrites
  <2>3. uart.lcr = LCR_DLAB
    BY <1>4, <1>7, Lengths DEF P
  <2>4. LET w == Outb(uart, "DATA", 1).uart
        IN  /\ w \in UartType /\ Outb(uart, "DATA", 1).lost = << >>
            /\ w.lcr = uart.lcr /\ w.baud = <<1, 0>> /\ w.fifo = uart.fifo /\ w.loop = uart.loop
            /\ w.thr = uart.thr /\ w.rx = uart.rx /\ w.tsr = Garbled(uart)
    BY <1>2, <2>3, OutDivisor
  <2>5. /\ uart' \in UartType /\ lost' = lost
        /\ uart'.lcr = uart.lcr /\ uart'.baud = <<1, 0>> /\ uart'.fifo = uart.fifo /\ uart'.loop = uart.loop
        /\ uart'.thr = uart.thr /\ uart'.rx = uart.rx /\ uart'.tsr = Garbled(uart)
    BY <2>2, <2>4 DEF Wrote
  <2>6. at.main # P(4) /\ at.main # P(7) /\ at.main # P(8) /\ at.main # P(9) /\ at.main # P(10) /\ at.main # P(12)
    BY <1>7, Lengths DEF P
  <2> QED
    BY <1>7, <2>5, <2>6 DEF OutEffect
<1>8. CASE at.main = P(6)
  <2>1. Main[at.main] = Out("IER", 0)
    BY <1>1, <1>8, MainIs
  <2>2. Wrote("IER", 0)
    BY <1>1, <2>1, OutWrites
  <2>3. LET w == Outb(uart, "IER", 0).uart
        IN  /\ w \in UartType /\ Outb(uart, "IER", 0).lost = << >>
            /\ w.lcr = uart.lcr /\ w.baud = uart.baud /\ w.fifo = uart.fifo /\ w.loop = uart.loop
            /\ w.thr = uart.thr /\ w.rx = uart.rx /\ w.tsr \in {uart.tsr, Garbled(uart)}
    BY <1>2, OutIer
  <2>4. /\ uart' \in UartType /\ lost' = lost
        /\ uart'.lcr = uart.lcr /\ uart'.baud = uart.baud /\ uart'.fifo = uart.fifo /\ uart'.loop = uart.loop
        /\ uart'.thr = uart.thr /\ uart'.rx = uart.rx /\ uart'.tsr \in {uart.tsr, Garbled(uart)}
    BY <2>2, <2>3 DEF Wrote
  <2>5. at.main # P(4) /\ at.main # P(5) /\ at.main # P(7) /\ at.main # P(8) /\ at.main # P(9) /\ at.main # P(10) /\ at.main # P(12)
    BY <1>8, Lengths DEF P
  <2> QED
    BY <1>8, <2>4, <2>5 DEF OutEffect
<1>9. CASE at.main = P(7)
  <2>1. Main[at.main] = Out("LCR", LCR_8N1)
    BY <1>1, <1>9, MainIs
  <2>2. Wrote("LCR", LCR_8N1)
    BY <1>1, <2>1, OutWrites
  <2>3. LET w == Outb(uart, "LCR", LCR_8N1).uart
        IN  /\ w \in UartType /\ Outb(uart, "LCR", LCR_8N1).lost = << >>
            /\ w.lcr = LCR_8N1 /\ w.baud = uart.baud /\ w.fifo = uart.fifo /\ w.loop = uart.loop
            /\ w.thr = uart.thr /\ w.rx = uart.rx /\ w.tsr = Garbled(uart)
    BY <1>2, OutLcr
  <2>4. /\ uart' \in UartType /\ lost' = lost
        /\ uart'.lcr = LCR_8N1 /\ uart'.baud = uart.baud /\ uart'.fifo = uart.fifo /\ uart'.loop = uart.loop
        /\ uart'.thr = uart.thr /\ uart'.rx = uart.rx /\ uart'.tsr = Garbled(uart)
    BY <2>2, <2>3 DEF Wrote
  <2>5. at.main # P(4) /\ at.main # P(5) /\ at.main # P(8) /\ at.main # P(9) /\ at.main # P(10) /\ at.main # P(12)
    BY <1>9, Lengths DEF P
  <2> QED
    BY <1>9, <2>4, <2>5 DEF OutEffect
<1>10. CASE at.main = P(8)
  <2>1. Main[at.main] = Out("FCR", 0)
    BY <1>1, <1>10, MainIs
  <2>2. Wrote("FCR", 0)
    BY <1>1, <2>1, OutWrites
  <2>3. LET w == Outb(uart, "FCR", 0).uart
        IN  /\ w \in UartType /\ Outb(uart, "FCR", 0).lost = uart.thr
            /\ w.lcr = uart.lcr /\ w.baud = uart.baud /\ w.fifo = TRUE /\ w.loop = uart.loop
            /\ w.thr = << >> /\ w.rx = << >> /\ w.tsr = uart.tsr
    BY <1>2, OutFcr
  <2>4. /\ uart' \in UartType /\ lost' = lost \o uart.thr
        /\ uart'.lcr = uart.lcr /\ uart'.baud = uart.baud /\ uart'.fifo = TRUE /\ uart'.loop = uart.loop
        /\ uart'.thr = << >> /\ uart'.rx = << >> /\ uart'.tsr = uart.tsr
    BY <2>2, <2>3 DEF Wrote
  <2>5. at.main # P(4) /\ at.main # P(5) /\ at.main # P(7) /\ at.main # P(9) /\ at.main # P(10) /\ at.main # P(12)
    BY <1>10, Lengths DEF P
  <2> QED
    BY <1>10, <2>4, <2>5 DEF OutEffect
<1>11. CASE at.main = P(9)
  <2>1. Main[at.main] = Out("MCR", TRUE)
    BY <1>1, <1>11, MainIs
  <2>2. Wrote("MCR", TRUE)
    BY <1>1, <2>1, OutWrites
  <2>3. LET w == Outb(uart, "MCR", TRUE).uart
        IN  /\ w \in UartType /\ Outb(uart, "MCR", TRUE).lost = << >>
            /\ w.lcr = uart.lcr /\ w.baud = uart.baud /\ w.fifo = uart.fifo /\ w.loop = TRUE
            /\ w.thr = uart.thr /\ w.rx = uart.rx /\ w.tsr = uart.tsr
    BY <1>2, OutMcr
  <2>4. /\ uart' \in UartType /\ lost' = lost
        /\ uart'.lcr = uart.lcr /\ uart'.baud = uart.baud /\ uart'.fifo = uart.fifo /\ uart'.loop = TRUE
        /\ uart'.thr = uart.thr /\ uart'.rx = uart.rx /\ uart'.tsr = uart.tsr
    BY <2>2, <2>3 DEF Wrote
  <2>5. at.main # P(4) /\ at.main # P(5) /\ at.main # P(7) /\ at.main # P(8) /\ at.main # P(10) /\ at.main # P(12)
    BY <1>11, Lengths DEF P
  <2> QED
    BY <1>11, <2>4, <2>5 DEF OutEffect
<1>12. CASE at.main = P(10)
  <2>1. Main[at.main] = Out("DATA", LOOPBACK_TEST_BYTE)
    BY <1>1, <1>12, MainIs
  <2>2. Wrote("DATA", LOOPBACK_TEST_BYTE)
    BY <1>1, <2>1, OutWrites
  <2>3. uart.lcr = LCR_8N1 /\ uart.thr = << >> /\ LOOPBACK_TEST_BYTE \in Char
    BY <1>2, <1>4, <1>12, PortFields, Lengths DEF P, Char
  <2>4. LET w == Outb(uart, "DATA", LOOPBACK_TEST_BYTE).uart
        IN  /\ w \in UartType /\ Outb(uart, "DATA", LOOPBACK_TEST_BYTE).lost = << >>
            /\ w.lcr = uart.lcr /\ w.baud = uart.baud /\ w.fifo = uart.fifo /\ w.loop = uart.loop
            /\ w.thr = <<LOOPBACK_TEST_BYTE>> /\ w.rx = uart.rx /\ w.tsr = uart.tsr
    BY <1>2, <2>3, OutData
  <2>5. /\ uart' \in UartType /\ lost' = lost
        /\ uart'.lcr = uart.lcr /\ uart'.baud = uart.baud /\ uart'.fifo = uart.fifo /\ uart'.loop = uart.loop
        /\ uart'.thr = <<LOOPBACK_TEST_BYTE>> /\ uart'.rx = uart.rx /\ uart'.tsr = uart.tsr
    BY <2>2, <2>4 DEF Wrote
  <2>6. at.main # P(4) /\ at.main # P(5) /\ at.main # P(7) /\ at.main # P(8) /\ at.main # P(9) /\ at.main # P(12)
    BY <1>12, Lengths DEF P
  <2> QED
    BY <1>12, <2>5, <2>6 DEF OutEffect
<1>13. CASE at.main = P(12)
  <2>1. Main[at.main] = Out("MCR", FALSE)
    BY <1>1, <1>13, MainIs
  <2>2. Wrote("MCR", FALSE)
    BY <1>1, <2>1, OutWrites
  <2>3. LET w == Outb(uart, "MCR", FALSE).uart
        IN  /\ w \in UartType /\ Outb(uart, "MCR", FALSE).lost = << >>
            /\ w.lcr = uart.lcr /\ w.baud = uart.baud /\ w.fifo = uart.fifo /\ w.loop = FALSE
            /\ w.thr = uart.thr /\ w.rx = uart.rx /\ w.tsr = uart.tsr
    BY <1>2, OutMcr
  <2>4. /\ uart' \in UartType /\ lost' = lost
        /\ uart'.lcr = uart.lcr /\ uart'.baud = uart.baud /\ uart'.fifo = uart.fifo /\ uart'.loop = FALSE
        /\ uart'.thr = uart.thr /\ uart'.rx = uart.rx /\ uart'.tsr = uart.tsr
    BY <2>2, <2>3 DEF Wrote
  <2>5. at.main # P(4) /\ at.main # P(5) /\ at.main # P(7) /\ at.main # P(8) /\ at.main # P(9) /\ at.main # P(10)
    BY <1>13, Lengths DEF P
  <2> QED
    BY <1>13, <2>4, <2>5 DEF OutEffect
<1>14. \/ at.main = P(3) \/ at.main = P(4) \/ at.main = P(5) \/ at.main = P(6)
       \/ at.main = P(7) \/ at.main = P(8) \/ at.main = P(9) \/ at.main = P(10)
       \/ at.main = P(12)
  BY <1>1, Lengths DEF P
<1> QED
  BY <1>5, <1>6, <1>7, <1>8, <1>9, <1>10, <1>11, <1>12, <1>13, <1>14

LEMMA TypedOutStep == Typed /\ OutStep => Typed'
<1> SUFFICES ASSUME Typed, OutStep
             PROVE  Typed'
  OBVIOUS
<1> USE DEF Typed
<1>1. /\ running = "main" /\ at.main \in P(3) .. P(10) \cup {P(12)}
      /\ at' \in [main : 1 .. Len(Main), irq : 1 .. Len(Irq)]
      /\ at'.main = at.main + 1 /\ at'.irq = at.irq
      /\ uart' \in UartType /\ OutEffect
  BY OutEffects
<1>2. uart \in UartType /\ Len(uart.thr) <= 1 /\ Len(uart.tsr) <= 1 /\ lost \in Seq(Char)
  BY DEF PortType
<1>3. Len(uart'.thr) <= 1 /\ Len(uart'.tsr) <= 1
  <2>1. uart'.thr \in {uart.thr, << >>, <<LOOPBACK_TEST_BYTE>>}
    BY <1>1 DEF OutEffect
  <2>2. uart'.tsr \in {uart.tsr, Garbled(uart)}
    BY <1>1 DEF OutEffect
  <2>3. Len(uart'.tsr) = Len(uart.tsr)
    BY <1>2, <2>2, Garbling
  <2>4. Len(<<LOOPBACK_TEST_BYTE>>) <= 1 /\ Len(<< >>) <= 1
    OBVIOUS
  <2>5. Len(uart'.thr) <= 1
    BY <1>2, <2>1, <2>4, Zenon
  <2> QED
    BY <1>2, <2>3, <2>5, Zenon
<1>4. lost' \in Seq(Char)
  <2>1. CASE at.main = P(8)
    <3>1. lost' = lost \o uart.thr
      BY <1>1, <2>1 DEF OutEffect
    <3>2. uart.thr \in Seq(Char)
      BY <1>2, PortFields
    <3> QED
      BY <1>2, <3>1, <3>2, ConcatProperties
  <2>2. CASE at.main # P(8)
    BY <1>1, <1>2, <2>2 DEF OutEffect
  <2> QED
    BY <2>1, <2>2
<1>5. PortType'
  BY <1>1, <1>3, <1>4 DEF PortType, OutStep
<1>6. owner = "init"
  <2>1. \A i \in P(3) .. P(10) \cup {P(12)} : i \in P(3) .. P(13)
    BY Lengths DEF P
  <2> QED
    BY <1>1, <2>1 DEF LockFits
<1>7. LockFits'
  <2>1. /\ at'.main \in P(3) .. P(13) /\ at'.main \notin P(14) .. HaltAt
        /\ at.main \notin P(14) .. HaltAt /\ at.main > 1
    <3>1. PICK i, j : i = at.main /\ j = at'.main
      OBVIOUS
    <3>2. (i \in P(3) .. P(10) \/ i = P(12)) /\ j = i + 1
      BY <1>1, <3>1
    <3>3. CASE i \in P(3) .. P(10)
      <4>1. /\ j \in P(3) .. P(13) /\ j \notin P(14) .. HaltAt
            /\ i \notin P(14) .. HaltAt /\ i > 1
        BY <3>2, <3>3, Lengths DEF P
      <4> QED
        BY <3>1, <4>1
    <3>4. CASE i = P(12)
      <4>1. /\ j \in P(3) .. P(13) /\ j \notin P(14) .. HaltAt
            /\ i \notin P(14) .. HaltAt /\ i > 1
        BY <3>2, <3>4, Lengths DEF P
      <4> QED
        BY <3>1, <4>1
    <3> QED
      BY <3>2, <3>3, <3>4
  <2>2. ~ ready /\ log_level = Level
    BY <2>1 DEF LockFits
  <2> QED
    BY <1>1, <1>6, <2>1, <2>2 DEF LockFits, OutStep, P, PanicAt, HaltAt
<1>8. PortFits'
  <2>1. PICK i, j : i = at.main /\ j = at'.main
    OBVIOUS
  <2>2. i \in P(3) .. P(10) \cup {P(12)} /\ j = i + 1
    BY <1>1, <2>1
  <2>3. /\ i \in {P(9), P(10)} => uart.thr = << >>
        /\ i < PanicAt => (uart.lcr = LCR_DLAB <=> i \in P(5) .. P(7))
        /\ i < PanicAt => (uart.loop <=> i \in P(10) .. P(12))
        /\ i \in P(6) .. HaltAt => uart.baud = <<1, 0>>
        /\ i \in P(9) .. HaltAt => uart.fifo
    BY <2>1 DEF PortFits
  <2>5. j \in {P(9), P(10)} => uart'.thr = << >>
    <3>1. /\ i = P(8) => uart'.thr = << >>
          /\ i \notin {P(8), P(10)} => uart'.thr = uart.thr
      BY <1>1, <2>1 DEF OutEffect
    <3>2. j \in {P(9), P(10)} => i = P(8) \/ (i \notin {P(8), P(10)} /\ i \in {P(9), P(10)})
      BY <2>2, Lengths DEF P
    <3> QED
      BY <2>3, <3>1, <3>2, Zenon
  <2>6. uart'.lcr = LCR_DLAB <=> j \in P(5) .. P(7)
    <3>1. LCR_8N1 # LCR_DLAB
      BY Zenon DEF LCR_8N1, LCR_DLAB
    <3>2. /\ i = P(4) => uart'.lcr = LCR_DLAB
          /\ i = P(7) => uart'.lcr = LCR_8N1
          /\ i \notin {P(4), P(7)} => uart'.lcr = uart.lcr
      BY <1>1, <2>1 DEF OutEffect
    <3>3. /\ i = P(4) => j \in P(5) .. P(7)
          /\ i = P(7) => j \notin P(5) .. P(7)
          /\ i \notin {P(4), P(7)} => (j \in P(5) .. P(7) <=> i \in P(5) .. P(7))
          /\ i < PanicAt
      BY <2>2, Lengths DEF P
    <3> QED
      BY <2>3, <3>1, <3>2, <3>3, Zenon
  <2>7. uart'.loop <=> j \in P(10) .. P(12)
    <3>1. /\ i = P(9) => uart'.loop
          /\ i = P(12) => ~ uart'.loop
          /\ i \notin {P(9), P(12)} => (uart'.loop <=> uart.loop)
      BY <1>1, <2>1, Zenon DEF OutEffect
    <3>2. /\ i = P(9) => j \in P(10) .. P(12)
          /\ i = P(12) => j \notin P(10) .. P(12)
          /\ i \notin {P(9), P(12)} => (j \in P(10) .. P(12) <=> i \in P(10) .. P(12))
          /\ i < PanicAt
      BY <2>2, Lengths DEF P
    <3> QED
      BY <2>3, <3>1, <3>2, Zenon
  <2>8. j \in P(6) .. HaltAt => uart'.baud = <<1, 0>>
    <3>1. /\ i = P(5) => uart'.baud = <<1, 0>>
          /\ i # P(5) => uart'.baud = uart.baud
      BY <1>1, <2>1 DEF OutEffect
    <3>2. j \in P(6) .. HaltAt => i = P(5) \/ (i # P(5) /\ i \in P(6) .. HaltAt)
      BY <2>2, Lengths DEF P
    <3> QED
      BY <2>3, <3>1, <3>2, Zenon
  <2>9. j \in P(9) .. HaltAt => uart'.fifo
    <3>1. /\ i = P(8) => uart'.fifo
          /\ i # P(8) => (uart'.fifo <=> uart.fifo)
      BY <1>1, <2>1, Zenon DEF OutEffect
    <3>2. j \in P(9) .. HaltAt => i = P(8) \/ (i # P(8) /\ i \in P(9) .. HaltAt)
      BY <2>2, Lengths DEF P
    <3> QED
      BY <2>3, <3>1, <3>2, Zenon
  <2> QED
    BY <2>1, <2>5, <2>6, <2>7, <2>8, <2>9 DEF PortFits, P, PanicAt, HaltAt
<1> QED
  BY <1>5, <1>7, <1>8

\* A byte of a line is written into an empty transmitter.
LEMMA Writes ==
  ASSUME PortType, LockFits, PortFits, write_byte
  PROVE  /\ at.main \in 1 .. P(2) \cup P(14) .. HaltAt
         /\ line \in Seq(Byte \ {"CR"}) /\ line # << >> /\ Head(line) \in Byte \ {"CR"}
         /\ line' \in Seq(Byte \ {"CR"}) /\ cr' \in BOOLEAN /\ (cr' => line' # << >>)
         /\ uart' \in UartType /\ uart.thr = << >> /\ lost' = lost
         /\ uart'.lcr = uart.lcr /\ uart'.baud = uart.baud /\ uart'.fifo = uart.fifo
         /\ uart'.loop = uart.loop /\ uart'.rx = uart.rx /\ uart'.tsr = uart.tsr
         /\ \/ Head(line) = "LF" /\ ~ cr /\ line' = line /\ cr' /\ uart'.thr = <<"CR">>
            \/ (Head(line) = "LF" => cr) /\ line' = Tail(line) /\ ~ cr'
                 /\ uart'.thr = <<Head(line)>>
<1>1. at.main \in 1 .. Len(Main) /\ uart \in UartType /\ uart.thr = << >>
  BY DEF PortType, write_byte, MayWrite, THR_EMPTY
<1>2. owner \in {"main", "irq"}
  BY DEF write_byte, LockFits
<1>3. at.main \in 1 .. P(2) \cup P(14) .. HaltAt
  <2>1. at.main \notin P(3) .. P(13) \cup PanicAt .. Len(Main)
    BY <1>2 DEF LockFits
  <2> QED
    BY <1>1, <2>1, Lengths DEF P
<1>4. uart.lcr = LCR_8N1
  <2>1. at.main < PanicAt /\ at.main \notin P(5) .. P(7)
    BY <1>3, Lengths DEF P
  <2> QED
    BY <1>1, <2>1, PortFields DEF PortFits
<1>5. line \in Seq(Byte \ {"CR"}) /\ line # << >> /\ cr \in BOOLEAN
  BY DEF PortType, write_byte
<1>6. Head(line) \in Byte \ {"CR"} /\ Tail(line) \in Seq(Byte \ {"CR"})
  BY <1>5
<1>7. PICK n : n = write_string(line, cr)
  OBVIOUS
<1>8. uart' = Outb(uart, "DATA", n.byte).uart /\ lost' = lost \o Outb(uart, "DATA", n.byte).lost
      /\ line' = n.rest /\ cr' = n.cr
  BY <1>7 DEF write_byte, Write
<1>9. \/ Head(line) = "LF" /\ ~ cr /\ n.rest = line /\ n.cr = TRUE /\ n.byte = "CR"
      \/ (Head(line) = "LF" => cr) /\ n.rest = Tail(line) /\ n.cr = FALSE /\ n.byte = Head(line)
  BY <1>7 DEF write_string
<1>10. n.byte \in Char
  BY <1>6, <1>9, SerialAssumption DEF Char
<1>11. /\ uart' \in UartType /\ Outb(uart, "DATA", n.byte).lost = << >>
       /\ uart'.lcr = uart.lcr /\ uart'.baud = uart.baud /\ uart'.fifo = uart.fifo
       /\ uart'.loop = uart.loop /\ uart'.rx = uart.rx /\ uart'.tsr = uart.tsr
       /\ uart'.thr = <<n.byte>>
  BY <1>1, <1>4, <1>8, <1>10, OutData
<1>12. lost' = lost
  BY <1>8, <1>11, ConcatEmptySeq DEF PortType
<1>13. /\ line' \in Seq(Byte \ {"CR"}) /\ cr' \in BOOLEAN /\ (cr' => line' # << >>)
       /\ \/ Head(line) = "LF" /\ ~ cr /\ line' = line /\ cr' /\ uart'.thr = <<"CR">>
          \/ (Head(line) = "LF" => cr) /\ line' = Tail(line) /\ ~ cr'
               /\ uart'.thr = <<Head(line)>>
  <2>1. CASE Head(line) = "LF" /\ ~ cr /\ n.rest = line /\ n.cr = TRUE /\ n.byte = "CR"
    BY <1>5, <1>8, <1>11, <2>1, Zenon
  <2>2. CASE /\ (Head(line) = "LF" => cr) /\ n.rest = Tail(line) /\ n.cr = FALSE
             /\ n.byte = Head(line)
    BY <1>6, <1>8, <1>11, <2>2, Zenon
  <2> QED
    BY <1>9, <2>1, <2>2
<1>14. /\ uart' \in UartType /\ uart.thr = << >> /\ lost' = lost
       /\ uart'.lcr = uart.lcr /\ uart'.baud = uart.baud /\ uart'.fifo = uart.fifo
       /\ uart'.loop = uart.loop /\ uart'.rx = uart.rx /\ uart'.tsr = uart.tsr
  BY <1>1, <1>11, <1>12
<1>15. line \in Seq(Byte \ {"CR"}) /\ line # << >> /\ Head(line) \in Byte \ {"CR"}
  BY <1>5, <1>6
<1> QED
  BY <1>3, <1>13, <1>14, <1>15, Zenon

LEMMA TypedWriteByte == Typed /\ write_byte => Typed'
<1> SUFFICES ASSUME Typed, write_byte
             PROVE  Typed'
  OBVIOUS
<1> USE DEF Typed
<1>1. /\ at.main \in 1 .. P(2) \cup P(14) .. HaltAt
      /\ line' \in Seq(Byte \ {"CR"}) /\ cr' \in BOOLEAN /\ (cr' => line' # << >>)
      /\ uart' \in UartType /\ uart.thr = << >> /\ lost' = lost
      /\ uart'.lcr = uart.lcr /\ uart'.baud = uart.baud /\ uart'.fifo = uart.fifo
      /\ uart'.loop = uart.loop /\ uart'.rx = uart.rx /\ uart'.tsr = uart.tsr
      /\ uart'.thr \in {<<"CR">>, <<Head(line)>>}
  BY Writes, Zenon
<1>2. PortType'
  <2>1. Len(uart'.thr) <= 1
    <3>1. Len(<<"CR">>) <= 1 /\ Len(<<Head(line)>>) <= 1
      OBVIOUS
    <3> QED
      BY <1>1, <3>1, Zenon
  <2> QED
    BY <1>1, <2>1 DEF PortType, write_byte
<1>3. owner \in {"main", "irq"}
  BY DEF write_byte, LockFits
<1>4. LockFits'
  BY <1>1, <1>3 DEF LockFits, write_byte, P, PanicAt, HaltAt
<1>5. PortFits'
  BY <1>1, Lengths DEF PortFits, write_byte, P, PanicAt, HaltAt
<1> QED
  BY <1>2, <1>4, <1>5

LEMMA TypedLoad == Typed /\ LoadStep => Typed'
<1> SUFFICES ASSUME Typed, LoadStep
             PROVE  Typed'
  OBVIOUS
<1> USE DEF Typed
<1>1. uart \in UartType /\ Len(uart.thr) <= 1 /\ CanLoad(uart) /\ uart' = Load(uart)
  BY DEF PortType, LoadStep
<1>2. /\ uart' \in UartType /\ uart.thr # << >> /\ uart'.thr = << >>
      /\ uart'.lcr = uart.lcr /\ uart'.baud = uart.baud /\ uart'.fifo = uart.fifo
      /\ uart'.loop = uart.loop /\ Len(uart'.tsr) <= 1
  BY <1>1, Loading
<1>3. PortType'
  BY <1>2 DEF PortType, LoadStep
<1>4. LockFits'
  BY DEF LockFits, LoadStep, P, PanicAt, HaltAt
<1>5. PortFits'
  BY <1>2 DEF PortFits, LoadStep, P, PanicAt, HaltAt
<1> QED
  BY <1>3, <1>4, <1>5

LEMMA TypedShift == Typed /\ ShiftStep => Typed'
<1> SUFFICES ASSUME Typed, ShiftStep
             PROVE  Typed'
  OBVIOUS
<1> USE DEF Typed
<1>1. uart \in UartType /\ Len(uart.tsr) <= 1 /\ CanShift(uart) /\ uart' = Shifted(uart)
  BY DEF PortType, ShiftStep
<1>2. /\ uart' \in UartType /\ uart'.thr = uart.thr /\ uart'.tsr = << >>
      /\ uart'.lcr = uart.lcr /\ uart'.baud = uart.baud /\ uart'.fifo = uart.fifo
      /\ uart'.loop = uart.loop
  BY <1>1, Shifting
<1>3. wire' \in Seq(SentBytes) /\ (~ ready => wire' = wire)
  BY <1>1, PortFields DEF PortType, ShiftStep
<1>4. PortType'
  <2>1. lost \in Seq(Char) /\ uart.tsr[1].byte \in Char
    BY <1>1, Shifting DEF PortType, SentBytes
  <2>2. lost' \in Seq(Char)
    BY <2>1 DEF ShiftStep
  <2> QED
    BY <1>2, <1>3, <2>2 DEF PortType, ShiftStep
<1>5. LockFits'
  BY <1>3 DEF LockFits, ShiftStep, P, PanicAt, HaltAt
<1>6. PortFits'
  BY <1>2 DEF PortFits, ShiftStep, P, PanicAt, HaltAt
<1> QED
  BY <1>4, <1>5, <1>6

\* What the far end sends is received, or is not.
LEMMA Arrives ==
  ASSUME PortType, Arrive
  PROVE  /\ input \in Seq(Byte) /\ input # << >> /\ Head(input) \in Byte
         /\ input' = Tail(input) /\ input' \in Seq(Byte)
         /\ uart' \in UartType /\ uart'.thr = uart.thr /\ uart'.tsr = uart.tsr
         /\ uart'.lcr = uart.lcr /\ uart'.baud = uart.baud /\ uart'.fifo = uart.fifo
         /\ uart'.loop = uart.loop
         /\ \/ uart' = uart /\ heard' = heard
            \/ ~ uart.loop /\ uart'.rx = Append(uart.rx, Head(input))
                 /\ heard' = Append(heard, Head(input))
<1>1. uart \in UartType /\ input \in Seq(Byte) /\ input # << >>
  BY DEF PortType, Arrive
<1>2. Head(input) \in Byte /\ Head(input) \in Char /\ Tail(input) \in Seq(Byte)
  BY <1>1 DEF Char
<1>3. CASE uart' = uart
  BY <1>1, <1>2, <1>3 DEF Arrive
<1>4. CASE uart' # uart
  <2>1. ~ uart.loop /\ uart' = Received(uart, Head(input)) /\ heard' = Append(heard, Head(input))
    BY <1>4 DEF Arrive
  <2>2. /\ uart' \in UartType /\ uart'.thr = uart.thr /\ uart'.tsr = uart.tsr
        /\ uart'.lcr = uart.lcr /\ uart'.baud = uart.baud /\ uart'.fifo = uart.fifo
        /\ uart'.loop = uart.loop /\ uart'.rx = Append(uart.rx, Head(input))
    BY <1>1, <1>2, <1>4, <2>1, Receiving
  <2> QED
    BY <1>1, <1>2, <2>1, <2>2 DEF Arrive
<1> QED
  BY <1>3, <1>4

LEMMA TypedArrive == Typed /\ Arrive => Typed'
<1> SUFFICES ASSUME Typed, Arrive
             PROVE  Typed'
  OBVIOUS
<1> USE DEF Typed
<1>1. /\ Head(input) \in Byte /\ input' \in Seq(Byte)
      /\ uart' \in UartType /\ uart'.thr = uart.thr /\ uart'.tsr = uart.tsr
      /\ uart'.lcr = uart.lcr /\ uart'.baud = uart.baud /\ uart'.fifo = uart.fifo
      /\ uart'.loop = uart.loop /\ heard' \in {heard, Append(heard, Head(input))}
  BY Arrives
<1>2. PortType'
  BY <1>1 DEF PortType, Arrive
<1>3. LockFits'
  BY DEF LockFits, Arrive, P, PanicAt, HaltAt
<1>4. PortFits'
  BY <1>1 DEF PortFits, Arrive, P, PanicAt, HaltAt
<1> QED
  BY <1>2, <1>3, <1>4

\* The port starts as the firmware left it.
LEMMA TypedInit == PortInit => Typed
<1> SUFFICES ASSUME PortInit
             PROVE  Typed
  OBVIOUS
<1>1. at.main = 1 /\ at.irq = 1 /\ at \in [main : 1 .. Len(Main), irq : 1 .. Len(Irq)]
  BY Lengths, IrqIs DEF PortInit
<1>2. /\ uart \in UartType /\ uart.thr = << >> /\ uart.tsr = << >> /\ uart.lcr = LCR_8N1
      /\ uart.loop = FALSE
  <2>1. << >> \in Chars /\ << >> \in Sending
    BY DEF Chars, Sending
  <2>2. uart \in [lcr : {LCR_8N1}, baud : Speeds, fifo : BOOLEAN, loop : {FALSE}, ier : {0},
                  thr : {<< >>}, tsr : {<< >>}, rx : {<< >>}]
    BY DEF PortInit, Speeds
  <2> QED
    BY <2>1, <2>2 DEF UartType
<1>3. PortType
  <2>1. Len(uart.thr) <= 1 /\ Len(uart.tsr) <= 1
    BY <1>2
  <2>2. /\ line \in Seq(Byte \ {"CR"}) /\ said \in Seq(Byte) /\ wire \in Seq(SentBytes)
        /\ lost \in Seq(Char) /\ heard \in Seq(Byte) /\ taken \in Seq(Char)
    BY DEF PortInit
  <2>3. /\ log_level \in 0 .. 5 /\ cr \in BOOLEAN /\ iflag \in BOOLEAN /\ ready \in BOOLEAN
        /\ input \in Seq(Byte)
    <3>1. /\ log_level = 3 /\ cr = FALSE /\ iflag = FALSE /\ ready = FALSE /\ input = Input
      BY DEF PortInit
    <3>2. Input \in Seq(Byte)
      BY SerialAssumption
    <3>3. 3 \in 0 .. 5
      OBVIOUS
    <3> QED
      BY <3>1, <3>2, <3>3, Zenon
  <2> QED
    BY <1>1, <1>2, <2>1, <2>2, <2>3 DEF PortType
<1>4. LockFits
  BY <1>1, Lengths DEF PortInit, LockFits, P
<1>5. PortFits
  <2>1. LCR_8N1 # LCR_DLAB
    BY Zenon DEF LCR_8N1, LCR_DLAB
  <2>2. /\ 1 \notin {P(9), P(10)} /\ 1 \notin P(5) .. P(7) /\ 1 \notin P(10) .. P(12)
        /\ 1 \notin P(6) .. HaltAt /\ 1 \notin P(9) .. HaltAt
    BY Lengths DEF P
  <2> QED
    BY <1>1, <1>2, <2>1, <2>2, Zenon DEF PortFits
<1> QED
  BY <1>3, <1>4, <1>5 DEF Typed

LEMMA TypedNext == Typed /\ [PortNext]_portVars => Typed'
<1> SUFFICES ASSUME Typed, [PortNext]_portVars
             PROVE  Typed'
  OBVIOUS
<1>1. CASE UNCHANGED portVars
  BY <1>1 DEF Typed, PortType, LockFits, PortFits, portVars
<1>2. CASE Idle
  BY <1>1, <1>2 DEF Idle
<1> QED
  BY <1>1, <1>2, TypedSetLevel, TypedAcquire, TypedRelease, TypedEnableInterrupts,
     TypedInterrupt, TypedReturn, TypedLogLine, TypedLogEnd, TypedRead, TypedTest,
     TypedOutStep, TypedWriteByte, TypedLoad, TypedShift, TypedArrive
     DEF PortNext, Step, Device

----------------------------------------------------------------------------
(* What serial::init costs.                                                *)

\* Numbers of bytes.
LEMMA Bounded ==
  ASSUME NEW a \in Nat, NEW b \in Nat, NEW c \in Nat
  PROVE  /\ a + b + c <= 2 => a <= 2
         /\ \A k \in Nat : k <= c /\ a + b + c <= 2 => a + k <= 2
         /\ \A i, j \in Nat : i + j <= a + b /\ a + b + c <= 2 => i + j + c <= 2
         /\ \A k \in Nat : a + k <= 2 => a <= 2
         /\ a <= 1 => a \in 0 .. 1 /\ 0 + 1 + a <= 2
         /\ \A k \in 0 .. 1 : k \in Nat /\ k <= 1
OBVIOUS

\* The lengths of what the transmitter holds.
LEMMA Holding ==
  ASSUME PortType
  PROVE  /\ Len(lost) \in Nat /\ Len(uart.thr) \in 0 .. 1 /\ Len(uart.tsr) \in 0 .. 1
         /\ Owed \in 0 .. 1 /\ Owed <= Len(uart.tsr) /\ at.main \in 1 .. Len(Main)
         /\ (uart.tsr = << >> <=> Len(uart.tsr) = 0) /\ (lost = << >> <=> Len(lost) = 0)
<1>1. uart.thr \in Seq(Char) /\ uart.tsr \in Seq(SentBytes) /\ lost \in Seq(Char)
  BY PortFields DEF PortType
<1>2. Len(uart.thr) <= 1 /\ Len(uart.tsr) <= 1 /\ at.main \in 1 .. Len(Main)
  BY DEF PortType
<1>3. /\ Len(lost) \in Nat /\ Len(uart.thr) \in Nat /\ Len(uart.tsr) \in Nat
      /\ (uart.tsr = << >> <=> Len(uart.tsr) = 0) /\ (lost = << >> <=> Len(lost) = 0)
  BY <1>1, EmptySeq, LenProperties
<1>4. Len(uart.thr) \in 0 .. 1 /\ Len(uart.tsr) \in 0 .. 1
  BY <1>2, <1>3, Bounded, Zenon
<1>5. Owed \in {0, 1} /\ (uart.tsr = << >> => Owed = 0)
  BY DEF Owed
<1>6. Owed \in 0 .. 1 /\ Owed <= Len(uart.tsr)
  <2>1. PICK k, n : k = Owed /\ n = Len(uart.tsr)
    OBVIOUS
  <2>2. k \in {0, 1} /\ n \in 0 .. 1 /\ (n = 0 => k = 0)
    BY <1>3, <1>4, <1>5, <2>1, Zenon
  <2>3. k \in 0 .. 1 /\ k <= n
    BY <2>2
  <2> QED
    BY <2>1, <2>3, Zenon
<1> QED
  BY <1>2, <1>3, <1>4, <1>6

\* A step that leaves the transmitter alone.
LEMMA LossKept ==
  ASSUME Typed, LossFits, lost' = lost, uart'.thr = uart.thr, uart'.tsr = uart.tsr,
         ready => ready',
         \/ Passes
         \/ at.main \in {P(11), P(12)} /\ at'.main \in {P(12), P(13), PanicAt}
  PROVE  LossFits'
<1>1. PICK i, j : i = at.main /\ j = at'.main
  OBVIOUS
<1>2. i \in 1 .. Len(Main)
  BY <1>1 DEF Typed, PortType
<1>3. \/ j = i
      \/ j = i + 1 /\ i \in 1 .. P(2) \cup P(13) .. HaltAt - 1 \cup {PanicAt}
      \/ i \in {P(11), P(12)} /\ j \in {P(12), P(13), PanicAt}
  BY <1>1 DEF Passes
<1>4. (j <= P(2) => i <= P(2)) /\ (j <= P(10) <=> i <= P(10)) /\ (j > P(10) <=> i > P(10))
  BY <1>2, <1>3, Lengths DEF P
<1>5. Owed' \in 0 .. 1 /\ Owed' <= Owed
  BY DEF Owed
<1>6. Owed \in 0 .. 1 /\ Len(lost) \in Nat
  BY Holding DEF Typed
<1>7. /\ i <= P(2) => lost = << >>
      /\ i <= P(10) => Len(lost) + Len(uart.thr) + Len(uart.tsr) <= 2
      /\ i > P(10) => Len(lost) + Owed <= 2
      /\ i > P(10) /\ ~ ready => uart.thr \in {<< >>, <<LOOPBACK_TEST_BYTE>>}
  BY <1>1 DEF LossFits
<1>8. i > P(10) => Len(lost) + Owed' <= 2
  BY <1>5, <1>6, <1>7
<1>9. /\ j <= P(2) => lost' = << >>
      /\ j <= P(10) => Len(lost') + Len(uart'.thr) + Len(uart'.tsr) <= 2
      /\ j > P(10) => Len(lost') + Owed' <= 2
      /\ j > P(10) /\ ~ ready' => uart'.thr \in {<< >>, <<LOOPBACK_TEST_BYTE>>}
  BY <1>4, <1>7, <1>8, Zenon
<1> QED
  BY <1>1, <1>9 DEF LossFits, P

\* A step of serial::init on the port.
LEMMA LossOutStep == Typed /\ LossFits /\ OutStep => LossFits'
<1> SUFFICES ASSUME Typed, LossFits, OutStep
             PROVE  LossFits'
  OBVIOUS
<1>1. /\ at.main \in P(3) .. P(10) \cup {P(12)} /\ at'.main = at.main + 1
      /\ uart' \in UartType /\ OutEffect
  BY OutEffects DEF Typed
<1>2. PortType' /\ PortType
  BY TypedOutStep DEF Typed
<1>3. /\ Len(lost) \in Nat /\ Len(uart.thr) \in 0 .. 1 /\ Len(uart.tsr) \in 0 .. 1
      /\ Len(lost') \in Nat /\ Len(uart'.thr) \in 0 .. 1 /\ Len(uart'.tsr) \in 0 .. 1
      /\ Owed' \in 0 .. 1 /\ Owed' <= Len(uart'.tsr)
  <2>1. /\ Len(lost) \in Nat /\ Len(uart.thr) \in 0 .. 1 /\ Len(uart.tsr) \in 0 .. 1
    BY <1>2, Holding
  <2>2. (Len(lost) \in Nat /\ Len(uart.thr) \in 0 .. 1 /\ Len(uart.tsr) \in 0 .. 1
          /\ Owed \in 0 .. 1 /\ Owed <= Len(uart.tsr))'
    BY <1>2, Holding, PTL
  <2> QED
    BY <2>1, <2>2
<1>4. CASE at.main = P(12)
  <2>1. lost' = lost /\ uart'.thr = uart.thr /\ uart'.tsr = uart.tsr /\ at'.main = P(13)
    BY <1>1, <1>4, Lengths DEF OutEffect, P
  <2> QED
    BY <1>4, <2>1, LossKept DEF OutStep
<1>5. CASE at.main \in P(3) .. P(10)
  <2>1. ~ (at'.main <= P(2)) /\ at.main <= P(10)
    BY <1>1, <1>5, Lengths DEF P
  <2>2. Len(lost) + Len(uart.thr) + Len(uart.tsr) <= 2
    BY <2>1 DEF LossFits
  <2>3. Len(uart'.tsr) = Len(uart.tsr)
    <3>1. uart'.tsr \in {uart.tsr, Garbled(uart)}
      BY <1>1 DEF OutEffect
    <3> QED
      BY <1>2, <3>1, Garbling DEF PortType
  <2>4. CASE at.main = P(10)
    <3>1. /\ lost' = lost /\ uart'.thr = <<LOOPBACK_TEST_BYTE>>
          /\ at'.main > P(10) /\ ~ (at'.main <= P(10))
      BY <1>1, <2>4, Lengths DEF OutEffect, P
    <3>2. Len(lost') + Owed' <= 2
      <4>1. PICK a, b, c, k : a = Len(lost) /\ b = Len(uart.thr) /\ c = Len(uart.tsr) /\ k = Owed'
        OBVIOUS
      <4>2. a \in Nat /\ b \in Nat /\ c \in Nat /\ k \in Nat /\ k <= c /\ a + b + c <= 2
        BY <1>3, <2>2, <2>3, <4>1, Bounded, Zenon
      <4>3. a + k <= 2
        BY <4>2, Bounded
      <4> QED
        BY <3>1, <4>1, <4>3, Zenon
    <3> QED
      BY <2>1, <3>1, <3>2 DEF LossFits, P
  <2>5. CASE at.main # P(10)
    <3>1. ~ (at'.main > P(10))
      BY <1>1, <1>5, <2>5, Lengths DEF P
    <3>2. Len(lost') + Len(uart'.thr) <= Len(lost) + Len(uart.thr)
      <4>1. CASE at.main = P(8)
        <5>1. lost' = lost \o uart.thr /\ uart'.thr = << >>
          BY <1>1, <4>1 DEF OutEffect
        <5>2. lost \in Seq(Char) /\ uart.thr \in Seq(Char)
          BY <1>2, PortFields DEF PortType
        <5>3. Len(lost') = Len(lost) + Len(uart.thr)
          BY <5>1, <5>2, ConcatProperties
        <5> QED
          BY <1>3, <5>1, <5>3
      <4>2. CASE at.main # P(8)
        <5>1. lost' = lost /\ uart'.thr = uart.thr
          BY <1>1, <2>5, <4>2 DEF OutEffect
        <5> QED
          BY <1>3, <5>1
      <4> QED
        BY <4>1, <4>2
    <3>3. Len(lost') + Len(uart'.thr) + Len(uart'.tsr) <= 2
      <4>1. PICK a, b, c, i, j :
              /\ a = Len(lost) /\ b = Len(uart.thr) /\ c = Len(uart.tsr)
              /\ i = Len(lost') /\ j = Len(uart'.thr)
        OBVIOUS
      <4>2. /\ a \in Nat /\ b \in Nat /\ c \in Nat /\ i \in Nat /\ j \in Nat
            /\ i + j <= a + b /\ a + b + c <= 2
        BY <1>3, <2>2, <3>2, <4>1, Bounded, Zenon
      <4>3. i + j + c <= 2
        BY <4>2, Bounded
      <4> QED
        BY <2>3, <4>1, <4>3, Zenon
    <3> QED
      BY <2>1, <3>1, <3>3 DEF LossFits, P
  <2> QED
    BY <2>4, <2>5
<1> QED
  BY <1>1, <1>4, <1>5

\* A byte of a line, before serial::init or after it.
LEMMA LossWriteByte == Typed /\ LossFits /\ write_byte => LossFits'
<1> SUFFICES ASSUME Typed, LossFits, write_byte
             PROVE  LossFits'
  OBVIOUS
<1>1. /\ at.main \in 1 .. P(2) \cup P(14) .. HaltAt /\ lost' = lost /\ uart'.tsr = uart.tsr
      /\ uart.thr = << >> /\ uart'.thr \in {<<"CR">>, <<Head(line)>>}
  BY Writes, Zenon DEF Typed
<1>2. at' = at /\ ready' = ready
  BY DEF write_byte
<1>3. /\ Len(lost) \in Nat /\ Len(uart.tsr) \in 0 .. 1 /\ Len(uart'.thr) = 1
      /\ (lost = << >> => Len(lost) = 0)
  <2>1. Len(<<"CR">>) = 1 /\ Len(<<Head(line)>>) = 1
    OBVIOUS
  <2>2. Len(uart'.thr) = 1
    BY <1>1, <2>1, Zenon
  <2> QED
    BY <2>2, Holding DEF Typed
<1>4. CASE at.main \in 1 .. P(2)
  <2>1. at.main <= P(2) /\ ~ (at.main > P(10))
    BY <1>4, Lengths DEF P
  <2>2. lost = << >>
    BY <2>1 DEF LossFits
  <2>3. Len(lost') + Len(uart'.thr) + Len(uart'.tsr) <= 2
    <3>1. PICK c : c = Len(uart.tsr)
      OBVIOUS
    <3>2. 0 + 1 + c <= 2
      BY <1>3, <3>1, Bounded, Zenon
    <3> QED
      BY <1>1, <1>3, <2>2, <3>1, <3>2, Zenon
  <2> QED
    BY <1>1, <1>2, <2>1, <2>2, <2>3 DEF LossFits, P
<1>5. CASE at.main \in P(14) .. HaltAt
  <2>1. at.main > P(10) /\ ~ (at.main <= P(10)) /\ ~ (at.main <= P(2)) /\ ready
    BY <1>5, Lengths DEF Typed, LockFits, P
  <2>2. Len(lost) + Owed <= 2 /\ Owed' = Owed
    BY <1>1, <1>2, <2>1 DEF LossFits, Owed
  <2> QED
    BY <1>1, <1>2, <2>1, <2>2 DEF LossFits, P
<1> QED
  BY <1>1, <1>4, <1>5

\* The byte that is loaded later is the test byte, or in the right format.
LEMMA LossLoad == Typed /\ LossFits /\ LoadStep => LossFits'
<1> SUFFICES ASSUME Typed, LossFits, LoadStep
             PROVE  LossFits'
  OBVIOUS
<1>1. /\ uart \in UartType /\ Len(uart.thr) <= 1 /\ CanLoad(uart) /\ uart' = Load(uart)
      /\ lost' = lost /\ at' = at /\ ready' = ready
  BY DEF Typed, PortType, LoadStep
<1>2. PICK h : h = Head(uart.thr)
  OBVIOUS
<1>3. /\ uart.thr # << >> /\ uart.thr = <<h>> /\ uart.tsr = << >> /\ uart'.thr = << >>
      /\ uart'.tsr = <<Sent(h, Configured(uart))>>
  BY <1>1, <1>2, Loading DEF CanLoad
<1>4. /\ Len(lost) \in Nat /\ Len(uart.thr) = 1 /\ Len(uart.tsr) = 0
      /\ Len(uart'.thr) = 0 /\ Len(uart'.tsr) = 1 /\ at.main \in 1 .. Len(Main)
  <2>1. Len(lost) \in Nat /\ at.main \in 1 .. Len(Main)
    BY Holding DEF Typed
  <2> QED
    BY <1>3, <2>1
<1>5. CASE at.main <= P(10)
  <2>1. ~ (at.main > P(10))
    BY <1>4, <1>5, Lengths DEF P
  <2>2. Len(lost') + Len(uart'.thr) + Len(uart'.tsr) <= 2
    BY <1>1, <1>4, <1>5 DEF LossFits
  <2> QED
    BY <1>1, <2>1, <2>2 DEF LossFits, P
<1>6. CASE at.main > P(10)
  <2>1. ~ (at.main <= P(10)) /\ ~ (at.main <= P(2))
    BY <1>4, <1>6, Lengths DEF P
  <2>2. uart'.tsr[1].byte = h /\ uart'.tsr[1].clear = Configured(uart)
    BY <1>3 DEF Sent
  <2>3. Owed' = 0
    <3>1. CASE ready
      <4>1. at.main \in P(14) .. HaltAt
        BY <3>1 DEF Typed, LockFits
      <4>2. at.main < PanicAt /\ at.main \notin P(5) .. P(7) /\ at.main \in P(6) .. HaltAt
        BY <4>1, Lengths DEF P
      <4>3. uart.lcr # LCR_DLAB /\ uart.baud = <<1, 0>>
        BY <4>2 DEF Typed, PortFits
      <4>4. Configured(uart)
        BY <1>1, <4>3, PortFields DEF Configured
      <4> QED
        BY <1>1, <2>2, <3>1, <4>4 DEF Owed
    <3>2. CASE ~ ready
      <4>1. uart.thr = <<LOOPBACK_TEST_BYTE>>
        BY <1>3, <1>6, <3>2 DEF LossFits
      <4>2. h = LOOPBACK_TEST_BYTE
        BY <1>3, <4>1
      <4> QED
        BY <2>2, <4>2 DEF Owed
    <3> QED
      BY <3>1, <3>2
  <2>4. Len(lost) + Owed <= 2 /\ Owed \in 0 .. 1
    BY <1>6, Holding DEF LossFits, Typed
  <2>5. Len(lost') + Owed' <= 2
    BY <1>1, <1>4, <2>3, <2>4
  <2> QED
    BY <1>1, <1>3, <2>1, <2>5 DEF LossFits, P
<1> QED
  BY <1>4, <1>5, <1>6, Lengths DEF P

\* The byte that is shifted out was counted as one that may be lost.
LEMMA LossShift == Typed /\ LossFits /\ ShiftStep => LossFits'
<1> SUFFICES ASSUME Typed, LossFits, ShiftStep
             PROVE  LossFits'
  OBVIOUS
<1>1. /\ uart \in UartType /\ Len(uart.tsr) <= 1 /\ CanShift(uart) /\ uart' = Shifted(uart)
      /\ lost \in Seq(Char) /\ at' = at /\ ready' = ready
  BY DEF Typed, PortType, ShiftStep
<1>2. uart'.thr = uart.thr /\ uart'.tsr = << >> /\ uart.tsr[1] \in SentBytes
  BY <1>1, Shifting
<1>3. uart.tsr # << >>
  BY <1>1 DEF CanShift
<1>4. /\ Len(lost) \in Nat /\ Len(uart.thr) \in 0 .. 1 /\ Len(uart.tsr) = 1
      /\ Owed \in 0 .. 1 /\ at.main \in 1 .. Len(Main)
  BY <1>3, Holding DEF Typed
<1>5. /\ Wasted => Len(lost') = Len(lost) + 1
      /\ ~ Wasted => lost' = lost
  <2>1. uart.tsr[1].byte \in Char
    BY <1>2 DEF SentBytes
  <2>2. Wasted => lost' = Append(lost, uart.tsr[1].byte)
    BY DEF ShiftStep
  <2>3. ~ Wasted => lost' = lost
    BY DEF ShiftStep
  <2> QED
    BY <1>1, <2>1, <2>2, <2>3, AppendProperties
<1>6. Len(uart'.tsr) = 0 /\ Owed' = 0
  BY <1>2 DEF Owed
<1>7. CASE at.main <= P(10)
  <2>1. ~ (at.main > P(10))
    BY <1>4, <1>7, Lengths DEF P
  <2>2. Len(lost') + Len(uart'.thr) + Len(uart'.tsr) <= 2
    BY <1>2, <1>4, <1>5, <1>6, <1>7 DEF LossFits
  <2>3. at.main <= P(2) => lost' = << >>
    <3> SUFFICES ASSUME at.main <= P(2)
                 PROVE  lost' = << >>
      OBVIOUS
    <3>1. at.main \notin P(3) .. P(13) \cup PanicAt .. Len(Main) /\ at.main \notin P(14) .. HaltAt
      BY <1>4, Lengths DEF P
    <3>2. ~ ready /\ owner # "init"
      BY <3>1 DEF Typed, LockFits
    <3>3. ~ Wasted
      BY <3>2 DEF Wasted
    <3> QED
      BY <1>5, <3>3 DEF LossFits
  <2> QED
    BY <1>1, <2>1, <2>2, <2>3 DEF LossFits, P
<1>8. CASE at.main > P(10)
  <2>1. ~ (at.main <= P(10)) /\ ~ (at.main <= P(2))
    BY <1>4, <1>8, Lengths DEF P
  <2>2. Len(lost) + Owed <= 2
    BY <1>8 DEF LossFits
  <2>3. Wasted => Owed = 1
    <3> SUFFICES ASSUME Wasted
                 PROVE  Owed = 1
      OBVIOUS
    <3>1. uart.tsr[1].byte # LOOPBACK_TEST_BYTE /\ (uart.loop \/ ~ uart.tsr[1].clear)
      BY DEF Wasted
    <3>2. ready => ~ uart.loop
      <4> SUFFICES ASSUME ready
                   PROVE  ~ uart.loop
        OBVIOUS
      <4>1. at.main \in P(14) .. HaltAt
        BY DEF Typed, LockFits
      <4>2. at.main < PanicAt /\ at.main \notin P(10) .. P(12)
        BY <4>1, Lengths DEF P
      <4> QED
        BY <4>2 DEF Typed, PortFits
    <3> QED
      BY <1>3, <3>1, <3>2 DEF Owed
  <2>4. Len(lost') + Owed' <= 2
    BY <1>4, <1>5, <1>6, <2>2, <2>3
  <2> QED
    BY <1>1, <1>2, <1>8, <2>1, <2>4 DEF LossFits, P
<1> QED
  BY <1>4, <1>7, <1>8, Lengths DEF P

LEMMA LossNext == Typed /\ LossFits /\ [PortNext]_portVars => LossFits'
<1> SUFFICES ASSUME Typed, LossFits, [PortNext]_portVars
             PROVE  LossFits'
  OBVIOUS
<1>1. CASE Idle \/ UNCHANGED portVars
  <2>1. UNCHANGED portVars
    BY <1>1 DEF Idle
  <2> QED
    BY <2>1 DEF portVars, LossFits, Owed, P
<1>2. CASE \/ SetLevel \/ Acquire \/ Release \/ EnableInterrupts \/ Interrupt \/ Return
           \/ LogLine \/ LogEnd
  <2>1. Passes
    BY <1>2, GoesOn
  <2>2. uart' = uart /\ lost' = lost /\ (ready => ready')
    BY <1>2 DEF SetLevel, Acquire, Release, EnableInterrupts, Interrupt, Return, LogLine, LogEnd
  <2> QED
    BY <2>1, <2>2, LossKept
<1>3. CASE Test
  <2>1. running = "main" /\ at.main = P(11)
    BY <1>3, Where DEF Typed, Test
  <2>2. PICK i \in {P(12), PanicAt} : Goto(i)
    BY <1>3, <2>1, Lengths DEF Test, P
  <2>3. at'.main \in {P(12), PanicAt}
    BY <2>1, <2>2, Going, Lengths DEF P, Typed
  <2>4. uart'.thr = uart.thr /\ uart'.tsr = uart.tsr
    BY <1>3, Reading DEF Test, Typed, PortType
  <2> QED
    BY <1>3, <2>1, <2>3, <2>4, LossKept DEF Test
<1>4. CASE read_byte
  <2>1. running = "main" /\ at.main \in {HaltAt - 2, HaltAt - 1} /\ Continue
    BY <1>4, Where DEF Typed, read_byte
  <2>2. Passes
    BY <2>1, MainGoesOn, Lengths DEF P, Typed
  <2>3. uart'.thr = uart.thr /\ uart'.tsr = uart.tsr
    BY <1>4, Reading DEF read_byte, Typed, PortType
  <2> QED
    BY <1>4, <2>2, <2>3, LossKept DEF read_byte
<1>5. CASE Arrive
  <2>1. uart'.thr = uart.thr /\ uart'.tsr = uart.tsr
    BY <1>5, Arrives DEF Typed
  <2>2. Passes
    BY <1>5 DEF Arrive, Passes, Typed, PortType
  <2> QED
    BY <1>5, <2>1, <2>2, LossKept DEF Arrive
<1> QED
  BY <1>1, <1>2, <1>3, <1>4, <1>5, LossOutStep, LossWriteByte, LossLoad, LossShift
     DEF PortNext, Step, Device

\* serial::init costs at most two bytes of what was logged before, cleared from
\* the FIFO, garbled or looped back, whatever was logged, at whatever speed and
\* depth of FIFO, and none is lost afterwards that was not on its way by then.
THEOREM InitLoses == PortSpec => []InitLosesTwoBytes
<1>1. Typed /\ LossFits => InitLosesTwoBytes
  <2> SUFFICES ASSUME Typed, LossFits
               PROVE  Len(lost) <= 2
    BY DEF InitLosesTwoBytes
  <2>1. /\ Len(lost) \in Nat /\ Len(uart.thr) \in 0 .. 1 /\ Len(uart.tsr) \in 0 .. 1
        /\ Owed \in 0 .. 1 /\ at.main \in 1 .. Len(Main)
    BY Holding DEF Typed
  <2>2. at.main <= P(10) \/ at.main > P(10)
    BY <2>1, Lengths DEF P
  <2>3. PICK a, b, c, k :
          a = Len(lost) /\ b = Len(uart.thr) /\ c = Len(uart.tsr) /\ k = Owed
    OBVIOUS
  <2>4. a + b + c <= 2 \/ a + k <= 2
    BY <2>2, <2>3, Zenon DEF LossFits
  <2>5. a \in Nat /\ b \in Nat /\ c \in Nat /\ k \in Nat
    BY <2>1, <2>3, Bounded, Zenon
  <2>6. a <= 2
    BY <2>4, <2>5, Bounded
  <2> QED
    BY <2>3, <2>6, Zenon
<1>2. PortInit => LossFits
  <2> SUFFICES ASSUME PortInit
               PROVE  LossFits
    OBVIOUS
  <2>1. uart.thr = << >> /\ uart.tsr = << >> /\ lost = << >> /\ at.main = 1
    BY DEF PortInit
  <2>2. ~ (1 > P(10)) /\ Len(<< >>) + Len(<< >>) + Len(<< >>) <= 2
    BY Lengths DEF P
  <2> QED
    BY <2>1, <2>2 DEF LossFits
<1> QED
  BY TypedInit, TypedNext, LossNext, <1>1, <1>2, PTL DEF PortSpec

----------------------------------------------------------------------------
(* The self-test.                                                          *)

\* Sequences without the test byte.
LEMMA Freedom ==
  ASSUME NEW S, NEW s \in Seq(S)
  PROVE  /\ Free(<< >>)
         /\ \A b : b # LOOPBACK_TEST_BYTE => Free(<<b>>)
         /\ Free(s) /\ s # << >> => Head(s) # LOOPBACK_TEST_BYTE /\ Free(Tail(s))
         /\ \A b \in S : Free(s) /\ b # LOOPBACK_TEST_BYTE => Free(Append(s, b))
<1>1. Free(<< >>)
  BY DEF Free
<1>2. ASSUME NEW b, b # LOOPBACK_TEST_BYTE
      PROVE  Free(<<b>>)
  BY <1>2 DEF Free
<1>3. ASSUME Free(s), s # << >>
      PROVE  Head(s) # LOOPBACK_TEST_BYTE /\ Free(Tail(s))
  <2>1. /\ Len(s) \in Nat \ {0} /\ DOMAIN s = 1 .. Len(s) /\ Head(s) = s[1]
        /\ Len(Tail(s)) = Len(s) - 1 /\ DOMAIN Tail(s) = 1 .. Len(s) - 1
        /\ \A i \in 1 .. Len(s) - 1 : Tail(s)[i] = s[i + 1]
    BY <1>3
  <2> QED
    BY <1>3, <2>1 DEF Free
<1>4. ASSUME NEW b \in S, Free(s), b # LOOPBACK_TEST_BYTE
      PROVE  Free(Append(s, b))
  <2>1. /\ DOMAIN s = 1 .. Len(s) /\ DOMAIN Append(s, b) = 1 .. Len(s) + 1 /\ Len(s) \in Nat
        /\ \A i \in 1 .. Len(s) : Append(s, b)[i] = s[i]
        /\ Append(s, b)[Len(s) + 1] = b
    OBVIOUS
  <2> QED
    BY <1>4, <2>1 DEF Free
<1> QED
  BY <1>1, <1>2, <1>3, <1>4

\* A step that leaves the port and the lines alone.
LEMMA TestStays ==
  ASSUME PortType, TestFits, Passes, uart' = uart, input' = input,
         line' = line \/ at.main > P(10)
  PROVE  TestFits'
<1>1. PICK i, j : i = at.main /\ j = at'.main
  OBVIOUS
<1>2. i \in 1 .. Len(Main)
  BY <1>1 DEF PortType
<1>3. \/ j = i
      \/ j = i + 1 /\ i \in 1 .. P(2) \cup P(13) .. HaltAt - 1 \cup {PanicAt}
  BY <1>1 DEF Passes
<1>4. /\ j <= P(10) => i <= P(10) /\ ~ (i > P(10))
      /\ j = P(11) => i = P(11)
      /\ j \in {P(12), P(13)} => i \in {P(12), P(13)}
      /\ j = P(12) => i = P(12)
  BY <1>2, <1>3, Lengths DEF P
<1>5. /\ Free(input')
      /\ j <= P(10) => NoTestByte'
      /\ j = P(11) => (Foul \/ Clean)'
      /\ j \in {P(12), P(13)} => uart'.thr = << >> /\ uart'.tsr = << >>
      /\ j = P(12) => uart'.rx = << >>
  <2>1. Free(input')
    BY DEF TestFits
  <2>2. j <= P(10) => NoTestByte'
    BY <1>1, <1>4 DEF TestFits, NoTestByte, Free
  <2>3. j = P(11) => (Foul \/ Clean)'
    BY <1>1, <1>4 DEF TestFits, Foul, Clean
  <2>4. /\ j \in {P(12), P(13)} => uart'.thr = << >> /\ uart'.tsr = << >>
        /\ j = P(12) => uart'.rx = << >>
    BY <1>1, <1>4 DEF TestFits
  <2> QED
    BY <2>1, <2>2, <2>3, <2>4
<1> QED
  BY <1>1, <1>5 DEF TestFits, P

\* Past serial::init the self-test is over.
LEMMA TestOver ==
  ASSUME TestFits, at'.main \in 1 .. Len(Main), at'.main > P(13), input' = input
  PROVE  TestFits'
<1>1. /\ ~ (at'.main <= P(10)) /\ at'.main # P(11) /\ at'.main \notin {P(12), P(13)}
      /\ at'.main # P(12)
  BY Lengths DEF P
<1> QED
  BY <1>1 DEF TestFits, P

LEMMA TestLogLine == Typed /\ TestFits /\ LogLine => TestFits'
<1> SUFFICES ASSUME Typed, TestFits, LogLine
             PROVE  TestFits'
  OBVIOUS
<1> USE DEF Typed
<1>1. /\ This.val \in Lines
      /\ \/ running = "irq" /\ at.irq <= Len(Handler)
         \/ running = "main" /\ at.main \in 2 .. P(1)
              /\ LOOPBACK_TEST_BYTE \notin ToSet(This.val.text)
         \/ running = "main" /\ at.main \in P(15) .. HaltAt - 3
         \/ running = "main" /\ at.main = PanicAt
  BY Where DEF LogLine
<1>2. at.main \in 1 .. Len(Main) /\ uart' = uart /\ input' = input
  BY DEF PortType, LogLine
<1>3. running = "irq" => at.main \in P(14) .. HaltAt
  BY DEF LockFits
<1>4. CASE enabled(This.val)
  <2>1. line' = This.val.text /\ at' = at
    BY <1>4 DEF LogLine
  <2>2. Passes
    BY <2>1 DEF Passes, PortType
  <2>3. CASE at.main > P(10)
    BY <1>2, <2>2, <2>3, TestStays
  <2>4. CASE ~ (at.main > P(10))
    <3>1. LOOPBACK_TEST_BYTE \notin ToSet(This.val.text)
      BY <1>1, <1>2, <1>3, <2>4, Lengths DEF P
    <3>2. Free(line')
      BY <2>1, <3>1 DEF Free, ToSet
    <3>3. NoTestByte
      BY <1>2, <2>4, Lengths DEF TestFits, P
    <3>4. NoTestByte'
      BY <1>2, <3>2, <3>3 DEF NoTestByte, Free
    <3>5. /\ at'.main # P(11) /\ at'.main \notin {P(12), P(13)} /\ at'.main # P(12)
      BY <1>2, <2>1, <2>4, Lengths DEF P
    <3> QED
      BY <1>2, <3>4, <3>5 DEF TestFits, P
  <2> QED
    BY <2>3, <2>4
<1>5. CASE ~ enabled(This.val)
  <2>1. Continue /\ line' = line
    BY <1>5 DEF LogLine
  <2>2. CASE running = "irq"
    <3>1. Passes
      BY <1>1, <2>1, <2>2, IrqGoesOn
    <3> QED
      BY <1>2, <2>1, <3>1, TestStays
  <2>3. CASE running = "main"
    <3>1. Passes
      BY <1>1, <2>1, <2>3, MainGoesOn, Lengths DEF P
    <3> QED
      BY <1>2, <2>1, <3>1, TestStays
  <2> QED
    BY <1>1, <2>2, <2>3
<1> QED
  BY <1>4, <1>5

\* The main flow goes on, with the port and the lines as they are.
LEMMA TestGoesOn ==
  ASSUME Typed, TestFits,
         SetLevel \/ Acquire \/ Release \/ EnableInterrupts \/ Interrupt \/ Return \/ LogEnd
  PROVE  TestFits'
<1>1. Passes
  BY GoesOn
<1>2. uart' = uart /\ input' = input /\ line' = line
  BY DEF SetLevel, Acquire, Release, EnableInterrupts, Interrupt, Return, LogEnd
<1> QED
  BY <1>1, <1>2, TestStays DEF Typed

LEMMA TestRead == Typed /\ TestFits /\ read_byte => TestFits'
<1> SUFFICES ASSUME Typed, TestFits, read_byte
             PROVE  TestFits'
  OBVIOUS
<1> USE DEF Typed
<1>1. running = "main" /\ at.main \in {HaltAt - 2, HaltAt - 1}
  BY Where DEF read_byte
<1>2. Passes /\ at'.main = at.main + 1 /\ at'.irq = at.irq
  BY <1>1, MainGoesOn, Lengths DEF read_byte, P
<1>3. at'.main \in 1 .. Len(Main) /\ at'.main > P(13)
  BY <1>1, <1>2, Lengths DEF P
<1> QED
  BY <1>3, TestOver DEF read_byte

\* The self-test succeeds when the test byte was all there was.
LEMMA TestTest == Typed /\ TestFits /\ Test => TestFits'
<1> SUFFICES ASSUME Typed, TestFits, Test
             PROVE  TestFits'
  OBVIOUS
<1> USE DEF Typed
<1>1. running = "main" /\ at.main = P(11) /\ uart \in UartType /\ uart' = AfterInb(uart)
  BY Where DEF Test, PortType
<1>2. CASE Inb(uart) = LOOPBACK_TEST_BYTE
  <2>1. Goto(P(12))
    BY <1>1, <1>2, Lengths DEF Test, P
  <2>2. at'.main = P(12)
    BY <1>1, <2>1, Going, Lengths DEF P
  <2>3. uart.rx # << >> /\ Head(uart.rx) = LOOPBACK_TEST_BYTE /\ uart'.rx = Tail(uart.rx)
        /\ uart'.thr = uart.thr /\ uart'.tsr = uart.tsr
    <3>1. DATA_READY(uart)
      BY <1>1, <1>2, Reading DEF LOOPBACK_TEST_BYTE
    <3> QED
      BY <1>1, <1>2, <3>1, Reading
  <2>4. Foul \/ Clean
    BY <1>1 DEF TestFits
  <2>5. uart.rx = <<LOOPBACK_TEST_BYTE>> /\ uart.tsr = << >> /\ uart.thr = << >>
    BY <2>3, <2>4 DEF Foul, Clean
  <2>6. uart'.rx = << >> /\ uart'.tsr = << >> /\ uart'.thr = << >>
    BY <2>3, <2>5
  <2>7. ~ (at'.main <= P(10)) /\ at'.main # P(11)
    BY <2>2, Lengths DEF P
  <2> QED
    BY <2>6, <2>7 DEF TestFits, Test, P
<1>3. CASE Inb(uart) # LOOPBACK_TEST_BYTE
  <2>1. Goto(PanicAt)
    BY <1>3 DEF Test
  <2>2. at'.main = PanicAt
    BY <1>1, <2>1, Going, Lengths
  <2> QED
    BY <2>2, TestOver, Lengths DEF Test, P
<1> QED
  BY <1>2, <1>3

LEMMA TestOutStep == Typed /\ TestFits /\ OutStep => TestFits'
<1> SUFFICES ASSUME Typed, TestFits, OutStep
             PROVE  TestFits'
  OBVIOUS
<1> USE DEF Typed
<1>1. /\ at.main \in P(3) .. P(10) \cup {P(12)} /\ at'.main = at.main + 1
      /\ uart' \in UartType /\ OutEffect
  BY OutEffects
<1>2. uart \in UartType /\ line' = line /\ input' = input
  BY DEF PortType, OutStep
<1>3. Free(input')
  BY <1>2 DEF TestFits
<1>4. CASE at.main \in P(3) .. P(9)
  <2>1. NoTestByte /\ at.main # P(10) /\ at.main # P(12)
    BY <1>4, Lengths DEF TestFits, P
  <2>2. uart'.thr \in {uart.thr, << >>} /\ uart'.rx \in {uart.rx, << >>}
    BY <1>1, <2>1 DEF OutEffect
  <2>3. uart'.tsr \in {uart.tsr, Garbled(uart)}
    BY <1>1, <2>1 DEF OutEffect
  <2>4. \A i \in DOMAIN uart'.tsr : uart'.tsr[i].byte # LOOPBACK_TEST_BYTE
    BY <1>2, <2>1, <2>3, Garbling DEF NoTestByte
  <2>5. Free(uart'.thr) /\ Free(uart'.rx)
    <3>1. Free(<< >>)
      BY DEF Free
    <3> QED
      BY <2>1, <2>2, <3>1, Zenon DEF NoTestByte
  <2>6. NoTestByte'
    BY <1>2, <2>1, <2>4, <2>5 DEF NoTestByte, Free
  <2>7. /\ at'.main # P(11) /\ at'.main \notin {P(12), P(13)} /\ at'.main # P(12)
    BY <1>1, <1>4, Lengths DEF P
  <2> QED
    BY <1>3, <2>6, <2>7 DEF TestFits, P
<1>5. CASE at.main = P(10)
  <2>1. NoTestByte
    BY <1>5, Lengths DEF TestFits, P
  <2>2. uart'.thr = <<LOOPBACK_TEST_BYTE>> /\ uart'.rx = uart.rx /\ uart'.tsr = uart.tsr
    BY <1>1, <1>5 DEF OutEffect
  <2>3. uart.rx \in Seq(Char) /\ uart.tsr \in Seq(SentBytes)
    BY <1>2, PortFields
  <2>4. CASE uart.rx # << >>
    <3>1. Head(uart.rx) # LOOPBACK_TEST_BYTE
      BY <2>1, <2>3, <2>4, Freedom DEF NoTestByte
    <3>2. Foul'
      BY <2>2, <2>4, <3>1 DEF Foul
    <3> QED
      BY <1>1, <1>3, <1>5, <3>2, Lengths DEF TestFits, P
  <2>5. CASE uart.rx = << >> /\ uart.tsr # << >>
    <3>1. 1 \in DOMAIN uart.tsr
      BY <2>3, <2>5
    <3>2. Foul'
      BY <2>1, <2>2, <2>5, <3>1 DEF Foul, NoTestByte
    <3> QED
      BY <1>1, <1>3, <1>5, <3>2, Lengths DEF TestFits, P
  <2>6. CASE uart.rx = << >> /\ uart.tsr = << >>
    <3>1. Clean'
      BY <2>2, <2>6 DEF Clean
    <3> QED
      BY <1>1, <1>3, <1>5, <3>1, Lengths DEF TestFits, P
  <2> QED
    BY <2>4, <2>5, <2>6
<1>6. CASE at.main = P(12)
  <2>1. uart'.thr = uart.thr /\ uart'.tsr = uart.tsr
    <3>1. at.main \notin {P(8), P(10)}
      BY <1>6, Lengths DEF P
    <3> QED
      BY <1>1, <1>6, <3>1 DEF OutEffect
  <2>2. uart.thr = << >> /\ uart.tsr = << >>
    BY <1>6 DEF TestFits
  <2>3. /\ ~ (at'.main <= P(10)) /\ at'.main # P(11) /\ at'.main # P(12)
    BY <1>1, <1>6, Lengths DEF P
  <2> QED
    BY <1>3, <2>1, <2>2, <2>3 DEF TestFits, P
<1> QED
  BY <1>1, <1>4, <1>5, <1>6, Lengths DEF P

LEMMA TestWriteByte == Typed /\ TestFits /\ write_byte => TestFits'
<1> SUFFICES ASSUME Typed, TestFits, write_byte
             PROVE  TestFits'
  OBVIOUS
<1> USE DEF Typed
<1>1. /\ at.main \in 1 .. P(2) \cup P(14) .. HaltAt
      /\ line \in Seq(Byte \ {"CR"}) /\ line # << >>
      /\ uart'.rx = uart.rx /\ uart'.tsr = uart.tsr
      /\ \/ line' = line /\ uart'.thr = <<"CR">>
         \/ line' = Tail(line) /\ uart'.thr = <<Head(line)>>
  BY Writes, Zenon
<1>2. at' = at /\ input' = input
  BY DEF write_byte
<1>3. CASE at.main \in P(14) .. HaltAt
  BY <1>2, <1>3, TestOver, Lengths DEF P
<1>4. CASE at.main \in 1 .. P(2)
  <2>1. NoTestByte
    BY <1>4, Lengths DEF TestFits, P
  <2>2. Head(line) # LOOPBACK_TEST_BYTE /\ Free(Tail(line)) /\ Free(line)
    BY <1>1, <2>1, Freedom DEF NoTestByte
  <2>3. Free(<<"CR">>) /\ Free(<<Head(line)>>)
    <3>1. "CR" # LOOPBACK_TEST_BYTE
      BY DEF LOOPBACK_TEST_BYTE
    <3> QED
      BY <1>1, <2>2, <3>1, Freedom
  <2>4. Free(line') /\ Free(uart'.thr)
    BY <1>1, <2>2, <2>3, Zenon
  <2>5. NoTestByte'
    BY <1>1, <2>1, <2>4 DEF NoTestByte, Free
  <2>6. /\ at'.main # P(11) /\ at'.main \notin {P(12), P(13)} /\ at'.main # P(12)
    BY <1>2, <1>4, Lengths DEF P
  <2> QED
    BY <1>2, <2>5, <2>6 DEF TestFits, P
<1> QED
  BY <1>1, <1>3, <1>4

LEMMA TestLoad == Typed /\ TestFits /\ LoadStep => TestFits'
<1> SUFFICES ASSUME Typed, TestFits, LoadStep
             PROVE  TestFits'
  OBVIOUS
<1> USE DEF Typed
<1>1. /\ uart \in UartType /\ Len(uart.thr) <= 1 /\ CanLoad(uart) /\ uart' = Load(uart)
      /\ at' = at /\ input' = input /\ line' = line /\ at.main \in 1 .. Len(Main)
  BY DEF PortType, LoadStep
<1>2. /\ uart.thr # << >> /\ uart.thr = <<Head(uart.thr)>> /\ uart.tsr = << >>
      /\ uart'.thr = << >> /\ uart'.rx = uart.rx
      /\ uart'.tsr = <<Sent(Head(uart.thr), Configured(uart))>>
  BY <1>1, Loading DEF CanLoad
<1>3. Free(input')
  BY <1>1 DEF TestFits
<1>4. at.main \notin {P(12), P(13)} /\ at.main # P(12)
  BY <1>2 DEF TestFits
<1>5. at.main <= P(10) => NoTestByte'
  <2> SUFFICES ASSUME at.main <= P(10)
               PROVE  NoTestByte'
    OBVIOUS
  <2>1. NoTestByte
    BY DEF TestFits
  <2>2. Head(uart.thr) # LOOPBACK_TEST_BYTE
    BY <1>1, <1>2, <2>1, PortFields, Freedom DEF NoTestByte
  <2>3. uart'.tsr[1].byte # LOOPBACK_TEST_BYTE /\ DOMAIN uart'.tsr = {1}
    BY <1>2, <2>2 DEF Sent
  <2>4. Free(uart'.thr)
    BY <1>2 DEF Free
  <2> QED
    BY <1>1, <1>2, <2>1, <2>3, <2>4 DEF NoTestByte, Free
<1>6. at.main = P(11) => (Foul \/ Clean)'
  <2> SUFFICES ASSUME at.main = P(11)
               PROVE  (Foul \/ Clean)'
    OBVIOUS
  <2>1. Foul \/ Clean
    BY DEF TestFits
  <2>2. CASE uart.rx # << >> /\ Head(uart.rx) # LOOPBACK_TEST_BYTE
    BY <1>2, <2>2 DEF Foul
  <2>3. CASE uart.rx = << >> /\ uart.thr = <<LOOPBACK_TEST_BYTE>>
    <3>1. Head(uart.thr) = LOOPBACK_TEST_BYTE
      BY <2>3
    <3>2. Configured(uart) = TRUE
      <4>1. uart.lcr = LCR_8N1 /\ uart.baud = <<1, 0>>
        BY <1>1, PortFields, Lengths DEF PortFits, P
      <4> QED
        BY <4>1, Zenon DEF Configured
    <3>3. uart'.tsr = <<Sent(LOOPBACK_TEST_BYTE, TRUE)>>
      BY <1>2, <3>1, <3>2, Zenon
    <3> QED
      BY <1>2, <2>3, <3>3, Zenon DEF Clean
  <2> QED
    BY <1>2, <2>1, <2>2, <2>3 DEF Foul, Clean
<1> QED
  BY <1>1, <1>3, <1>4, <1>5, <1>6 DEF TestFits, P

LEMMA TestShift == Typed /\ TestFits /\ ShiftStep => TestFits'
<1> SUFFICES ASSUME Typed, TestFits, ShiftStep
             PROVE  TestFits'
  OBVIOUS
<1> USE DEF Typed
<1> DEFINE b == IF uart.tsr[1].clear THEN uart.tsr[1].byte ELSE "noise"
<1>1. /\ uart \in UartType /\ Len(uart.tsr) <= 1 /\ CanShift(uart) /\ uart' = Shifted(uart)
      /\ at' = at /\ input' = input /\ line' = line /\ at.main \in 1 .. Len(Main)
  BY DEF PortType, ShiftStep
<1>2. /\ uart.tsr # << >> /\ uart.tsr = <<uart.tsr[1]>> /\ b \in Char
      /\ uart'.thr = uart.thr /\ uart'.tsr = << >>
      /\ ~ uart.loop => uart'.rx = uart.rx
      /\ uart.loop => uart'.rx \in {uart.rx, Append(uart.rx, b)}
      /\ uart.loop /\ uart.rx = << >> => uart'.rx = <<b>>
  BY <1>1, Shifting DEF CanShift
<1>3. Free(input')
  BY <1>1 DEF TestFits
<1>4. at.main \notin {P(12), P(13)} /\ at.main # P(12)
  BY <1>2 DEF TestFits
<1>5. uart.tsr[1].byte # LOOPBACK_TEST_BYTE => b # LOOPBACK_TEST_BYTE
  BY DEF LOOPBACK_TEST_BYTE
<1>6. uart.rx \in Seq(Char)
  BY <1>1, PortFields
<1> HIDE DEF b
<1>7. at.main <= P(10) => NoTestByte'
  <2> SUFFICES ASSUME at.main <= P(10)
               PROVE  NoTestByte'
    OBVIOUS
  <2>1. NoTestByte
    BY DEF TestFits
  <2>2. 1 \in DOMAIN uart.tsr
    BY <1>2
  <2>3. b # LOOPBACK_TEST_BYTE
    BY <1>5, <2>1, <2>2 DEF NoTestByte
  <2>4. Free(Append(uart.rx, b)) /\ Free(uart.rx)
    BY <1>2, <1>6, <2>1, <2>3, Freedom DEF NoTestByte
  <2>5. Free(uart'.rx)
    BY <1>2, <2>4, Zenon
  <2>6. DOMAIN uart'.tsr = {}
    BY <1>2
  <2> QED
    BY <1>1, <1>2, <2>1, <2>5, <2>6 DEF NoTestByte, Free
<1>8. at.main = P(11) => (Foul \/ Clean)'
  <2> SUFFICES ASSUME at.main = P(11)
               PROVE  (Foul \/ Clean)'
    OBVIOUS
  <2>1. Foul \/ Clean
    BY DEF TestFits
  <2>2. uart.loop
    BY Lengths DEF PortFits, P
  <2>3. CASE uart.rx # << >> /\ Head(uart.rx) # LOOPBACK_TEST_BYTE
    <3>1. Append(uart.rx, b) # << >> /\ Head(Append(uart.rx, b)) = Head(uart.rx)
      BY <1>2, <1>6, <2>3
    <3>2. uart'.rx # << >> /\ Head(uart'.rx) # LOOPBACK_TEST_BYTE
      BY <1>2, <2>2, <2>3, <3>1, Zenon
    <3> QED
      BY <3>2 DEF Foul
  <2>4. CASE uart.rx = << >> /\ uart.tsr[1].byte # LOOPBACK_TEST_BYTE
    <3>1. uart'.rx = <<b>> /\ b # LOOPBACK_TEST_BYTE
      BY <1>2, <1>5, <2>2, <2>4
    <3>2. uart'.rx # << >> /\ Head(uart'.rx) # LOOPBACK_TEST_BYTE
      BY <3>1
    <3> QED
      BY <3>2 DEF Foul
  <2>5. CASE /\ uart.rx = << >> /\ uart.tsr = <<Sent(LOOPBACK_TEST_BYTE, TRUE)>>
             /\ uart.thr = << >>
    <3>1. uart.tsr[1] = Sent(LOOPBACK_TEST_BYTE, TRUE)
      BY <2>5
    <3>2. /\ Sent(LOOPBACK_TEST_BYTE, TRUE).clear = TRUE
          /\ Sent(LOOPBACK_TEST_BYTE, TRUE).byte = LOOPBACK_TEST_BYTE
      BY DEF Sent
    <3>3. b = LOOPBACK_TEST_BYTE
      BY <3>1, <3>2 DEF b
    <3>4. uart'.rx = <<LOOPBACK_TEST_BYTE>>
      BY <1>2, <2>2, <2>5, <3>3
    <3> QED
      BY <1>2, <2>5, <3>4 DEF Clean
  <2> QED
    BY <1>2, <2>1, <2>3, <2>4, <2>5 DEF Foul, Clean
<1> QED
  BY <1>1, <1>3, <1>4, <1>7, <1>8 DEF TestFits, P

LEMMA TestArrive == Typed /\ TestFits /\ Arrive => TestFits'
<1> SUFFICES ASSUME Typed, TestFits, Arrive
             PROVE  TestFits'
  OBVIOUS
<1> USE DEF Typed
<1>1. /\ input \in Seq(Byte) /\ input # << >> /\ Head(input) \in Byte /\ input' = Tail(input)
      /\ uart'.thr = uart.thr /\ uart'.tsr = uart.tsr
      /\ \/ uart' = uart
         \/ ~ uart.loop /\ uart'.rx = Append(uart.rx, Head(input))
  BY Arrives
<1>2. at' = at /\ line' = line /\ at.main \in 1 .. Len(Main) /\ uart \in UartType
  BY DEF Arrive, PortType
<1>3. Free(input') /\ Head(input) # LOOPBACK_TEST_BYTE
  BY <1>1, Freedom DEF TestFits
<1>4. CASE uart' = uart
  BY <1>2, <1>3, <1>4 DEF TestFits, NoTestByte, Foul, Clean, Free, P
<1>5. CASE ~ uart.loop /\ uart'.rx = Append(uart.rx, Head(input))
  <2>1. at.main # P(11) /\ at.main # P(12)
    <3>1. \A k \in {11, 12} : P(k) < PanicAt /\ P(k) \in P(10) .. P(12)
      BY Lengths DEF P
    <3> QED
      BY <1>5, <3>1 DEF PortFits
  <2>2. at.main <= P(10) => NoTestByte'
    <3> SUFFICES ASSUME at.main <= P(10)
                 PROVE  NoTestByte'
      OBVIOUS
    <3>1. NoTestByte
      BY DEF TestFits
    <3>2. uart.rx \in Seq(Char) /\ Head(input) \in Char
      BY <1>1, <1>2, PortFields DEF Char
    <3>3. Free(uart'.rx)
      BY <1>3, <1>5, <3>1, <3>2, Freedom DEF NoTestByte
    <3> QED
      BY <1>1, <1>2, <3>1, <3>3 DEF NoTestByte, Free
  <2> QED
    BY <1>1, <1>2, <1>3, <2>1, <2>2 DEF TestFits, P
<1> QED
  BY <1>1, <1>4, <1>5

LEMMA TestInit == TestByteNotSent /\ PortInit => TestFits
<1> SUFFICES ASSUME TestByteNotSent, PortInit
             PROVE  TestFits
  OBVIOUS
<1>1. at.main = 1 /\ input = Input /\ line = << >>
  BY DEF PortInit
<1>2. uart.thr = << >> /\ uart.tsr = << >> /\ uart.rx = << >>
  BY DEF PortInit
<1>3. Free(input)
  BY <1>1 DEF TestByteNotSent
<1>4. NoTestByte
  BY <1>1, <1>2 DEF NoTestByte, Free
<1>5. at.main # P(11) /\ at.main \notin {P(12), P(13)} /\ at.main # P(12)
  BY <1>1, Lengths DEF P
<1> QED
  BY <1>3, <1>4, <1>5 DEF TestFits

LEMMA TestNext == Typed /\ TestFits /\ [PortNext]_portVars => TestFits'
<1> SUFFICES ASSUME Typed, TestFits, [PortNext]_portVars
             PROVE  TestFits'
  OBVIOUS
<1>1. CASE UNCHANGED portVars
  BY <1>1 DEF TestFits, NoTestByte, Foul, Clean, Free, portVars, P
<1>2. CASE Idle
  BY <1>1, <1>2 DEF Idle
<1> QED
  BY <1>1, <1>2, TestLogLine, TestGoesOn, TestRead, TestTest, TestOutStep,
     TestWriteByte, TestLoad, TestShift, TestArrive
     DEF PortNext, Step, Device

----------------------------------------------------------------------------
(* What is received.                                                       *)

\* Joining three sequences of characters.
LEMMA Joining ==
  ASSUME NEW s \in Seq(Char), NEW t \in Seq(Char), NEW u \in Seq(Char)
  PROVE  (s \o t) \o u = s \o (t \o u)
BY ConcatAssociative

\* A byte comes in at one end.
LEMMA Enqueued ==
  ASSUME NEW h \in Seq(Char), NEW t \in Seq(Char), NEW r \in Seq(Char), NEW b \in Char
  PROVE  Append(h \o (t \o r), b) = h \o (t \o Append(r, b))
<1>1. t \o r \in Seq(Char) /\ h \o (t \o r) \in Seq(Char) /\ <<b>> \in Seq(Char)
  BY ConcatProperties
<1>2. Append(h \o (t \o r), b) = (h \o (t \o r)) \o <<b>> /\ Append(r, b) = r \o <<b>>
  BY <1>1, AppendIsConcat
<1>3. (h \o (t \o r)) \o <<b>> = h \o ((t \o r) \o <<b>>)
  BY <1>1, Joining
<1>4. (t \o r) \o <<b>> = t \o (r \o <<b>>)
  BY <1>1, Joining
<1> QED
  BY <1>2, <1>3, <1>4, Zenon

\* A byte goes out at the other.
LEMMA Dequeued ==
  ASSUME NEW S, NEW t \in Seq(S), NEW r \in Seq(S), r # << >>
  PROVE  Append(t, Head(r)) \o Tail(r) = t \o r
<1>1. Head(r) \in S /\ Tail(r) \in Seq(S) /\ <<Head(r)>> \o Tail(r) = r /\ <<Head(r)>> \in Seq(S)
  OBVIOUS
<1>2. Append(t, Head(r)) = t \o <<Head(r)>>
  BY <1>1, AppendIsConcat
<1>3. (t \o <<Head(r)>>) \o Tail(r) = t \o (<<Head(r)>> \o Tail(r))
  BY <1>1, ConcatAssociative
<1> QED
  BY <1>1, <1>2, <1>3, Zenon

\* The end of a sequence.
LEMMA SuffixOfConcat ==
  ASSUME NEW S, NEW h \in Seq(S), NEW r \in Seq(S)
  PROVE  IsSuffix(r, h \o r)
<1> DEFINE a == Reverse(r)
           c == Reverse(h \o r)
<1>1. /\ h \o r \in Seq(S) /\ Len(h \o r) = Len(h) + Len(r) /\ Len(h) \in Nat /\ Len(r) \in Nat
      /\ \A i \in 1 .. Len(r) : (h \o r)[Len(h) + i] = r[i]
  BY ConcatAt, LenProperties DEF Chained
<1>2. /\ a = [i \in 1 .. Len(r) |-> r[Len(r) - i + 1]]
      /\ c = [i \in 1 .. Len(h) + Len(r) |-> (h \o r)[Len(h) + Len(r) - i + 1]]
  BY <1>1 DEF Reverse
<1>3. \A i \in 1 .. Len(r) : r[i] \in S
  BY ElementOfSeq, LenProperties
<1>4. a \in Seq(S) /\ Len(a) = Len(r)
  BY <1>1, <1>2, <1>3
<1>5. \A i \in 1 .. Len(h) + Len(r) : (h \o r)[i] \in S
  BY <1>1, ElementOfSeq
<1>6. c \in Seq(S) /\ Len(c) = Len(h) + Len(r)
  BY <1>1, <1>2, <1>5
<1>7. \A i \in 1 .. Len(r) : a[i] = c[i]
  <2> SUFFICES ASSUME NEW i \in 1 .. Len(r)
               PROVE  a[i] = c[i]
    OBVIOUS
  <2>1. Len(r) - i + 1 \in 1 .. Len(r) /\ i \in 1 .. Len(h) + Len(r)
        /\ Len(h) + Len(r) - i + 1 = Len(h) + (Len(r) - i + 1)
    BY <1>1
  <2> QED
    BY <1>1, <1>2, <2>1
<1> HIDE DEF a, c
<1>8. SubSeq(a, 1, Len(a)) = SubSeq(c, 1, Len(a))
  <2>1. SubSeq(a, 1, Len(a)) = [i \in 1 .. Len(r) |-> a[i]]
    BY <1>1, <1>4
  <2>2. SubSeq(c, 1, Len(a)) = [i \in 1 .. Len(r) |-> c[i]]
    BY <1>1, <1>4, <1>6
  <2> QED
    BY <1>7, <2>1, <2>2
<1>9. Len(a) <= Len(c)
  BY <1>1, <1>4, <1>6
<1> QED
  BY <1>8, <1>9 DEF IsSuffix, IsPrefix, a, c

\* A step that neither receives nor takes a byte.
LEMMA HeardStays ==
  ASSUME PortType, HeardFits, uart'.rx = uart.rx, heard' = heard, taken' = taken,
         Passes \/ at'.main \notin P(13) .. HaltAt
  PROVE  HeardFits'
<1>1. at.main \in 1 .. Len(Main)
  BY DEF PortType
<1>2. at'.main \in P(13) .. HaltAt => at.main \in P(13) .. HaltAt
  BY <1>1, Lengths DEF Passes, P
<1> QED
  BY <1>2 DEF HeardFits, P, PanicAt, HaltAt

LEMMA HeardGoesOn ==
  ASSUME Typed, HeardFits,
         SetLevel \/ Acquire \/ Release \/ EnableInterrupts \/ Interrupt \/ Return
           \/ LogLine \/ LogEnd
  PROVE  HeardFits'
<1>1. Passes
  BY GoesOn
<1>2. uart' = uart /\ heard' = heard /\ taken' = taken
  BY DEF SetLevel, Acquire, Release, EnableInterrupts, Interrupt, Return, LogLine, LogEnd
<1> QED
  BY <1>1, <1>2, HeardStays DEF Typed

LEMMA HeardRead == Typed /\ HeardFits /\ read_byte => HeardFits'
<1> SUFFICES ASSUME Typed, HeardFits, read_byte
             PROVE  HeardFits'
  OBVIOUS
<1> USE DEF Typed
<1>1. running = "main" /\ at.main \in {HaltAt - 2, HaltAt - 1}
  BY Where DEF read_byte
<1>2. at.main \in P(13) .. HaltAt
  BY <1>1, Lengths DEF P
<1>3. PICK h \in Seq(Char) : heard = h \o (taken \o uart.rx)
  BY <1>2 DEF HeardFits
<1>4. /\ uart \in UartType /\ uart' = AfterInb(uart) /\ taken \in Seq(Char)
      /\ taken' = IF DATA_READY(uart) THEN Append(taken, Inb(uart)) ELSE taken
      /\ heard' = heard
  BY DEF PortType, read_byte
<1>5. uart.rx \in Seq(Char)
  BY <1>4, PortFields
<1>6. taken' \o uart'.rx = taken \o uart.rx
  <2>1. CASE DATA_READY(uart)
    <3>1. /\ uart.rx # << >> /\ uart'.rx = Tail(uart.rx)
          /\ taken' = Append(taken, Head(uart.rx))
      BY <1>4, <2>1, Reading DEF DATA_READY
    <3>2. Append(taken, Head(uart.rx)) \o Tail(uart.rx) = taken \o uart.rx
      BY <1>4, <1>5, <3>1, Dequeued, Zenon
    <3> QED
      BY <3>1, <3>2, Zenon
  <2>2. CASE ~ DATA_READY(uart)
    BY <1>4, <2>2 DEF AfterInb
  <2> QED
    BY <2>1, <2>2
<1>7. heard' = h \o (taken' \o uart'.rx)
  BY <1>3, <1>4, <1>6, Zenon
<1> QED
  BY <1>7 DEF HeardFits

\* Nothing but what the far end sends is heard once loopback mode is left,
\* with nothing in the receiver.
LEMMA HeardOutStep == Typed /\ TestFits /\ HeardFits /\ OutStep => HeardFits'
<1> SUFFICES ASSUME Typed, TestFits, HeardFits, OutStep
             PROVE  HeardFits'
  OBVIOUS
<1> USE DEF Typed
<1>1. /\ running = "main" /\ at.main \in P(3) .. P(10) \cup {P(12)}
      /\ heard' = heard /\ taken' = taken
  BY Where DEF OutStep
<1>2. at'.main = at.main + 1
  <2>1. Goto(at.main + 1) /\ at.main + 1 \in 1 .. Len(Main)
    BY <1>1, Lengths DEF OutStep, Continue, P
  <2> QED
    BY <1>1, <2>1, Going
<1>3. CASE at.main \in P(3) .. P(10)
  <2>1. at'.main \notin P(13) .. HaltAt
    BY <1>2, <1>3, Lengths DEF P
  <2> QED
    BY <2>1 DEF HeardFits, P, PanicAt, HaltAt
<1>4. CASE at.main = P(12)
  <2>1. uart.rx = << >>
    BY <1>4 DEF TestFits
  <2>2. uart'.rx = << >>
    <3>1. at.main \notin {P(8), P(10)}
      BY <1>4, Lengths DEF P
    <3> QED
      BY <2>1, <3>1, OutEffects DEF OutEffect
  <2>3. taken' = << >>
    <3>1. at.main \notin P(14) .. HaltAt
      BY <1>4, Lengths DEF P
    <3> QED
      BY <1>1, <3>1 DEF LockFits
  <2>4. heard \in Seq(Char)
    <3>1. heard \in Seq(Byte) /\ Byte \subseteq Char
      BY DEF PortType, Char
    <3> QED
      BY <3>1
  <2>5. heard' = heard \o (<< >> \o << >>)
    BY <1>1, <2>4, ConcatEmptySeq
  <2>6. heard' = heard \o (taken' \o uart'.rx)
    BY <2>2, <2>3, <2>5, Zenon
  <2> QED
    BY <2>4, <2>6 DEF HeardFits
<1> QED
  BY <1>1, <1>3, <1>4

LEMMA HeardArrive == Typed /\ HeardFits /\ Arrive => HeardFits'
<1> SUFFICES ASSUME Typed, HeardFits, Arrive
             PROVE  HeardFits'
  OBVIOUS
<1> USE DEF Typed
<1>1. /\ Head(input) \in Byte
      /\ \/ uart' = uart /\ heard' = heard
         \/ uart'.rx = Append(uart.rx, Head(input)) /\ heard' = Append(heard, Head(input))
  BY Arrives
<1>2. at' = at /\ taken' = taken
  BY DEF Arrive
<1>3. CASE uart' = uart /\ heard' = heard
  BY <1>2, <1>3 DEF HeardFits, P, PanicAt, HaltAt
<1>4. CASE uart'.rx = Append(uart.rx, Head(input)) /\ heard' = Append(heard, Head(input))
  <2> SUFFICES ASSUME at.main \in P(13) .. HaltAt
               PROVE  \E h \in Seq(Char) : heard' = h \o (taken' \o uart'.rx)
    BY <1>2 DEF HeardFits, P, PanicAt, HaltAt
  <2>1. PICK h \in Seq(Char) : heard = h \o (taken \o uart.rx)
    BY DEF HeardFits
  <2>2. uart \in UartType /\ taken \in Seq(Char) /\ Head(input) \in Char
    BY <1>1 DEF PortType, Char
  <2>3. uart.rx \in Seq(Char)
    BY <2>2, PortFields
  <2>4. Append(h \o (taken \o uart.rx), Head(input)) = h \o (taken \o Append(uart.rx, Head(input)))
    <3>1. h \in Seq(Char)
      BY <2>1
    <3>2. PICK t, r, b : t = taken /\ r = uart.rx /\ b = Head(input)
      OBVIOUS
    <3>3. t \in Seq(Char) /\ r \in Seq(Char) /\ b \in Char
      BY <2>2, <2>3, <3>2
    <3>4. Append(h \o (t \o r), b) = h \o (t \o Append(r, b))
      BY <3>1, <3>3, Enqueued
    <3> QED
      BY <3>2, <3>4, Zenon
  <2>5. heard' = h \o (taken' \o uart'.rx)
    BY <1>2, <1>4, <2>1, <2>4, Zenon
  <2> QED
    BY <2>5
<1> QED
  BY <1>1, <1>3, <1>4

\* Loopback mode being left, what is shifted out is not received.
LEMMA HeardShift == Typed /\ HeardFits /\ ShiftStep => HeardFits'
<1> SUFFICES ASSUME Typed, HeardFits, ShiftStep
             PROVE  HeardFits'
  OBVIOUS
<1> USE DEF Typed
<1>1. /\ uart \in UartType /\ uart' = Shifted(uart) /\ CanShift(uart) /\ Len(uart.tsr) <= 1
      /\ at' = at /\ taken' = taken /\ heard' = heard
  BY DEF PortType, ShiftStep
<1>2. ~ uart.loop => uart'.rx = uart.rx
  BY <1>1, Shifting
<1>3. at.main \in P(13) .. HaltAt => ~ uart.loop
  BY Lengths DEF PortFits, P
<1> QED
  BY <1>1, <1>2, <1>3 DEF HeardFits, P, PanicAt, HaltAt

LEMMA HeardNext == Typed /\ TestFits /\ HeardFits /\ [PortNext]_portVars => HeardFits'
<1> SUFFICES ASSUME Typed, TestFits, HeardFits, [PortNext]_portVars
             PROVE  HeardFits'
  OBVIOUS
<1>1. CASE UNCHANGED portVars
  BY <1>1 DEF HeardFits, P, PanicAt, HaltAt, portVars
<1>2. CASE Idle
  BY <1>1, <1>2 DEF Idle
<1>3. CASE Test
  <2>1. Goto(P(12)) \/ Goto(PanicAt)
    BY <1>3, Where, Lengths DEF Typed, Test, P
  <2>2. at'.main \in {P(12), PanicAt}
    BY <1>3, <2>1, Where, Going, Lengths DEF Typed, Test, P
  <2> QED
    BY <2>2, Lengths DEF HeardFits, P, PanicAt, HaltAt
<1>4. CASE write_byte
  <2>1. uart'.rx = uart.rx /\ at' = at /\ heard' = heard /\ taken' = taken
    BY <1>4, Writes DEF Typed, write_byte
  <2> QED
    BY <2>1 DEF HeardFits, P, PanicAt, HaltAt
<1>5. CASE LoadStep
  <2>1. uart'.rx = uart.rx /\ at' = at /\ heard' = heard /\ taken' = taken
    BY <1>5, Loading DEF Typed, PortType, LoadStep
  <2> QED
    BY <2>1 DEF HeardFits, P, PanicAt, HaltAt
<1> QED
  BY <1>1, <1>2, <1>3, <1>4, <1>5, HeardGoesOn, HeardRead, HeardOutStep, HeardArrive,
     HeardShift DEF PortNext, Step, Device

\* read_byte returns what the far end sent since initialisation and nothing
\* else, for every program of early and late lines and every input, as long
\* as the far end does not send the test byte: what is left of the early
\* lines is not taken for it, so a port with something in it fails its
\* self-test.
THEOREM InputTheirs == TestByteNotSent /\ PortSpec => []InputIsTheirs
<1>1. Typed /\ HeardFits => InputIsTheirs
  <2> SUFFICES ASSUME Typed, HeardFits, ready
               PROVE  IsSuffix(taken \o uart.rx, heard)
    BY DEF InputIsTheirs
  <2>1. at.main \in P(13) .. HaltAt
    BY Lengths DEF Typed, LockFits, P
  <2>2. PICK h \in Seq(Char) : heard = h \o (taken \o uart.rx)
    BY <2>1 DEF HeardFits
  <2>3. uart \in UartType /\ taken \in Seq(Char)
    BY DEF Typed, PortType
  <2>4. taken \o uart.rx \in Seq(Char)
    BY <2>3, PortFields, ConcatProperties
  <2> QED
    BY <2>2, <2>4, SuffixOfConcat
<1>2. PortInit => HeardFits
  <2> SUFFICES ASSUME PortInit
               PROVE  at.main \notin P(13) .. HaltAt
    BY DEF HeardFits
  <2> QED
    BY Lengths DEF PortInit, P
<1> QED
  BY TypedInit, TypedNext, TestInit, TestNext, HeardNext, <1>1, <1>2, PTL DEF PortSpec

----------------------------------------------------------------------------
(* What is sent.                                                           *)

\* Counting text.
LEMMA Counting ==
  ASSUME NEW o \in Seq(Char)
  PROVE  /\ \A i \in 0 .. Len(o) : Upto(o, i) \in Nat /\ Upto(o, i) <= Upto(o, Len(o))
         /\ \A i \in 1 .. Len(o) : o[i] # "CR" => Upto(o, i) >= 1
         /\ Upto(o, 0) = 0
<1> DEFINE T(i) == {j \in 1 .. i : o[j] # "CR"}
<1>1. \A i \in 0 .. Len(o) : IsFiniteSet(T(i)) /\ T(i) \subseteq T(Len(o))
  <2> SUFFICES ASSUME NEW i \in 0 .. Len(o)
               PROVE  IsFiniteSet(T(i)) /\ T(i) \subseteq T(Len(o))
    OBVIOUS
  <2>1. IsFiniteSet(1 .. i) /\ T(i) \subseteq 1 .. i
    BY FS_Interval
  <2> QED
    BY <2>1, FS_Subset
<1>2. \A i \in 0 .. Len(o) : Upto(o, i) = Cardinality(T(i))
  BY DEF Upto
<1>3. Len(o) \in 0 .. Len(o)
  OBVIOUS
<1>4. \A i \in 1 .. Len(o) : o[i] # "CR" => i \in T(i) /\ i \in 0 .. Len(o)
  OBVIOUS
<1>5. T(0) = {} /\ 0 \in 0 .. Len(o)
  OBVIOUS
<1> HIDE DEF T
<1>6. \A i \in 0 .. Len(o) : Cardinality(T(i)) \in Nat /\ Cardinality(T(i)) <= Cardinality(T(Len(o)))
  BY <1>1, <1>3, FS_CardinalityType, FS_Subset
<1>7. \A i \in 1 .. Len(o) : o[i] # "CR" => Cardinality(T(i)) >= 1
  <2> SUFFICES ASSUME NEW i \in 1 .. Len(o), o[i] # "CR"
               PROVE  Cardinality(T(i)) >= 1
    OBVIOUS
  <2>1. i \in T(i) /\ i \in 0 .. Len(o)
    BY <1>4
  <2>2. IsFiniteSet(T(i)) /\ T(i) # {} /\ Cardinality(T(i)) \in Nat
    BY <1>1, <1>6, <2>1
  <2>3. Cardinality(T(i)) # 0
    BY <2>2, FS_EmptySet
  <2> QED
    BY <2>2, <2>3
<1>8. Cardinality(T(0)) = 0
  BY <1>5, FS_EmptySet
<1> QED
  BY <1>2, <1>3, <1>4, <1>5, <1>6, <1>7, <1>8

\* One more byte counts, or not.
LEMMA CountingOn ==
  ASSUME NEW o \in Seq(Char), NEW b \in Char
  PROVE  /\ \A i \in 0 .. Len(o) : Upto(Append(o, b), i) = Upto(o, i)
         /\ Upto(Append(o, b), Len(o) + 1) = Upto(o, Len(o)) + IF b = "CR" THEN 0 ELSE 1
<1> DEFINE p == Append(o, b)
           n == Len(o)
           T == {j \in 1 .. n : o[j] # "CR"}
<1>1. n \in Nat /\ (\A j \in 1 .. n : p[j] = o[j]) /\ p[n + 1] = b
  OBVIOUS
<1> HIDE DEF p
<1>2. \A i \in 0 .. n : {j \in 1 .. i : p[j] # "CR"} = {j \in 1 .. i : o[j] # "CR"}
  <2> SUFFICES ASSUME NEW i \in 0 .. n
               PROVE  {j \in 1 .. i : p[j] # "CR"} = {j \in 1 .. i : o[j] # "CR"}
    OBVIOUS
  <2>1. \A j \in 1 .. i : p[j] = o[j]
    BY <1>1
  <2> QED
    BY <2>1
<1>3. \A i \in 0 .. n : Upto(p, i) = Upto(o, i)
  BY <1>2 DEF Upto
<1>4. IsFiniteSet(T) /\ n + 1 \notin T
  <2>1. IsFiniteSet(1 .. n) /\ T \subseteq 1 .. n
    BY <1>1, FS_Interval
  <2> QED
    BY <1>1, <2>1, FS_Subset
<1>5. {j \in 1 .. n + 1 : p[j] # "CR"} = IF b = "CR" THEN T ELSE T \cup {n + 1}
  BY <1>1
<1>6. Upto(o, n) = Cardinality(T)
  BY DEF Upto
<1>7. Upto(p, n + 1) = Cardinality(IF b = "CR" THEN T ELSE T \cup {n + 1})
  BY <1>5 DEF Upto
<1> HIDE DEF T, n
<1>8. Upto(p, n + 1) = Upto(o, n) + IF b = "CR" THEN 0 ELSE 1
  <2>1. Cardinality(T) \in Nat /\ Cardinality(T \cup {n + 1}) = Cardinality(T) + 1
    BY <1>4, FS_CardinalityType, FS_AddElement
  <2> QED
    BY <1>6, <1>7, <2>1
<1> QED
  BY <1>3, <1>8 DEF p, n

\* Nothing said, nothing sent.
LEMMA SpokenNothing == Spoken(<< >>, << >>, << >>)
<1>1. {j \in 1 .. 0 : << >>[j] # "CR"} = {}
  OBVIOUS
<1>2. Upto(<< >>, 0) = 0
  BY <1>1, FS_EmptySet DEF Upto
<1> QED
  BY <1>2 DEF Spoken

\* A line is said.
LEMMA SpokenLine ==
  ASSUME NEW o \in Seq(Char), NEW s \in Seq(Byte), NEW t \in Seq(Byte), Spoken(o, s, << >>)
  PROVE  Spoken(o, s \o t, t)
<1>1. Chained(Byte, s \o t, s, t)
  BY ConcatAt
<1>2. PICK r : r = s \o t
  OBVIOUS
<1>3. PICK c : c = Upto(o, Len(o))
  OBVIOUS
<1>4. /\ Len(r) = Len(s) + Len(t)
      /\ \A i \in 1 .. Len(s) : r[i] = s[i]
      /\ \A i \in 1 .. Len(t) : r[Len(s) + i] = t[i]
  BY <1>1, <1>2 DEF Chained
<1>5. Len(s) = c + 0 /\ c \in Nat /\ Len(s) = c
  <2>1. Len(s) = c + Len(<< >>) /\ Len(<< >>) = 0
    BY <1>3 DEF Spoken
  <2> QED
    BY <1>3, <2>1, Counting
<1>6. /\ \A i \in DOMAIN o : o[i] # "CR" => s[Upto(o, i)] = o[i]
      /\ \A i \in DOMAIN o : o[i] = "LF" => i > 1 /\ o[i - 1] = "CR"
  BY DEF Spoken
<1>7. \A i \in DOMAIN o : o[i] # "CR" => r[Upto(o, i)] = o[i]
  <2> SUFFICES ASSUME NEW i \in DOMAIN o, o[i] # "CR"
               PROVE  r[Upto(o, i)] = o[i]
    OBVIOUS
  <2>1. i \in 1 .. Len(o) /\ i \in 0 .. Len(o)
    OBVIOUS
  <2>2. Upto(o, i) \in 1 .. Len(s)
    BY <1>3, <1>5, <2>1, Counting
  <2> QED
    BY <1>4, <1>6, <2>2
<1>8. \A i \in DOMAIN t : r[c + i] = t[i]
  <2>1. DOMAIN t = 1 .. Len(t)
    OBVIOUS
  <2> QED
    BY <1>4, <1>5, <2>1
<1>9. Len(r) = c + Len(t)
  BY <1>4, <1>5
<1>10. Spoken(o, r, t)
  BY <1>3, <1>6, <1>7, <1>8, <1>9 DEF Spoken
<1> QED
  BY <1>2, <1>10

\* A byte is sent: the CR of a line end, or the next of the line.
LEMMA SpokenByte ==
  ASSUME NEW o \in Seq(Char), NEW s \in Seq(Byte), NEW l \in Seq(Byte), NEW k \in Seq(Byte),
         NEW b \in Char, Spoken(o, s, l),
         \/ b = "CR" /\ k = l
         \/ /\ b # "CR" /\ l # << >> /\ b = Head(l) /\ k = Tail(l)
            /\ b = "LF" => o # << >> /\ o[Len(o)] = "CR"
  PROVE  Spoken(Append(o, b), s, k)
<1> DEFINE n == Len(o)
<1>1. PICK p : p = Append(o, b)
  OBVIOUS
<1>2. n \in Nat /\ Len(p) = n + 1 /\ DOMAIN p = 1 .. n + 1 /\ DOMAIN o = 1 .. n
      /\ (\A j \in 1 .. n : p[j] = o[j]) /\ p[n + 1] = b
  BY <1>1
<1>3. /\ \A i \in 0 .. n : Upto(p, i) = Upto(o, i)
      /\ Upto(p, n + 1) = Upto(o, n) + IF b = "CR" THEN 0 ELSE 1
  BY <1>1, CountingOn
<1>4. Upto(o, n) \in Nat
  BY <1>2, Counting
<1> HIDE DEF n
<1>5. /\ Len(s) = Upto(o, n) + Len(l)
      /\ \A i \in 1 .. n : o[i] # "CR" => s[Upto(o, i)] = o[i]
      /\ \A i \in DOMAIN l : s[Upto(o, n) + i] = l[i]
      /\ \A i \in 1 .. n : o[i] = "LF" => i > 1 /\ o[i - 1] = "CR"
  BY <1>2 DEF Spoken, n
<1>6. \A i \in 1 .. n : p[i] # "CR" => s[Upto(p, i)] = p[i]
  BY <1>2, <1>3, <1>5
<1>7. \A i \in 1 .. n : p[i] = "LF" => i > 1 /\ p[i - 1] = "CR"
  BY <1>2, <1>5
<1>8. CASE b = "CR" /\ k = l
  <2>1. Upto(p, n + 1) = Upto(o, n)
    BY <1>3, <1>4, <1>8
  <2>2. \A i \in 1 .. n + 1 : p[i] # "CR" => s[Upto(p, i)] = p[i]
    BY <1>2, <1>6, <1>8
  <2>3. \A i \in 1 .. n + 1 : p[i] = "LF" => i > 1 /\ p[i - 1] = "CR"
    <3>1. p[n + 1] # "LF"
      BY <1>2, <1>8
    <3> QED
      BY <1>2, <1>7, <3>1
  <2>4. Spoken(p, s, k)
    BY <1>2, <1>5, <1>8, <2>1, <2>2, <2>3 DEF Spoken
  <2> QED
    BY <1>1, <2>4
<1>9. CASE /\ b # "CR" /\ l # << >> /\ b = Head(l) /\ k = Tail(l)
           /\ b = "LF" => o # << >> /\ o[Len(o)] = "CR"
  <2>1. Upto(p, n + 1) = Upto(o, n) + 1
    BY <1>3, <1>9
  <2>2. /\ Len(l) \in Nat \ {0} /\ DOMAIN l = 1 .. Len(l) /\ b = l[1] /\ Len(k) = Len(l) - 1
        /\ DOMAIN k = 1 .. Len(l) - 1 /\ \A i \in 1 .. Len(l) - 1 : k[i] = l[i + 1]
    BY <1>9
  <2>3. s[Upto(o, n) + 1] = b
    BY <1>5, <2>2
  <2>4. \A i \in 1 .. n + 1 : p[i] # "CR" => s[Upto(p, i)] = p[i]
    BY <1>2, <1>6, <2>1, <2>3
  <2>5. \A i \in 1 .. n + 1 : p[i] = "LF" => i > 1 /\ p[i - 1] = "CR"
    <3>1. b = "LF" => n \in 1 .. n /\ o[n] = "CR"
      BY <1>2, <1>9 DEF n
    <3>2. p[n + 1] = "LF" => n + 1 > 1 /\ p[n] = "CR" /\ n + 1 - 1 = n
      BY <1>2, <3>1
    <3> QED
      BY <1>2, <1>7, <3>2
  <2>6. \A i \in DOMAIN k : s[Upto(p, n + 1) + i] = k[i]
    <3> SUFFICES ASSUME NEW i \in 1 .. Len(l) - 1
                 PROVE  s[Upto(p, n + 1) + i] = k[i]
      BY <2>2
    <3>1. i + 1 \in DOMAIN l /\ Upto(p, n + 1) + i = Upto(o, n) + (i + 1)
      BY <1>4, <2>1, <2>2
    <3> QED
      BY <1>5, <2>2, <3>1
  <2>7. Len(s) = Upto(p, n + 1) + Len(k)
    BY <1>4, <1>5, <2>1, <2>2
  <2>8. Spoken(p, s, k)
    BY <1>2, <2>4, <2>5, <2>6, <2>7 DEF Spoken
  <2> QED
    BY <1>1, <2>8
<1> QED
  BY <1>8, <1>9

\* The bytes of what is on its way out.
Bytes(q) == [i \in DOMAIN q |-> q[i].byte]

LEMMA BytesAre ==
  ASSUME NEW q \in Seq(SentBytes)
  PROVE  /\ Bytes(q) \in Seq(Char) /\ Len(Bytes(q)) = Len(q)
         /\ \A i \in 1 .. Len(q) : Bytes(q)[i] = q[i].byte
<1>1. DOMAIN q = 1 .. Len(q) /\ Len(q) \in Nat /\ \A i \in 1 .. Len(q) : q[i] \in SentBytes
  BY LenProperties, ElementOfSeq
<1>2. \A i \in 1 .. Len(q) : q[i].byte \in Char
  BY <1>1 DEF SentBytes
<1>3. Bytes(q) = [i \in 1 .. Len(q) |-> q[i].byte]
  BY <1>1 DEF Bytes
<1> QED
  BY <1>1, <1>2, <1>3, FunctionIsSeq

LEMMA BytesOne ==
  ASSUME NEW q \in Seq(SentBytes), NEW x \in SentBytes
  PROVE  /\ Bytes(<< >>) = << >> /\ Bytes(<<x>>) = <<x.byte>>
         /\ Bytes(q \o <<x>>) = Bytes(q) \o <<x.byte>>
<1>1. Bytes(<< >>) = << >>
  BY DEF Bytes
<1>2. <<x>> \in Seq(SentBytes) /\ Len(<<x>>) = 1 /\ <<x>>[1] = x /\ x.byte \in Char
  BY DEF SentBytes
<1>3. Bytes(<<x>>) = <<x.byte>>
  BY <1>2 DEF Bytes
<1>4. Chained(SentBytes, q \o <<x>>, q, <<x>>)
  BY <1>2, ConcatAt
<1>5. <<x.byte>> \in Seq(Char) /\ Len(<<x.byte>>) = 1 /\ <<x.byte>>[1] = x.byte
  BY <1>2
<1>6. /\ Bytes(q) \in Seq(Char) /\ Len(Bytes(q)) = Len(q)
      /\ \A i \in 1 .. Len(q) : Bytes(q)[i] = q[i].byte
  BY BytesAre
<1>7. Chained(Char, Bytes(q) \o <<x.byte>>, Bytes(q), <<x.byte>>)
  BY <1>5, <1>6, ConcatAt
<1>8. PICK r, t : r = q \o <<x>> /\ t = Bytes(q) \o <<x.byte>>
  OBVIOUS
<1>9. /\ r \in Seq(SentBytes) /\ Len(r) = Len(q) + 1 /\ Len(q) \in Nat
      /\ \A i \in 1 .. Len(q) : r[i] = q[i]
      /\ r[Len(q) + 1] = x
  BY <1>2, <1>4, <1>8, LenProperties DEF Chained
<1>10. /\ t \in Seq(Char) /\ Len(t) = Len(q) + 1
       /\ \A i \in 1 .. Len(q) : t[i] = q[i].byte
       /\ t[Len(q) + 1] = x.byte
  BY <1>5, <1>6, <1>7, <1>8 DEF Chained
<1>11. /\ Bytes(r) \in Seq(Char) /\ Len(Bytes(r)) = Len(q) + 1
       /\ \A i \in 1 .. Len(q) + 1 : Bytes(r)[i] = r[i].byte
  BY <1>9, BytesAre
<1>12. \A i \in 1 .. Len(q) + 1 : Bytes(r)[i] = t[i]
  <2> SUFFICES ASSUME NEW i \in 1 .. Len(q) + 1
               PROVE  Bytes(r)[i] = t[i]
    OBVIOUS
  <2>1. i \in 1 .. Len(q) \/ i = Len(q) + 1
    BY <1>9
  <2> QED
    BY <1>9, <1>10, <1>11, <2>1
<1>13. Bytes(r) = t
  BY <1>10, <1>11, <1>12, SeqEqual
<1> QED
  BY <1>1, <1>3, <1>8, <1>13

\* The output, as the concatenation it is.
LEMMA OutputIs ==
  ASSUME PortType
  PROVE  /\ Output = (Bytes(wire) \o Bytes(uart.tsr)) \o uart.thr
         /\ Bytes(wire) \in Seq(Char) /\ Bytes(uart.tsr) \in Seq(Char)
         /\ uart.thr \in Seq(Char) /\ Output \in Seq(Char)
<1>1. Output = (Bytes(wire) \o Bytes(uart.tsr)) \o uart.thr
  BY DEF Output, Bytes
<1>2. wire \in Seq(SentBytes) /\ uart \in UartType
  BY DEF PortType
<1>3. uart.tsr \in Seq(SentBytes) /\ uart.thr \in Seq(Char)
  BY <1>2, PortFields
<1>4. Bytes(wire) \in Seq(Char) /\ Bytes(uart.tsr) \in Seq(Char)
  BY <1>2, <1>3, BytesAre
<1> QED
  BY <1>1, <1>3, <1>4, ConcatProperties

\* A step that leaves the transmitter and the lines alone.
LEMMA OutputStays ==
  ASSUME OutputFits, uart'.thr = uart.thr, uart'.tsr = uart.tsr, wire' = wire, ready' = ready,
         said' = said, line' = line, cr' = cr
  PROVE  OutputFits'
<1>1. Output' = Output
  BY DEF Output
<1> QED
  BY <1>1 DEF OutputFits

\* Serial::init leaves the transmitter empty.
LEMMA OutputRelease == Typed /\ TestFits /\ Release => OutputFits'
<1> SUFFICES ASSUME Typed, TestFits, Release
             PROVE  OutputFits'
  OBVIOUS
<1> USE DEF Typed
<1>1. running = "main" /\ at.main = P(13)
  BY Where DEF Release
<1>2. uart.thr = << >> /\ uart.tsr = << >>
  BY <1>1 DEF TestFits
<1>3. owner = "init" /\ ~ ready
  BY <1>1, Lengths DEF LockFits, P
<1>4. said = << >> /\ wire = << >> /\ line = << >> /\ ~ cr
  BY <1>3 DEF LockFits
<1>5. uart' = uart /\ said' = said /\ wire' = wire /\ line' = line /\ cr' = cr
  BY DEF Release
<1>6. Output' = << >>
  <2>1. uart'.thr = << >> /\ uart'.tsr = << >> /\ wire' = << >>
    BY <1>2, <1>4, <1>5
  <2> QED
    BY <2>1 DEF Output
<1>7. Spoken(Output', said', line')
  BY <1>4, <1>5, <1>6, SpokenNothing
<1>8. DOMAIN uart'.tsr = {} /\ DOMAIN wire' = {}
  BY <1>2, <1>4, <1>5
<1> QED
  BY <1>4, <1>5, <1>7, <1>8 DEF OutputFits

\* A line is said when its writing begins.
LEMMA OutputLogLine == Typed /\ OutputFits /\ LogLine => OutputFits'
<1> SUFFICES ASSUME Typed, OutputFits, LogLine
             PROVE  OutputFits'
  OBVIOUS
<1> USE DEF Typed
<1>1. uart' = uart /\ wire' = wire /\ cr' = cr /\ ready' = ready
  BY DEF LogLine
<1>2. CASE ~ ready
  BY <1>1, <1>2 DEF OutputFits
<1>3. CASE ready
  <2>1. log_level = Level
    <3>1. at.main \in P(14) .. HaltAt
      BY <1>3 DEF LockFits
    <3>2. at.main > 1
      BY <3>1, Lengths DEF P
    <3> QED
      BY <3>2 DEF LockFits
  <2>2. enabled(This.val) <=> This.val.level <= Level
    BY <2>1 DEF enabled
  <2>3. CASE ~ enabled(This.val)
    BY <1>1, <2>2, <2>3, OutputStays DEF LogLine
  <2>4. CASE enabled(This.val)
    <3>1. owner = "none" /\ line' = This.val.text /\ said' = said \o This.val.text
      BY <1>3, <2>2, <2>4 DEF LogLine
    <3>2. line = << >> /\ ~ cr
      BY <3>1 DEF LockFits
    <3>3. This.val.text \in Seq(Byte)
      <4>1. This.val \in Lines
        BY Where DEF LogLine
      <4>2. This.val.text \in Seq(Byte \ {"CR"})
        BY <4>1 DEF Lines
      <4> QED
        BY <4>2
    <3>4. Output' = Output
      BY <1>1 DEF Output
    <3>5. Output \in Seq(Char) /\ said \in Seq(Byte)
      BY OutputIs DEF PortType
    <3>6. Spoken(Output, said, << >>)
      BY <1>3, <3>2 DEF OutputFits
    <3>7. Spoken(Output, said \o This.val.text, This.val.text)
      BY <3>3, <3>5, <3>6, SpokenLine
    <3>8. Spoken(Output', said', line')
      BY <3>1, <3>4, <3>7, Zenon
    <3> QED
      BY <1>1, <1>3, <3>2, <3>8 DEF OutputFits
  <2> QED
    BY <2>3, <2>4
<1> QED
  BY <1>2, <1>3 DEF PortType

LEMMA OutputWriteByte == Typed /\ OutputFits /\ write_byte => OutputFits'
<1> SUFFICES ASSUME Typed, OutputFits, write_byte
             PROVE  OutputFits'
  OBVIOUS
<1> USE DEF Typed
<1>1. /\ line \in Seq(Byte \ {"CR"}) /\ line # << >> /\ Head(line) \in Byte \ {"CR"}
      /\ line' \in Seq(Byte \ {"CR"}) /\ uart.thr = << >> /\ uart'.tsr = uart.tsr
      /\ \/ Head(line) = "LF" /\ ~ cr /\ line' = line /\ cr' /\ uart'.thr = <<"CR">>
         \/ (Head(line) = "LF" => cr) /\ line' = Tail(line) /\ ~ cr'
              /\ uart'.thr = <<Head(line)>>
  BY Writes, Zenon
<1>2. wire' = wire /\ said' = said /\ ready' = ready
  BY DEF write_byte
<1>3. CASE ~ ready
  BY <1>2, <1>3 DEF OutputFits
<1>4. CASE ready
  <2>1. PICK b \in Char :
          /\ uart'.thr = <<b>>
          /\ \/ b = "CR" /\ line' = line /\ Head(line) = "LF"
             \/ b # "CR" /\ b = Head(line) /\ line' = Tail(line) /\ ~ cr' /\ (b = "LF" => cr)
    <3>1. Head(line) \in Char /\ Head(line) # "CR" /\ "CR" \in Char
      BY <1>1, SerialAssumption DEF Char
    <3> QED
      BY <1>1, <3>1, Zenon
  <2>2. Output' = Append(Output, b)
    <3>1. /\ Output = (Bytes(wire) \o Bytes(uart.tsr)) \o uart.thr
          /\ Bytes(wire) \in Seq(Char) /\ Bytes(uart.tsr) \in Seq(Char)
      BY OutputIs
    <3>2. PICK o : o = Bytes(wire) \o Bytes(uart.tsr)
      OBVIOUS
    <3>3. o \in Seq(Char)
      BY <3>1, <3>2, ConcatProperties
    <3>4. Output = o
      BY <1>1, <3>1, <3>2, <3>3, ConcatEmptySeq
    <3>5. Output' = o \o <<b>>
      BY <1>1, <1>2, <2>1, <3>2 DEF Output, Bytes
    <3> QED
      BY <3>3, <3>4, <3>5, AppendIsConcat
  <2>3. /\ Spoken(Output, said, line) /\ (cr => Ended(Output, line))
        /\ \A i \in DOMAIN wire : wire[i].clear
        /\ \A i \in DOMAIN uart.tsr : uart.tsr[i].clear
    BY <1>4 DEF OutputFits
  <2>4. Output \in Seq(Char) /\ said \in Seq(Byte) /\ line \in Seq(Byte) /\ line' \in Seq(Byte)
    <3>1. said \in Seq(Byte)
      BY DEF PortType
    <3>2. Output \in Seq(Char)
      BY OutputIs
    <3> QED
      BY <1>1, <3>1, <3>2
  <2>5. Spoken(Append(Output, b), said, line')
    <3>1. \/ b = "CR" /\ line' = line
          \/ /\ b # "CR" /\ line # << >> /\ b = Head(line) /\ line' = Tail(line)
             /\ b = "LF" => Output # << >> /\ Output[Len(Output)] = "CR"
      BY <1>1, <2>1, <2>3, Zenon DEF Ended
    <3> QED
      BY <2>3, <2>4, <3>1, SpokenByte
  <2>6. cr' => Ended(Output', line')
    <3> SUFFICES ASSUME cr'
                 PROVE  Ended(Output', line')
      OBVIOUS
    <3>1. b = "CR" /\ line' = line /\ Head(line) = "LF"
      BY <2>1
    <3>2. Append(Output, b) # << >> /\ Append(Output, b)[Len(Append(Output, b))] = b
      <4>1. PICK o : o = Output
        OBVIOUS
      <4>2. o \in Seq(Char) /\ b \in Char
        BY <2>1, <2>4, <4>1
      <4>3. Append(o, b) # << >> /\ Append(o, b)[Len(Append(o, b))] = b
        BY <4>2
      <4> QED
        BY <4>1, <4>3, Zenon
    <3> QED
      BY <1>1, <2>2, <3>1, <3>2 DEF Ended
  <2> QED
    BY <1>1, <1>2, <2>2, <2>3, <2>5, <2>6 DEF OutputFits
<1> QED
  BY <1>3, <1>4 DEF PortType

\* The byte loaded is sent in the format and at the speed set.
LEMMA OutputLoad == Typed /\ OutputFits /\ LoadStep => OutputFits'
<1> SUFFICES ASSUME Typed, OutputFits, LoadStep
             PROVE  OutputFits'
  OBVIOUS
<1> USE DEF Typed
<1>1. /\ uart \in UartType /\ Len(uart.thr) <= 1 /\ CanLoad(uart) /\ uart' = Load(uart)
      /\ wire' = wire /\ said' = said /\ line' = line /\ cr' = cr /\ ready' = ready
  BY DEF PortType, LoadStep
<1>2. /\ uart.thr # << >> /\ uart.thr = <<Head(uart.thr)>> /\ uart.tsr = << >>
      /\ uart'.thr = << >>
      /\ uart'.tsr = <<Sent(Head(uart.thr), Configured(uart))>>
  BY <1>1, Loading DEF CanLoad
<1>3. CASE ~ ready
  BY <1>1, <1>3 DEF OutputFits
<1>4. CASE ready
  <2>1. Configured(uart)
    <3>1. at.main \in P(14) .. HaltAt
      BY <1>4 DEF LockFits
    <3>2. at.main < PanicAt /\ at.main \notin P(5) .. P(7) /\ at.main \in P(6) .. HaltAt
      BY <3>1, Lengths DEF P
    <3>3. uart.lcr # LCR_DLAB /\ uart.baud = <<1, 0>>
      BY <3>2 DEF PortFits
    <3> QED
      BY <1>1, <3>3, PortFields DEF Configured
  <2>2. PICK b : b = Head(uart.thr)
    OBVIOUS
  <2>3. b \in Char
    BY <1>1, <1>2, <2>2, PortFields
  <2>4. PICK x : x = Sent(b, Configured(uart))
    OBVIOUS
  <2>5. x \in SentBytes /\ x.byte = b /\ x.clear
    <3>1. Configured(uart) \in BOOLEAN
      BY DEF Configured
    <3>2. x.byte = b /\ x.clear = Configured(uart)
      BY <2>4 DEF Sent
    <3>3. x \in SentBytes
      BY <2>3, <2>4, <3>1 DEF Sent, SentBytes
    <3> QED
      BY <2>1, <3>2, <3>3, Zenon
  <2>6. uart'.tsr = <<x>> /\ uart.thr = <<b>>
    BY <1>2, <2>2, <2>4, Zenon
  <2>7. Bytes(<< >>) = << >> /\ Bytes(<<x>>) = <<b>>
    <3>1. << >> \in Seq(SentBytes)
      OBVIOUS
    <3> QED
      BY <2>5, <3>1, BytesOne
  <2>8. Output' = Output
    <3>1. Output = (Bytes(wire) \o Bytes(uart.tsr)) \o uart.thr /\ Bytes(wire) \in Seq(Char)
      BY OutputIs
    <3>2. Output' = (Bytes(wire') \o Bytes(uart'.tsr)) \o uart'.thr
      BY DEF Output, Bytes
    <3>3. PICK w : w = Bytes(wire)
      OBVIOUS
    <3>4. Output = (w \o << >>) \o <<b>>
      BY <1>2, <2>6, <2>7, <3>1, <3>3, Zenon
    <3>5. Output' = (w \o <<b>>) \o << >>
      BY <1>1, <1>2, <2>6, <2>7, <3>2, <3>3, Zenon
    <3>6. w \in Seq(Char) /\ <<b>> \in Seq(Char) /\ w \o <<b>> \in Seq(Char)
      BY <2>3, <3>1, <3>3
    <3>7. w \o << >> = w /\ (w \o <<b>>) \o << >> = w \o <<b>>
      BY <3>6, ConcatEmptySeq
    <3> QED
      BY <3>4, <3>5, <3>7, Zenon
  <2>9. \A i \in DOMAIN uart'.tsr : uart'.tsr[i].clear
    <3>1. DOMAIN <<x>> = {1} /\ <<x>>[1] = x
      OBVIOUS
    <3> QED
      BY <2>5, <2>6, <3>1
  <2> QED
    BY <1>1, <1>4, <2>8, <2>9 DEF OutputFits
<1> QED
  BY <1>3, <1>4 DEF PortType

\* What is shifted out goes onto the line.
LEMMA OutputShift == Typed /\ OutputFits /\ ShiftStep => OutputFits'
<1> SUFFICES ASSUME Typed, OutputFits, ShiftStep
             PROVE  OutputFits'
  OBVIOUS
<1> USE DEF Typed
<1>1. /\ uart \in UartType /\ Len(uart.tsr) <= 1 /\ CanShift(uart) /\ uart' = Shifted(uart)
      /\ said' = said /\ line' = line /\ cr' = cr /\ ready' = ready /\ wire \in Seq(SentBytes)
  BY DEF PortType, ShiftStep
<1>2. /\ uart.tsr # << >> /\ uart.tsr = <<uart.tsr[1]>>
      /\ uart'.thr = uart.thr /\ uart'.tsr = << >>
  BY <1>1, Shifting DEF CanShift
<1>3. CASE ~ ready
  BY <1>1, <1>3 DEF OutputFits
<1>4. CASE ready
  <2>1. ~ uart.loop
    <3>1. at.main \in P(14) .. HaltAt
      BY <1>4 DEF LockFits
    <3>2. at.main < PanicAt /\ at.main \notin P(10) .. P(12)
      BY <3>1, Lengths DEF P
    <3> QED
      BY <3>2 DEF PortFits
  <2>2. wire' = wire \o uart.tsr
    BY <1>4, <2>1 DEF ShiftStep
  <2>3. PICK x : x = uart.tsr[1]
    OBVIOUS
  <2>4. uart.tsr = <<x>>
    BY <1>2, <2>3, Zenon
  <2>5. x \in SentBytes
    <3>1. uart.tsr \in Seq(SentBytes) /\ 1 \in DOMAIN uart.tsr
      BY <1>1, <1>2, PortFields
    <3> QED
      BY <2>3, <3>1
  <2>6. x.clear
    <3>1. 1 \in DOMAIN uart.tsr
      BY <2>4
    <3> QED
      BY <1>4, <2>3, <3>1 DEF OutputFits
  <2>7. Output' = Output
    <3>1. /\ Bytes(<< >>) = << >> /\ Bytes(<<x>>) = <<x.byte>>
          /\ Bytes(wire \o <<x>>) = Bytes(wire) \o <<x.byte>>
      BY <1>1, <2>5, BytesOne
    <3>2. Output = (Bytes(wire) \o Bytes(uart.tsr)) \o uart.thr /\ Bytes(wire) \in Seq(Char)
      BY OutputIs
    <3>3. Output' = (Bytes(wire') \o Bytes(uart'.tsr)) \o uart'.thr
      BY DEF Output, Bytes
    <3>4. PICK v : v = Bytes(wire) \o <<x.byte>>
      OBVIOUS
    <3>5. v \in Seq(Char)
      BY <2>5, <3>2, <3>4 DEF SentBytes
    <3>6. Output = v \o uart.thr
      BY <2>4, <3>1, <3>2, <3>4, Zenon
    <3>7. Output' = (v \o << >>) \o uart.thr
      BY <1>2, <2>2, <2>4, <3>1, <3>3, <3>4, Zenon
    <3>8. v \o << >> = v
      BY <3>5, ConcatEmptySeq
    <3> QED
      BY <3>6, <3>7, <3>8, Zenon
  <2>8. \A i \in DOMAIN wire' : wire'[i].clear
    <3>1. <<x>> \in Seq(SentBytes) /\ Len(<<x>>) = 1 /\ <<x>>[1] = x
      BY <2>5
    <3>2. Chained(SentBytes, wire \o <<x>>, wire, <<x>>)
      BY <1>1, <3>1, ConcatAt
    <3>3. PICK r : r = wire \o <<x>>
      OBVIOUS
    <3>4. /\ DOMAIN r = 1 .. Len(wire) + 1 /\ Len(wire) \in Nat /\ DOMAIN wire = 1 .. Len(wire)
          /\ \A i \in 1 .. Len(wire) : r[i] = wire[i]
          /\ r[Len(wire) + 1] = x
      BY <1>1, <3>1, <3>2, <3>3, LenProperties DEF Chained
    <3>5. \A i \in DOMAIN wire : wire[i].clear
      BY <1>4 DEF OutputFits
    <3>6. \A i \in DOMAIN r : r[i].clear
      <4> SUFFICES ASSUME NEW i \in DOMAIN r
                   PROVE  r[i].clear
        OBVIOUS
      <4>1. i \in 1 .. Len(wire) \/ i = Len(wire) + 1
        BY <3>4
      <4> QED
        BY <2>6, <3>4, <3>5, <4>1
    <3>7. wire' = r
      BY <2>2, <2>4, <3>3, Zenon
    <3> QED
      BY <3>6, <3>7, Zenon
  <2>9. DOMAIN uart'.tsr = {}
    BY <1>2
  <2> QED
    BY <1>1, <1>4, <2>7, <2>8, <2>9 DEF OutputFits
<1> QED
  BY <1>3, <1>4 DEF PortType

LEMMA OutputNext == Typed /\ TestFits /\ OutputFits /\ [PortNext]_portVars => OutputFits'
<1> SUFFICES ASSUME Typed, TestFits, OutputFits, [PortNext]_portVars
             PROVE  OutputFits'
  OBVIOUS
<1>1. Typed'
  BY TypedNext
<1>2. CASE Idle \/ UNCHANGED portVars
  BY <1>2, OutputStays DEF Idle, portVars
<1>3. CASE LogEnd \/ Interrupt \/ Return \/ EnableInterrupts
  BY <1>3, OutputStays DEF LogEnd, Interrupt, Return, EnableInterrupts
<1>4. CASE SetLevel \/ Acquire
  BY <1>4, OutputStays DEF SetLevel, Acquire
<1>5. CASE OutStep \/ Test
  <2>1. running = "main" /\ at.main \in P(3) .. P(12)
    BY <1>5, Where, Lengths DEF Typed, OutStep, Test, P
  <2>2. ~ ready
    BY <2>1, Lengths DEF Typed, LockFits, P
  <2>3. ready' = ready
    BY <1>5 DEF OutStep, Test
  <2> QED
    BY <2>2, <2>3 DEF OutputFits
<1>6. CASE read_byte
  <2>1. uart'.thr = uart.thr /\ uart'.tsr = uart.tsr
    BY <1>6, Reading DEF read_byte, Typed, PortType
  <2> QED
    BY <1>6, <2>1, OutputStays DEF read_byte
<1>7. CASE Arrive
  <2>1. uart'.thr = uart.thr /\ uart'.tsr = uart.tsr
    BY <1>7, Arrives DEF Typed
  <2> QED
    BY <1>7, <2>1, OutputStays DEF Arrive
<1> QED
  BY <1>2, <1>3, <1>4, <1>5, <1>6, <1>7, OutputRelease, OutputLogLine, OutputWriteByte,
     OutputLoad, OutputShift DEF PortNext, Step, Device

\* Every line logged since initialisation at the requested level reaches the
\* line whole, in the order of the calls, with CR LF at its ends and in the
\* right format, whatever the lines are, whenever handlers log theirs and
\* however slowly the port transmits, as long as the far end does not send the
\* test byte while serial::init tests the port.
THEOREM LinesWhole == TestByteNotSent /\ PortSpec => []LinesIntact
<1>1. Typed /\ OutputFits => LinesIntact
  <2> SUFFICES ASSUME OutputFits, ready
               PROVE  LinesIntact
    BY DEF LinesIntact
  <2>1. (\A i \in DOMAIN wire : wire[i].clear) /\ Spoken(Output, said, line)
    BY DEF OutputFits
  <2>2. PICK o : o = Output
    OBVIOUS
  <2>3. \A i : TextUpTo(i) = Upto(o, i)
    BY <2>2 DEF TextUpTo, Upto
  <2> HIDE DEF OutputFits
  <2>4. Spoken(o, said, line)
    BY <2>1, <2>2
  <2> QED
    BY <2>1, <2>2, <2>3, <2>4, Zenon DEF LinesIntact, Spoken
<1>2. PortInit => OutputFits
  BY DEF PortInit, OutputFits
<1> QED
  BY TypedInit, TypedNext, TestInit, TestNext, OutputNext, <1>1, <1>2, PTL DEF PortSpec
=============================================================================
