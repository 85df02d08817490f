--------------------------- MODULE KeyboardProofs ---------------------------
(***************************************************************************)
(* Proofs about Keyboard, for every capacity of the buffer, every set of   *)
(* keys in use and any number of bytes on the wire.                        *)
(***************************************************************************)
EXTENDS Keyboard, SequenceTheorems, FiniteSetTheorems, TLAPS

----------------------------------------------------------------------------
(* The buffer.                                                             *)

Queue ==
  /\ \E S : KEYBOARD_BUF \in Seq(S)
  /\ Len(KEYBOARD_BUF) <= CAP

\* What one step may do to the buffer.
QueueStep ==
  /\ Len(KEYBOARD_BUF') <= CAP
  /\ IF pc = "locked" /\ pc' # "locked"
     THEN /\ KEYBOARD_BUF' = (IF KEYBOARD_BUF = << >> THEN << >> ELSE Tail(KEYBOARD_BUF))
          /\ call = "get_char" /\ pc' = "idle" /\ result' = NoChar
               => KEYBOARD_BUF' = << >>
     ELSE IsPrefix(KEYBOARD_BUF, KEYBOARD_BUF')

\* An event appended to the buffer overtakes none and is lost when it is full.
LEMMA PushedFacts ==
  ASSUME Queue, NEW e
  PROVE  /\ \E S : Pushed(e) \in Seq(S)
         /\ Len(Pushed(e)) <= CAP
         /\ IsPrefix(KEYBOARD_BUF, Pushed(e))
<1>1. PICK S : KEYBOARD_BUF \in Seq(S)
  BY DEF Queue
<1>2. KEYBOARD_BUF \in Seq(S \cup {e}) /\ Len(KEYBOARD_BUF) \in Nat
  BY <1>1
<1>3. CAP \in Nat
  BY KeyboardAssumption
<1>4. CASE HasRoom
  <2> DEFINE t == Append(KEYBOARD_BUF, e)
             n == Len(KEYBOARD_BUF)
  <2>1. Pushed(e) = t
    BY <1>4 DEF Pushed
  <2>2. /\ t \in Seq(S \cup {e}) /\ Len(t) = n + 1
        /\ \A i \in 1 .. n : t[i] = KEYBOARD_BUF[i]
    BY <1>2
  <2>3. Len(t) <= CAP
    BY <1>2, <1>3, <1>4, <2>2 DEF HasRoom
  <2>4. SubSeq(KEYBOARD_BUF, 1, n) = [i \in 1 .. n |-> KEYBOARD_BUF[i]]
    BY <1>2
  <2>5. SubSeq(t, 1, n) = [i \in 1 .. n |-> t[i]]
    BY <1>2, <2>2
  <2>6. IsPrefix(KEYBOARD_BUF, t)
    BY <1>2, <2>2, <2>4, <2>5 DEF IsPrefix
  <2> QED
    BY <2>1, <2>2, <2>3, <2>6
<1>5. CASE ~ HasRoom
  BY <1>1, <1>2, <1>5 DEF Pushed, Queue, IsPrefix
<1> QED
  BY <1>4, <1>5

\* Every step treats the buffer as a queue.
LEMMA QueueKept ==
  ASSUME Queue, [Next]_vars
  PROVE  Queue' /\ [QueueStep]_vars
<1>1. PICK S : KEYBOARD_BUF \in Seq(S)
  BY DEF Queue
<1>2. Len(KEYBOARD_BUF) \in Nat /\ CAP \in Nat /\ Len(KEYBOARD_BUF) <= CAP
  BY <1>1, KeyboardAssumption DEF Queue
<1>3. IsPrefix(KEYBOARD_BUF, KEYBOARD_BUF)
  BY <1>2 DEF IsPrefix
<1>4. ASSUME KEYBOARD_BUF' = KEYBOARD_BUF, pc = "locked" => pc' = "locked"
      PROVE  Queue' /\ QueueStep
  BY <1>1, <1>2, <1>3, <1>4 DEF Queue, QueueStep
<1>5. CASE HandleByte
  <2>1. pc' = pc
    BY <1>5 DEF HandleByte, reader
  <2>2. CASE KEYBOARD_BUF' = KEYBOARD_BUF
    BY <1>4, <2>1, <2>2
  <2>3. CASE KEYBOARD_BUF' # KEYBOARD_BUF
    <3>1. PICK e : KEYBOARD_BUF' = Pushed(e)
      BY <1>5, <2>3 DEF HandleByte
    <3>2. Queue' /\ IsPrefix(KEYBOARD_BUF, KEYBOARD_BUF')
      BY <3>1, PushedFacts DEF Queue
    <3> QED
      BY <2>1, <3>2 DEF Queue, QueueStep
  <2> QED
    BY <2>2, <2>3
<1>6. CASE Pop
  <2>1. CASE KEYBOARD_BUF = << >>
    <3>1. KEYBOARD_BUF' = << >> /\ pc = "locked" /\ pc' = "idle"
      BY <1>6, <2>1 DEF Pop
    <3> QED
      BY <1>1, <1>2, <2>1, <3>1 DEF Queue, QueueStep
  <2>2. CASE KEYBOARD_BUF # << >>
    <3>1. KEYBOARD_BUF' = Tail(KEYBOARD_BUF) /\ pc = "locked" /\ Answer(Head(KEYBOARD_BUF).event)
      BY <1>6, <2>2 DEF Pop
    <3>2. KEYBOARD_BUF' \in Seq(S) /\ Len(KEYBOARD_BUF') <= CAP
      BY <1>1, <1>2, <2>2, <3>1
    <3>3. pc' # "locked" /\ ~ (call = "get_char" /\ pc' = "idle" /\ result' = NoChar)
      BY <3>1 DEF Answer
    <3> QED
      BY <2>2, <3>1, <3>2, <3>3 DEF Queue, QueueStep
  <2> QED
    BY <2>1, <2>2
<1>7. ASSUME NEW k, Press(k) \/ Repeat(k) \/ Release(k) \/ Call(k)
      PROVE  Queue' /\ QueueStep
  BY <1>4, <1>7 DEF Press, Repeat, Release, Call, driver, reader
<1>8. ASSUME HandlePrefix \/ Lock \/ Spin
      PROVE  Queue' /\ QueueStep
  BY <1>4, <1>8 DEF HandlePrefix, Lock, Spin, driver, reader, vars
<1>9. CASE UNCHANGED vars
  BY <1>4, <1>9 DEF vars, driver, reader
<1> QED
  BY <1>5, <1>6, <1>7, <1>8, <1>9 DEF Next, handle_interrupt

\* The buffer is a bounded queue, whoever types and reads, in whatever order
\* interrupts and calls come.
THEOREM QueueCorrect == Spec => BufferIsQueue
<1>1. Init => Queue
  <2> SUFFICES ASSUME Init PROVE Queue
    OBVIOUS
  <2>1. KEYBOARD_BUF = << >> /\ << >> \in Seq({}) /\ Len(<< >>) = 0
    BY DEF Init
  <2> QED
    BY <2>1, KeyboardAssumption DEF Queue
<1>2. Queue /\ [Next]_vars => Queue' /\ [QueueStep]_vars
  BY QueueKept
<1>3. Spec => [][QueueStep]_vars
  BY <1>1, <1>2, PTL DEF Spec
<1> QED
  BY <1>3 DEF BufferIsQueue, QueueStep

----------------------------------------------------------------------------
(* The tables.                                                             *)

\* How the driver reads a byte without its release bit.
KeyOf(extended, code) ==
  IF extended THEN extended_scancode_to_keycode(code) ELSE scancode_to_keycode(code)

\* Two rows of the table of prefixed codes differ in their codes.
LEMMA ExtendedRows ==
  \A r, q \in Extended : r[1] = q[1] => r = q
BY DEF Extended

\* A key with a prefix has a code that is read as that key.
LEMMA PrefixedKeys ==
  ASSUME NEW key, HasPrefix(key)
  PROVE  /\ CodeOf(key) \in 1 .. 95
         /\ KeyOf(TRUE, CodeOf(key)) = key
<1> DEFINE row == CHOOSE r \in Extended : r[2] = key
           code == row[1]
<1>1. row \in Extended /\ row[2] = key
  BY DEF HasPrefix
<1>2. CodeOf(key) = code
  BY DEF CodeOf
<1> HIDE DEF row
<1>3. code \in 1 .. 95
  BY <1>1 DEF Extended
<1>4. (CHOOSE r \in Extended : r[1] = code) = row
  BY <1>1, ExtendedRows
<1>5. extended_scancode_to_keycode(code) = row[2]
  BY <1>1, <1>4 DEF extended_scancode_to_keycode
<1> QED
  BY <1>1, <1>2, <1>3, <1>5 DEF KeyOf

\* So has a key without; the sets are the rows of the table of plain codes.
LEMMA PlainKeys ==
  ASSUME NEW key \in KeyCode \ {"Unknown"}, ~ HasPrefix(key)
  PROVE  /\ CodeOf(key) \in 1 .. 95
         /\ KeyOf(FALSE, CodeOf(key)) = key
<1>1. DOMAIN Plain = 1 .. 83
  BY DEF Plain
<1> DEFINE IsPlain == \E i \in DOMAIN Plain : Plain[i] = key
           R1 == {"Escape", "Key1", "Key2", "Key3", "Key4", "Key5", "Key6",
                  "Key7", "Key8", "Key9", "Key0", "Minus", "Equals",
                  "Backspace", "Tab"}
           R2 == {"Q", "W", "E", "R", "T", "Y", "U", "I", "O", "P",
                  "LeftBracket", "RightBracket", "Enter", "LeftCtrl"}
           R3 == {"A", "S", "D", "F", "G", "H", "J", "K", "L", "Semicolon",
                  "Quote", "Grave", "LeftShift", "Backslash"}
           R4 == {"Z", "X", "C", "V", "B", "N", "M", "Comma", "Period",
                  "Slash", "RightShift", "KeypadMultiply", "LeftAlt", "Space",
                  "CapsLock"}
           R5 == {"F1", "F2", "F3", "F4", "F5", "F6", "F7", "F8", "F9", "F10",
                  "NumLock", "ScrollLock"}
           R6 == {"Keypad7", "Keypad8", "Keypad9", "KeypadMinus", "Keypad4",
                  "Keypad5", "Keypad6", "KeypadPlus", "Keypad1", "Keypad2",
                  "Keypad3", "Keypad0", "KeypadPeriod"}
<1>2. key \in R1 => IsPlain
  BY <1>1 DEF Plain
<1>3. key \in R2 => IsPlain
  BY <1>1 DEF Plain
<1>4. key \in R3 => IsPlain
  BY <1>1 DEF Plain
<1>5. key \in R4 => IsPlain
  BY <1>1 DEF Plain
<1>6. key \in R5 => IsPlain
  BY <1>1 DEF Plain
<1>7. key \in R6 => IsPlain
  BY <1>1 DEF Plain
<1>8. key \in ToSet(Letters) => key \in R2 \cup R3 \cup R4
  BY DEF Letters, ToSet
<1>9. key \notin {"Home", "Up", "PageUp", "Left", "Right", "End", "Down", "PageDown", "Insert",
                   "Delete", "KeypadEnter", "RightCtrl", "KeypadDivide", "RightAlt"}
  BY DEF HasPrefix, Extended
<1>10. key \in R1 \cup R2 \cup R3 \cup R4 \cup R5 \cup R6 \cup {"F11", "F12"}
  BY <1>8, <1>9 DEF KeyCode
<1> HIDE DEF R1, R2, R3, R4, R5, R6
<1>11. IsPlain \/ key \in {"F11", "F12"}
  BY <1>2, <1>3, <1>4, <1>5, <1>6, <1>7, <1>10
<1>12. CASE key \in {"F11", "F12"}
  <2>1. CASE key = "F11"
    BY <1>1, <2>1 DEF CodeOf, KeyOf, scancode_to_keycode
  <2>2. CASE key = "F12"
    BY <1>1, <2>2 DEF CodeOf, KeyOf, scancode_to_keycode
  <2> QED
    BY <1>12, <2>1, <2>2
<1>13. CASE IsPlain /\ key \notin {"F11", "F12"}
  <2>1. CodeOf(key) \in DOMAIN Plain /\ Plain[CodeOf(key)] = key
    BY <1>13 DEF CodeOf
  <2> QED
    BY <1>1, <2>1 DEF KeyOf, scancode_to_keycode
<1> QED
  BY <1>11, <1>12, <1>13

\* No key stands twice in the table of plain codes.
LEMMA PlainRows ==
  ASSUME NEW i \in 1 .. 83, NEW j \in 1 .. 83, Plain[i] = Plain[j]
  PROVE  i = j
BY DEF Plain

\* Nor does a key stand in both tables.
LEMMA TablesApart ==
  /\ \A i \in 1 .. 83 : ~ HasPrefix(Plain[i]) /\ Plain[i] \notin {"F11", "F12", "Unknown"}
  /\ ~ HasPrefix("F11") /\ ~ HasPrefix("F12") /\ ~ HasPrefix("Unknown")
  /\ \A r, q \in Extended : r[2] = q[2] => r = q
<1>1. \A i \in 1 .. 83 : ~ HasPrefix(Plain[i])
  BY DEF Plain, HasPrefix, Extended
<1>2. \A i \in 1 .. 83 : Plain[i] \notin {"F11", "F12", "Unknown"}
  BY DEF Plain
<1>3. ~ HasPrefix("F11") /\ ~ HasPrefix("F12") /\ ~ HasPrefix("Unknown")
  BY DEF HasPrefix, Extended
<1>4. \A r, q \in Extended : r[2] = q[2] => r = q
  BY DEF Extended
<1> QED
  BY <1>1, <1>2, <1>3, <1>4

\* The one code of a key.
LEMMA OneCode ==
  ASSUME NEW key \in KeyCode \ {"Unknown"}
  PROVE  CodesOf[key] = {<<HasPrefix(key), CodeOf(key)>>}
<1> DEFINE C == {x \in BOOLEAN \X (0 .. 127) : KeyOf(x[1], x[2]) = key}
<1>1. CodesOf[key] = C
  BY DEF CodesOf, KeyOf
<1>2. HasPrefix(key) \in BOOLEAN
  BY DEF HasPrefix
<1>3. CodeOf(key) \in 0 .. 127 /\ KeyOf(HasPrefix(key), CodeOf(key)) = key
  <2>1. CASE HasPrefix(key)
    <3>1. HasPrefix(key) = TRUE
      BY <1>2, <2>1
    <3>2. CodeOf(key) \in 1 .. 95 /\ KeyOf(TRUE, CodeOf(key)) = key
      BY <2>1, PrefixedKeys
    <3>3. CodeOf(key) \in 0 .. 127
      BY <3>2
    <3>4. KeyOf(HasPrefix(key), CodeOf(key)) = key
      BY <3>1, <3>2, Zenon
    <3> QED
      BY <3>3, <3>4
  <2>2. CASE ~ HasPrefix(key)
    <3>1. HasPrefix(key) = FALSE
      BY <1>2, <2>2
    <3>2. CodeOf(key) \in 1 .. 95 /\ KeyOf(FALSE, CodeOf(key)) = key
      BY <2>2, PlainKeys
    <3>3. CodeOf(key) \in 0 .. 127
      BY <3>2
    <3>4. KeyOf(HasPrefix(key), CodeOf(key)) = key
      BY <3>1, <3>2, Zenon
    <3> QED
      BY <3>3, <3>4
  <2> QED
    BY <2>1, <2>2
<1>4. ASSUME NEW p \in BOOLEAN, NEW c \in 0 .. 127, KeyOf(p, c) = key
      PROVE  (p <=> HasPrefix(key)) /\ c = CodeOf(key)
  <2>1. CASE p
    <3>1. extended_scancode_to_keycode(c) = key /\ key # "Unknown"
      BY <1>4, <2>1 DEF KeyOf
    <3>2. PICK row \in Extended : row[1] = c /\ row[2] = key
      BY <3>1 DEF extended_scancode_to_keycode
    <3>3. HasPrefix(key) /\ (CHOOSE r \in Extended : r[2] = key) = row
      BY <3>2, TablesApart DEF HasPrefix
    <3>4. CodeOf(key) = row[1]
      BY <3>3 DEF CodeOf
    <3> QED
      BY <2>1, <3>2, <3>3, <3>4
  <2>2. CASE ~ p
    <3>1. scancode_to_keycode(c) = key /\ key # "Unknown" /\ DOMAIN Plain = 1 .. 83
      BY <1>4, <2>2 DEF KeyOf, Plain
    <3>2. CASE c \in 1 .. 83
      <4>1. Plain[c] = key /\ ~ HasPrefix(key) /\ key \notin {"F11", "F12"}
        BY <3>1, <3>2, TablesApart DEF scancode_to_keycode
      <4>2. CodeOf(key) \in 1 .. 83 /\ Plain[CodeOf(key)] = key
        BY <3>1, <3>2, <4>1 DEF CodeOf
      <4> QED
        BY <2>2, <3>2, <4>1, <4>2, PlainRows, Zenon
    <3>3. CASE c \notin 1 .. 83
      <4>1. (c = 87 /\ key = "F11") \/ (c = 88 /\ key = "F12")
        BY <3>1, <3>3 DEF scancode_to_keycode
      <4> QED
        BY <2>2, <4>1, TablesApart DEF CodeOf
    <3> QED
      BY <3>2, <3>3
  <2> QED
    BY <2>1, <2>2
<1>5. ASSUME NEW x \in C
      PROVE  x = <<HasPrefix(key), CodeOf(key)>>
  <2>1. x[1] \in BOOLEAN /\ x[2] \in 0 .. 127 /\ x = <<x[1], x[2]>> /\ KeyOf(x[1], x[2]) = key
    OBVIOUS
  <2>2. (x[1] <=> HasPrefix(key)) /\ x[2] = CodeOf(key)
    BY <1>4, <2>1
  <2>3. x[1] = HasPrefix(key)
    BY <1>2, <2>1, <2>2
  <2> QED
    BY <2>1, <2>2, <2>3
<1>6. <<HasPrefix(key), CodeOf(key)>> \in C
  BY <1>2, <1>3
<1> QED
  BY <1>1, <1>5, <1>6

\* Every key that is used has one scan code, and no two keys share one.
THEOREM CodesCorrect == Spec => []EveryKeyHasOneCode
<1> DEFINE Used == use \in Uses
<1>1. Init => Used
  BY DEF Init
<1>2. Used /\ [Next]_vars => Used'
  BY DEF Next, Press, Repeat, Release, handle_interrupt, HandlePrefix, HandleByte, Call,
         Lock, Pop, Spin, vars
<1>3. Used => EveryKeyHasOneCode
  <2> SUFFICES ASSUME use \in Uses, NEW key \in use.keys \cap KeyCode
               PROVE  Cardinality(CodesOf[key]) = 1
    BY DEF EveryKeyHasOneCode
  <2>1. "Unknown" \notin use.keys
    BY KeyboardAssumption
  <2>2. CodesOf[key] = {<<HasPrefix(key), CodeOf(key)>>}
    BY <2>1, OneCode
  <2> QED
    BY <2>2, FS_Singleton
<1> QED
  BY <1>1, <1>2, <1>3, PTL DEF Spec

----------------------------------------------------------------------------
(* The modifiers.                                                          *)

Flags == {"shift", "ctrl", "alt"}

Pair(flag) == IF flag = "shift" THEN Shift ELSE IF flag = "ctrl" THEN Ctrl ELSE Alt

ModifierKeys == Shift \cup Ctrl \cup Alt

\* A flag agrees with the keys that are down: it is up only while a key of its
\* pair is, and at least then if only one key of the pair is among the keys.
Agrees(v, down, pair, keys) ==
  /\ v => down \cap pair # {}
  /\ ~ pair \subseteq keys /\ down \cap pair # {} => v

\* What a byte makes of a flag.
UpAfter(v, extended, byte, pair) ==
  IF byte # E0 /\ KeyOf(extended, byte % 128) \in pair THEN byte < 128 ELSE v

WireByte == [byte : 0 .. 255, held : SUBSET ModifierKeys]

\* Whether byte i of the bytes w comes after a prefix, x saying so of the first.
PrefixBefore(w, x, i) == IF i = 1 THEN x ELSE w[i - 1].byte = E0

\* A flag v is up after exactly the bytes up of w, where 0 is before the first.
Replay(w, x, v, up, pair) ==
  /\ 0 \in up <=> v
  /\ \A i \in 1 .. Len(w) :
       i \in up <=> UpAfter(i - 1 \in up, PrefixBefore(w, x, i), w[i].byte, pair)

\* When the bytes w are handled the flag v agrees in the end with the keys
\* down then and, where that is asked for, after every event with the keys
\* down when the event was sent.
Settles(w, x, v, down, pair, keys, exact) ==
  \E up \in SUBSET Nat :
    /\ Replay(w, x, v, up, pair)
    /\ \A i \in 1 .. Len(w) :
         w[i].byte # E0 /\ exact => Agrees(i \in up, w[i].held, pair, keys)
    /\ Agrees(Len(w) \in up, down, pair, keys)

\* Handling the first byte.
LEMMA SettlesTail ==
  ASSUME NEW w \in Seq(WireByte), w # << >>, NEW x, NEW v, NEW down, NEW pair, NEW keys,
         NEW exact, Settles(w, x, v, down, pair, keys, exact)
  PROVE  LET u == UpAfter(v, x, w[1].byte, pair)
         IN  /\ Settles(Tail(w), w[1].byte = E0, u, down, pair, keys, exact)
             /\ w[1].byte # E0 /\ exact => Agrees(u, w[1].held, pair, keys)
<1>1. PICK up \in SUBSET Nat :
        /\ Replay(w, x, v, up, pair)
        /\ \A i \in 1 .. Len(w) :
             w[i].byte # E0 /\ exact => Agrees(i \in up, w[i].held, pair, keys)
        /\ Agrees(Len(w) \in up, down, pair, keys)
  BY DEF Settles
<1> DEFINE t == Tail(w)
           down1 == {i \in Nat : i + 1 \in up}
           n == Len(w)
<1>2. n \in Nat /\ n >= 1 /\ Len(t) = n - 1 /\ \A i \in 1 .. n - 1 : t[i] = w[i + 1]
  BY LenProperties, HeadTailProperties
<1>3. 1 \in up <=> UpAfter(v, x, w[1].byte, pair)
  BY <1>1, <1>2 DEF Replay, PrefixBefore, UpAfter
<1>4. w[1].byte # E0 /\ exact => Agrees(1 \in up, w[1].held, pair, keys)
  BY <1>1, <1>2
<1>5. w[1].byte # E0 /\ exact => Agrees(UpAfter(v, x, w[1].byte, pair), w[1].held, pair, keys)
  BY <1>3, <1>4 DEF Agrees
<1>6. 0 \in down1 <=> UpAfter(v, x, w[1].byte, pair)
  BY <1>3
<1> HIDE DEF t, n
<1>7. ASSUME NEW i \in 1 .. n - 1
      PROVE  i \in down1 <=> UpAfter(i - 1 \in down1, PrefixBefore(t, w[1].byte = E0, i), t[i].byte, pair)
  <2>1. i + 1 \in 1 .. n /\ i + 1 # 1 /\ i \in Nat /\ (i + 1) - 1 = i
    BY <1>2
  <2>2. i + 1 \in up <=> UpAfter(i \in up, PrefixBefore(w, x, i + 1), w[i + 1].byte, pair)
    BY <1>1, <2>1 DEF Replay, n
  <2>3. PrefixBefore(w, x, i + 1) <=> w[i].byte = E0
    BY <2>1 DEF PrefixBefore
  <2>4. PrefixBefore(t, w[1].byte = E0, i) <=> w[i].byte = E0
    <3>1. CASE i = 1
      BY <3>1 DEF PrefixBefore
    <3>2. CASE i # 1
      <4>1. i - 1 \in 1 .. n - 1 /\ (i - 1) + 1 = i
        BY <1>2, <3>2
      <4> QED
        BY <1>2, <3>2, <4>1 DEF PrefixBefore
    <3> QED
      BY <3>1, <3>2
  <2>5. i - 1 \in down1 <=> i \in up
    BY <2>1
  <2>6. t[i] = w[i + 1]
    BY <1>2
  <2> QED
    BY <2>1, <2>2, <2>3, <2>4, <2>5, <2>6 DEF UpAfter, KeyOf
<1>8. Replay(t, w[1].byte = E0, UpAfter(v, x, w[1].byte, pair), down1, pair)
  BY <1>2, <1>6, <1>7 DEF Replay
<1>9. ASSUME NEW i \in 1 .. n - 1, t[i].byte # E0, exact
      PROVE  Agrees(i \in down1, t[i].held, pair, keys)
  <2>1. i + 1 \in 1 .. n /\ i \in Nat /\ t[i] = w[i + 1]
    BY <1>2
  <2>2. Agrees(i + 1 \in up, w[i + 1].held, pair, keys)
    BY <1>1, <1>9, <2>1 DEF n
  <2> QED
    BY <2>1, <2>2 DEF Agrees
<1>10. Agrees(n - 1 \in down1, down, pair, keys)
  <2>1. n - 1 \in Nat /\ (n - 1) + 1 = n
    BY <1>2
  <2> QED
    BY <1>1, <2>1 DEF Agrees, n
<1>11. down1 \in SUBSET Nat
  OBVIOUS
<1> HIDE DEF down1
<1>12. Settles(t, w[1].byte = E0, UpAfter(v, x, w[1].byte, pair), down, pair, keys, exact)
  BY <1>2, <1>8, <1>9, <1>10, <1>11 DEF Settles
<1> QED
  BY <1>5, <1>12 DEF t

\* Sending more bytes.
LEMMA SettlesConcat ==
  ASSUME NEW w \in Seq(WireByte), NEW s \in Seq(WireByte), NEW x, NEW v, NEW old, NEW down,
         NEW pair, NEW keys, NEW exact,
         Settles(w, x, v, old, pair, keys, exact), ~ PrefixBefore(w, x, Len(w) + 1),
         \A u \in BOOLEAN : Agrees(u, old, pair, keys)
                              => Settles(s, FALSE, u, down, pair, keys, exact)
  PROVE  Settles(w \o s, x, v, down, pair, keys, exact)
<1>1. PICK up \in SUBSET Nat :
        /\ Replay(w, x, v, up, pair)
        /\ \A i \in 1 .. Len(w) :
             w[i].byte # E0 /\ exact => Agrees(i \in up, w[i].held, pair, keys)
        /\ Agrees(Len(w) \in up, old, pair, keys)
  BY DEF Settles
<1> DEFINE n == Len(w)
           m == Len(s)
           z == w \o s
<1>2. n \in Nat /\ m \in Nat /\ Len(z) = n + m
      /\ (\A i \in 1 .. n : z[i] = w[i]) /\ (\A i \in 1 .. m : z[n + i] = s[i])
  BY LenProperties, ConcatProperties
<1>3. (n \in up) \in BOOLEAN
  OBVIOUS
<1>4. Settles(s, FALSE, n \in up, down, pair, keys, exact)
  BY <1>1, <1>3
<1>5. PICK vp \in SUBSET Nat :
        /\ Replay(s, FALSE, n \in up, vp, pair)
        /\ \A i \in 1 .. Len(s) :
             s[i].byte # E0 /\ exact => Agrees(i \in vp, s[i].held, pair, keys)
        /\ Agrees(Len(s) \in vp, down, pair, keys)
  BY <1>4 DEF Settles
<1> DEFINE both == {i \in Nat : IF i <= n THEN i \in up ELSE i - n \in vp}
<1>6. \A i \in 0 .. n : i \in both <=> i \in up
  BY <1>2
<1>7. \A i \in 0 .. m : n + i \in both <=> i \in vp
  <2> SUFFICES ASSUME NEW i \in 0 .. m PROVE n + i \in both <=> i \in vp
    OBVIOUS
  <2>1. CASE i = 0
    <3>1. 0 \in vp <=> n \in up
      BY <1>5 DEF Replay
    <3> QED
      BY <1>2, <2>1, <3>1
  <2>2. CASE i # 0
    <3>1. n + i \in Nat /\ ~ (n + i <= n) /\ (n + i) - n = i
      BY <1>2, <2>2
    <3> QED
      BY <3>1
  <2> QED
    BY <2>1, <2>2
<1>8. both \in SUBSET Nat
  OBVIOUS
<1> HIDE DEF both, n, m, z
<1>9. 0 \in both <=> v
  BY <1>1, <1>2, <1>6 DEF Replay
<1>10. ASSUME NEW i \in 1 .. n
       PROVE  /\ i \in both <=> UpAfter(i - 1 \in both, PrefixBefore(z, x, i), z[i].byte, pair)
              /\ z[i].byte # E0 /\ exact => Agrees(i \in both, z[i].held, pair, keys)
  <2>1. i \in 0 .. n /\ i - 1 \in 0 .. n /\ z[i] = w[i] /\ (i # 1 => z[i - 1] = w[i - 1])
    BY <1>2
  <2>2. i \in up <=> UpAfter(i - 1 \in up, PrefixBefore(w, x, i), w[i].byte, pair)
    BY <1>1 DEF Replay, n
  <2>3. PrefixBefore(z, x, i) = PrefixBefore(w, x, i)
    BY <2>1 DEF PrefixBefore
  <2>4. (i \in both <=> i \in up) /\ (i - 1 \in both <=> i - 1 \in up)
    BY <1>6, <2>1
  <2>5. w[i].byte # E0 /\ exact => Agrees(i \in up, w[i].held, pair, keys)
    BY <1>1 DEF n
  <2> QED
    BY <2>1, <2>2, <2>3, <2>4, <2>5 DEF UpAfter, Agrees
<1>11. ASSUME NEW j \in 1 .. m
       PROVE  /\ n + j \in both <=>
                   UpAfter((n + j) - 1 \in both, PrefixBefore(z, x, n + j), z[n + j].byte, pair)
              /\ z[n + j].byte # E0 /\ exact => Agrees(n + j \in both, z[n + j].held, pair, keys)
  <2>1. j \in 0 .. m /\ j - 1 \in 0 .. m /\ z[n + j] = s[j] /\ (n + j) - 1 = n + (j - 1)
    BY <1>2
  <2>2. j \in vp <=> UpAfter(j - 1 \in vp, PrefixBefore(s, FALSE, j), s[j].byte, pair)
    BY <1>5 DEF Replay, m
  <2>3. PrefixBefore(z, x, n + j) <=> PrefixBefore(s, FALSE, j)
    <3>1. CASE j = 1
      <4>1. ~ PrefixBefore(s, FALSE, j)
        BY <3>1 DEF PrefixBefore
      <4>2. PrefixBefore(z, x, n + 1) <=> PrefixBefore(w, x, n + 1)
        <5>1. CASE n = 0
          BY <5>1 DEF PrefixBefore
        <5>2. CASE n # 0
          <6>1. n + 1 # 1 /\ (n + 1) - 1 = n /\ z[n] = w[n]
            BY <1>2, <5>2
          <6> QED
            BY <6>1 DEF PrefixBefore
        <5> QED
          BY <5>1, <5>2
      <4> QED
        BY <3>1, <4>1, <4>2 DEF n
    <3>2. CASE j # 1
      <4>1. j - 1 \in 1 .. m /\ n + j # 1
        BY <1>2, <3>2
      <4>2. z[(n + j) - 1] = s[j - 1]
        BY <1>2, <2>1, <4>1
      <4> QED
        BY <3>2, <4>1, <4>2 DEF PrefixBefore
    <3> QED
      BY <3>1, <3>2
  <2>4. (n + j \in both <=> j \in vp) /\ ((n + j) - 1 \in both <=> j - 1 \in vp)
    BY <1>7, <2>1
  <2>5. s[j].byte # E0 /\ exact => Agrees(j \in vp, s[j].held, pair, keys)
    BY <1>5 DEF m
  <2> QED
    BY <2>1, <2>2, <2>3, <2>4, <2>5 DEF UpAfter, Agrees, KeyOf
<1>12. ASSUME NEW i \in 1 .. Len(z)
       PROVE  i \in 1 .. n \/ \E j \in 1 .. m : i = n + j
  <2>1. i \in 1 .. n \/ (i - n \in 1 .. m /\ i = n + (i - n))
    BY <1>2
  <2> QED
    BY <2>1
<1>13. Replay(z, x, v, both, pair)
  BY <1>9, <1>10, <1>11, <1>12 DEF Replay
<1>14. \A i \in 1 .. Len(z) : z[i].byte # E0 /\ exact => Agrees(i \in both, z[i].held, pair, keys)
  BY <1>10, <1>11, <1>12
<1>15. Agrees(Len(z) \in both, down, pair, keys)
  <2>1. Agrees(m \in vp, down, pair, keys) /\ m \in 0 .. m
    BY <1>2, <1>5 DEF m
  <2>2. Len(z) \in both <=> m \in vp
    BY <1>2, <1>7, <2>1
  <2> QED
    BY <2>1, <2>2 DEF Agrees
<1>16. Settles(z, x, v, down, pair, keys, exact)
  BY <1>8, <1>13, <1>14, <1>15 DEF Settles
<1> QED
  BY <1>16 DEF z

\* Bytes that are read as keys of other pairs leave a flag alone.
LEMMA SettlesInert ==
  ASSUME NEW s \in Seq(WireByte), NEW u \in BOOLEAN, NEW down, NEW pair, NEW keys, NEW exact,
         \A i \in 1 .. Len(s) :
           /\ s[i].byte = E0 \/ KeyOf(PrefixBefore(s, FALSE, i), s[i].byte % 128) \notin pair
           /\ s[i].held \cap pair = down \cap pair,
         Agrees(u, down, pair, keys)
  PROVE  Settles(s, FALSE, u, down, pair, keys, exact)
<1> DEFINE up == IF u THEN Nat ELSE {}
<1>1. Len(s) \in Nat /\ \A i \in 0 .. Len(s) : i \in up <=> u
  OBVIOUS
<1>2. up \in SUBSET Nat
  OBVIOUS
<1> HIDE DEF up
<1>3. ASSUME NEW i \in 1 .. Len(s)
      PROVE  /\ i \in up <=> UpAfter(i - 1 \in up, PrefixBefore(s, FALSE, i), s[i].byte, pair)
             /\ Agrees(i \in up, s[i].held, pair, keys)
  <2>1. i \in 0 .. Len(s) /\ i - 1 \in 0 .. Len(s)
    BY <1>1
  <2>2. (i \in up <=> u) /\ (i - 1 \in up <=> u)
    BY <1>1, <2>1
  <2>3. s[i].held \cap pair = down \cap pair
    OBVIOUS
  <2> QED
    BY <2>2, <2>3 DEF UpAfter, Agrees
<1>4. 0 \in up <=> u
  BY <1>1
<1>5. Replay(s, FALSE, u, up, pair)
  BY <1>3, <1>4 DEF Replay
<1>6. Agrees(Len(s) \in up, down, pair, keys)
  BY <1>1 DEF Agrees
<1> QED
  BY <1>2, <1>3, <1>5, <1>6 DEF Settles

\* The byte of a key of the pair, with or without a prefix, sets the flag.
LEMMA SettlesSet ==
  ASSUME NEW s \in Seq(WireByte), NEW u \in BOOLEAN, NEW down, NEW pair, NEW keys, NEW exact,
         NEW n \in {1, 2}, Len(s) = n, n = 2 => s[1].byte = E0,
         s[n].byte # E0,
         IF n = 2 THEN KeyOf(TRUE, s[n].byte % 128) \in pair ELSE KeyOf(FALSE, s[n].byte % 128) \in pair,
         s[n].held \cap pair = down \cap pair,
         Agrees(s[n].byte < 128, down, pair, keys)
  PROVE  Settles(s, FALSE, u, down, pair, keys, exact)
<1> DEFINE up == {i \in 0 .. n : IF i < n THEN u ELSE s[n].byte < 128}
<1>1. up \in SUBSET Nat /\ (n \in up <=> s[n].byte < 128) /\ (0 \in up <=> u)
  OBVIOUS
<1>2. n = 2 => (1 \in up <=> u)
  OBVIOUS
<1> HIDE DEF up
<1>3. PrefixBefore(s, FALSE, n) <=> n = 2
  BY DEF PrefixBefore
<1>4. n \in up <=> UpAfter(n - 1 \in up, PrefixBefore(s, FALSE, n), s[n].byte, pair)
  <2>1. KeyOf(PrefixBefore(s, FALSE, n), s[n].byte % 128) \in pair
    BY <1>3 DEF KeyOf
  <2> QED
    BY <1>1, <2>1 DEF UpAfter
<1>5. n = 2 => (1 \in up <=> UpAfter(0 \in up, PrefixBefore(s, FALSE, 1), s[1].byte, pair))
  BY <1>1, <1>2 DEF UpAfter
<1>6. \A i \in 1 .. n : i = n \/ (i = 1 /\ n = 2)
  OBVIOUS
<1>7. Replay(s, FALSE, u, up, pair)
  <2>1. ASSUME NEW i \in 1 .. n
        PROVE  i \in up <=> UpAfter(i - 1 \in up, PrefixBefore(s, FALSE, i), s[i].byte, pair)
    <3>1. CASE i = n
      BY <1>4, <3>1
    <3>2. CASE i = 1 /\ n = 2
      <4>1. i - 1 = 0
        BY <3>2
      <4> QED
        BY <1>5, <3>2, <4>1
    <3> QED
      BY <1>6, <3>1, <3>2
  <2> QED
    BY <1>1, <2>1 DEF Replay
<1>8. Agrees(n \in up, down, pair, keys) /\ Agrees(n \in up, s[n].held, pair, keys)
  BY <1>1 DEF Agrees
<1>9. \A i \in 1 .. Len(s) : s[i].byte # E0 /\ exact => Agrees(i \in up, s[i].held, pair, keys)
  BY <1>6, <1>8
<1> QED
  BY <1>1, <1>7, <1>8, <1>9 DEF Settles

\* The two cases by themselves.
LEMMA SettlesPlain ==
  ASSUME NEW s \in Seq(WireByte), NEW u \in BOOLEAN, NEW down, NEW pair, NEW keys, NEW exact,
         Len(s) = 1, s[1].byte # E0, KeyOf(FALSE, s[1].byte % 128) \in pair,
         s[1].held \cap pair = down \cap pair, Agrees(s[1].byte < 128, down, pair, keys)
  PROVE  Settles(s, FALSE, u, down, pair, keys, exact)
<1>1. 1 \in {1, 2} /\ ~ (1 = 2)
  OBVIOUS
<1> QED
  BY <1>1, SettlesSet, Zenon

\* A key of two bytes, the prefix and its code, settles by its second byte.
LEMMA SettlesPrefixed ==
  ASSUME NEW s \in Seq(WireByte), NEW u \in BOOLEAN, NEW down, NEW pair, NEW keys, NEW exact,
         Len(s) = 2, s[1].byte = E0, s[2].byte # E0, KeyOf(TRUE, s[2].byte % 128) \in pair,
         s[2].held \cap pair = down \cap pair, Agrees(s[2].byte < 128, down, pair, keys)
  PROVE  Settles(s, FALSE, u, down, pair, keys, exact)
<1>1. 2 \in {1, 2} /\ 2 = 2
  OBVIOUS
<1> QED
  BY <1>1, SettlesSet, Zenon

\* The codes in the bytes of PrintScreen and Pause.
LEMMA OddCodes ==
  /\ KeyOf(TRUE, 42) = "Unknown" /\ KeyOf(TRUE, 55) = "Unknown" /\ KeyOf(TRUE, 70) = "Unknown"
  /\ KeyOf(FALSE, 97) = "Unknown" /\ KeyOf(FALSE, 29) = "LeftCtrl" /\ KeyOf(FALSE, 69) = "NumLock"
<1>1. /\ KeyOf(TRUE, 42) = "Unknown" /\ KeyOf(TRUE, 55) = "Unknown" /\ KeyOf(TRUE, 70) = "Unknown"
  BY DEF KeyOf, extended_scancode_to_keycode, Extended
<1>2. DOMAIN Plain = 1 .. 83 /\ Plain[29] = "LeftCtrl" /\ Plain[69] = "NumLock"
  BY DEF Plain
<1>3. KeyOf(FALSE, 97) = "Unknown" /\ KeyOf(FALSE, 29) = "LeftCtrl" /\ KeyOf(FALSE, 69) = "NumLock"
  BY <1>2 DEF KeyOf, scancode_to_keycode
<1> QED
  BY <1>1, <1>3

\* What Send puts on the wire.
Tagged(bytes, down) ==
  [i \in DOMAIN bytes |-> [byte |-> bytes[i], held |-> down \cap (Shift \cup Ctrl \cup Alt)]]

\* The bytes, and the modifiers down when they were sent.
LEMMA TaggedFacts ==
  ASSUME NEW bytes \in Seq(0 .. 255), NEW down
  PROVE  /\ Tagged(bytes, down) \in Seq(WireByte)
         /\ Len(Tagged(bytes, down)) = Len(bytes)
         /\ \A i \in 1 .. Len(bytes) : Tagged(bytes, down)[i].byte = bytes[i]
         /\ \A i \in 1 .. Len(bytes), flag \in Flags :
              Tagged(bytes, down)[i].held \cap Pair(flag) = down \cap Pair(flag)
<1> DEFINE t == Tagged(bytes, down)
           n == Len(bytes)
<1>1. n \in Nat /\ DOMAIN bytes = 1 .. n /\ \A i \in 1 .. n : bytes[i] \in 0 .. 255
  BY LenProperties, ElementOfSeq, Zenon
<1>2. t = [i \in 1 .. n |-> [byte |-> bytes[i], held |-> down \cap ModifierKeys]]
  BY <1>1 DEF Tagged, ModifierKeys
<1> HIDE DEF t, n
<1>3. \A i \in 1 .. n : t[i] \in WireByte
  BY <1>1, <1>2 DEF WireByte
<1>4. t \in Seq(WireByte) /\ Len(t) = n
  BY <1>1, <1>2, <1>3
<1>5. \A flag \in Flags : Pair(flag) \subseteq ModifierKeys
  BY DEF Pair, ModifierKeys
<1> QED
  BY <1>2, <1>4, <1>5 DEF t, n

\* Where an event's flag agrees with the keys: Pause sends a control key of
\* its own.
Exact(flag) == flag = "ctrl" => "Pause" \notin use.keys

\* Bytes that are the codes of no key of a pair.
Inert(bytes, pair) ==
  \A i \in 1 .. Len(bytes) :
    \/ bytes[i] = E0
    \/ IF i > 1 /\ bytes[i - 1] = E0 THEN KeyOf(TRUE, bytes[i] % 128) \notin pair
       ELSE KeyOf(FALSE, bytes[i] % 128) \notin pair

\* The bytes of a key that is none of a pair and sends none.
LEMMA InertKey ==
  ASSUME NEW flag \in Flags, NEW key, key \notin Pair(flag), NEW u \in BOOLEAN, NEW down,
         NEW keys, NEW exact, Agrees(u, held, Pair(flag), keys),
         down = held \cup {key} \/ down = held \ {key},
         NEW bytes \in Seq(0 .. 255),
         Inert(bytes, Pair(flag))
  PROVE  Settles(Tagged(bytes, down), FALSE, u, down, Pair(flag), keys, exact)
<1> DEFINE s == Tagged(bytes, down)
           n == Len(bytes)
<1>1. /\ s \in Seq(WireByte) /\ Len(s) = n /\ n \in Nat
      /\ \A i \in 1 .. n : s[i].byte = bytes[i] /\ s[i].held \cap Pair(flag) = down \cap Pair(flag)
  <2>1. n \in Nat
    BY LenProperties, Zenon
  <2> QED
    BY <2>1, TaggedFacts
<1>2. down \cap Pair(flag) = held \cap Pair(flag)
  OBVIOUS
<1>3. Agrees(u, down, Pair(flag), keys)
  BY <1>2 DEF Agrees
<1> HIDE DEF s
<1>4. ASSUME NEW i \in 1 .. n
      PROVE  s[i].byte = E0 \/ KeyOf(PrefixBefore(s, FALSE, i), s[i].byte % 128) \notin Pair(flag)
  <2>1. s[i].byte = bytes[i]
    BY <1>1
  <2>2. CASE i = 1
    <3>1. ~ PrefixBefore(s, FALSE, i) /\ ~ (i > 1)
      BY <2>2 DEF PrefixBefore
    <3> QED
      BY <2>1, <3>1 DEF KeyOf, Inert
  <2>3. CASE i # 1
    <3>1. i > 1 /\ i - 1 \in 1 .. n
      BY <1>1, <2>3
    <3>2. PrefixBefore(s, FALSE, i) <=> bytes[i - 1] = E0
      BY <1>1, <2>3, <3>1 DEF PrefixBefore
    <3> QED
      BY <2>1, <3>1, <3>2 DEF KeyOf, Inert
  <2> QED
    BY <2>2, <2>3
<1>5. Settles(s, FALSE, u, down, Pair(flag), keys, exact)
  BY <1>1, <1>3, <1>4, SettlesInert
<1> QED
  BY <1>5 DEF s

\* The bytes of Pause press and release a control key nobody pressed.
LEMMA PauseSettles ==
  ASSUME held \cap Ctrl = {}, NEW u \in BOOLEAN, Agrees(u, held, Ctrl, use.keys),
         NEW down, down = held \cup {"Pause"}, NEW exact, ~ exact
  PROVE  Settles(Tagged(<<E1, 29, 69, E1, 157, 197>>, down), FALSE, u, down, Ctrl, use.keys, exact)
<1> DEFINE b == <<E1, 29, 69, E1, 157, 197>>
           s == Tagged(b, down)
           up == {2, 3, 4}
<1>1. b \in Seq(0 .. 255) /\ Len(b) = 6
  BY DEF E1
<1>2. b[1] = 225 /\ b[2] = 29 /\ b[3] = 69 /\ b[4] = 225 /\ b[5] = 157 /\ b[6] = 197
  BY DEF E1
<1> HIDE DEF b
<1>3. s \in Seq(WireByte) /\ Len(s) = 6 /\ \A i \in 1 .. 6 : s[i].byte = b[i]
  <2>1. b \in Seq(0 .. 255)
    BY <1>1
  <2>2. s \in Seq(WireByte) /\ Len(s) = Len(b)
    BY <2>1, TaggedFacts, Zenon
  <2>3. \A i \in 1 .. Len(b) : s[i].byte = b[i]
    <3>1. \A t \in Seq(0 .. 255) : \A i \in 1 .. Len(t) : Tagged(t, down)[i].byte = t[i]
      BY TaggedFacts
    <3> QED
      BY <2>1, <3>1
  <2> QED
    BY <1>1, <2>2, <2>3
<1> HIDE DEF s
<1>4. /\ s[1].byte = 225 /\ s[2].byte = 29 /\ s[3].byte = 69
      /\ s[4].byte = 225 /\ s[5].byte = 157 /\ s[6].byte = 197
  BY <1>2, <1>3
<1>5. ~ u
  BY DEF Agrees
<1>6. \A i \in 1 .. 6 : ~ PrefixBefore(s, FALSE, i)
  <2>1. \A i \in 1 .. 6 : s[i].byte # 224
    BY <1>4
  <2> QED
    BY <2>1 DEF PrefixBefore, E0
<1>7. ASSUME NEW i \in 1 .. 6
      PROVE  i \in up <=> UpAfter(i - 1 \in up, PrefixBefore(s, FALSE, i), s[i].byte, Ctrl)
  <2>1. /\ s[1].byte % 128 = 97 /\ s[2].byte % 128 = 29 /\ s[3].byte % 128 = 69
        /\ s[4].byte % 128 = 97 /\ s[5].byte % 128 = 29 /\ s[6].byte % 128 = 69
    BY <1>4
  <2>2. "LeftCtrl" \in Ctrl /\ "Unknown" \notin Ctrl /\ "NumLock" \notin Ctrl
    BY DEF Ctrl
  <2>3. KeyOf(PrefixBefore(s, FALSE, i), s[i].byte % 128) = KeyOf(FALSE, s[i].byte % 128)
    BY <1>6 DEF KeyOf
  <2>4. i \in {1, 2, 3, 4, 5, 6}
    OBVIOUS
  <2>5. CASE i \in {1, 3, 4, 6}
    <3>1. KeyOf(FALSE, s[i].byte % 128) \notin Ctrl
      BY <2>1, <2>2, <2>5, OddCodes DEF KeyOf
    <3>2. i \in up <=> i - 1 \in up
      BY <2>5
    <3> QED
      BY <2>3, <3>1, <3>2 DEF UpAfter
  <2>6. CASE i \in {2, 5}
    <3>1. KeyOf(FALSE, s[i].byte % 128) \in Ctrl /\ s[i].byte # E0
      <4>1. s[i].byte # E0
        BY <1>4, <2>6 DEF E0
      <4>2. KeyOf(FALSE, s[i].byte % 128) \in Ctrl
        BY <2>1, <2>2, <2>6, OddCodes DEF KeyOf
      <4> QED
        BY <4>1, <4>2
    <3>2. i \in up <=> s[i].byte < 128
      BY <1>4, <2>6
    <3> QED
      BY <2>3, <3>1, <3>2 DEF UpAfter
  <2> QED
    BY <2>4, <2>5, <2>6
<1>8. up \in SUBSET Nat /\ 0 \notin up /\ 6 \notin up
  OBVIOUS
<1> HIDE DEF up
<1>9. Replay(s, FALSE, u, up, Ctrl)
  BY <1>3, <1>5, <1>7, <1>8 DEF Replay
<1>10. Agrees(Len(s) \in up, down, Ctrl, use.keys)
  <2>1. down \cap Ctrl = {}
    BY DEF Ctrl
  <2> QED
    BY <1>3, <1>8, <2>1 DEF Agrees
<1>11. Settles(s, FALSE, u, down, Ctrl, use.keys, exact)
  BY <1>8, <1>9, <1>10 DEF Settles
<1> QED
  BY <1>11 DEF s, b

\* The bytes of a key of the tables, of a key that goes down or up.
LEMMA TableBytes ==
  ASSUME NEW key \in KeyCode \ {"Unknown"}, NEW release \in {0, 128}
  PROVE  LET code == CodeOf(key) + release
         IN  /\ BytesOf(key, release) = IF HasPrefix(key) THEN <<E0, code>> ELSE <<code>>
             /\ code \in 0 .. 255 /\ code # E0
             /\ code < 128 <=> release = 0
             /\ IF HasPrefix(key) THEN KeyOf(TRUE, code % 128) = key
                ELSE KeyOf(FALSE, code % 128) = key
<1> DEFINE c == CodeOf(key)
<1>1. c \in 1 .. 95
  BY PrefixedKeys, PlainKeys
<1>2. HasPrefix(key) => KeyOf(TRUE, c) = key
  BY PrefixedKeys
<1>3. ~ HasPrefix(key) => KeyOf(FALSE, c) = key
  BY PlainKeys
<1>4. key # "PrintScreen" /\ key # "Pause"
  BY DEF KeyCode, Letters, ToSet
<1>5. BytesOf(key, release) = IF HasPrefix(key) THEN <<E0, c + release>> ELSE <<c + release>>
  BY <1>4 DEF BytesOf
<1> HIDE DEF c
<1>6. c + release \in 0 .. 255 /\ c + release # 224 /\ (c + release < 128 <=> release = 0)
  BY <1>1
<1>7. (c + release) % 128 = c
  BY <1>1
<1> QED
  BY <1>2, <1>3, <1>5, <1>6, <1>7 DEF c, E0

\* The bytes of the two keys that are not in the tables.
LEMMA OddBytes ==
  /\ BytesOf("PrintScreen", 0) = <<E0, 42, E0, 55>>
  /\ BytesOf("PrintScreen", 128) = <<E0, 183, E0, 170>>
  /\ BytesOf("Pause", 128) = << >>
  /\ held \cap Ctrl # {} => BytesOf("Pause", 0) = <<E0, 70, E0, 198>>
  /\ held \cap Ctrl = {} => BytesOf("Pause", 0) = <<E1, 29, 69, E1, 157, 197>>
<1>1. ~ HasPrefix("PrintScreen") /\ ~ HasPrefix("Pause")
  BY DEF HasPrefix, Extended
<1>2. BytesOf("PrintScreen", 0) = <<E0, 42, E0, 55>>
  BY <1>1 DEF BytesOf
<1>3. BytesOf("PrintScreen", 128) = <<E0, 183, E0, 170>>
  BY <1>1 DEF BytesOf
<1>4. BytesOf("Pause", 128) = << >>
  BY <1>1 DEF BytesOf
<1>5. held \cap Ctrl # {} => BytesOf("Pause", 0) = <<E0, 70, E0, 198>>
  BY <1>1 DEF BytesOf, Ctrl
<1>6. held \cap Ctrl = {} => BytesOf("Pause", 0) = <<E1, 29, 69, E1, 157, 197>>
  BY <1>1 DEF BytesOf, Ctrl
<1> QED
  BY <1>2, <1>3, <1>4, <1>5, <1>6

\* The bytes of any key, and that no prefix comes last.
LEMMA BytesFacts ==
  ASSUME NEW key \in (KeyCode \ {"Unknown"}) \cup {"PrintScreen", "Pause"}, NEW release \in {0, 128}
  PROVE  LET b == BytesOf(key, release)
         IN  b \in Seq(0 .. 255) /\ (Len(b) > 0 => b[Len(b)] # E0)
<1>1. CASE key \in KeyCode \ {"Unknown"}
  <2> DEFINE code == CodeOf(key) + release
  <2>1. BytesOf(key, release) = IF HasPrefix(key) THEN <<E0, code>> ELSE <<code>>
    BY <1>1, TableBytes, ZenonT(40)
  <2>2. code \in 0 .. 255 /\ code # E0
    BY <1>1, TableBytes, ZenonT(40)
  <2> HIDE DEF code
  <2>3. /\ <<E0, code>> \in Seq(0 .. 255) /\ Len(<<E0, code>>) = 2 /\ <<E0, code>>[2] # E0
        /\ <<code>> \in Seq(0 .. 255) /\ Len(<<code>>) = 1 /\ <<code>>[1] # E0
    BY <2>2 DEF E0
  <2>4. CASE HasPrefix(key)
    BY <2>1, <2>3, <2>4
  <2>5. CASE ~ HasPrefix(key)
    BY <2>1, <2>3, <2>5
  <2> QED
    BY <2>4, <2>5
<1>2. CASE key = "PrintScreen"
  <2>1. BytesOf(key, release) = <<E0, 42, E0, 55>> \/ BytesOf(key, release) = <<E0, 183, E0, 170>>
    BY <1>2, OddBytes
  <2>2. /\ <<E0, 42, E0, 55>> \in Seq(0 .. 255) /\ Len(<<E0, 42, E0, 55>>) = 4
        /\ <<E0, 42, E0, 55>>[4] # E0
    BY DEF E0
  <2>3. /\ <<E0, 183, E0, 170>> \in Seq(0 .. 255) /\ Len(<<E0, 183, E0, 170>>) = 4
        /\ <<E0, 183, E0, 170>>[4] # E0
    BY DEF E0
  <2>4. CASE BytesOf(key, release) = <<E0, 42, E0, 55>>
    BY <2>2, <2>4
  <2>5. CASE BytesOf(key, release) = <<E0, 183, E0, 170>>
    BY <2>3, <2>5
  <2> QED
    BY <2>1, <2>4, <2>5
<1>3. CASE key = "Pause"
  <2>1. \/ BytesOf(key, release) = << >> \/ BytesOf(key, release) = <<E0, 70, E0, 198>>
        \/ BytesOf(key, release) = <<E1, 29, 69, E1, 157, 197>>
    BY <1>3, OddBytes
  <2>2. << >> \in Seq(0 .. 255) /\ Len(<< >>) = 0
    OBVIOUS
  <2>3. /\ <<E0, 70, E0, 198>> \in Seq(0 .. 255) /\ Len(<<E0, 70, E0, 198>>) = 4
        /\ <<E0, 70, E0, 198>>[4] # E0
    BY DEF E0
  <2>4. /\ <<E1, 29, 69, E1, 157, 197>> \in Seq(0 .. 255) /\ Len(<<E1, 29, 69, E1, 157, 197>>) = 6
        /\ <<E1, 29, 69, E1, 157, 197>>[6] # E0
    BY DEF E0, E1
  <2>5. CASE BytesOf(key, release) = << >>
    BY <2>2, <2>5
  <2>6. CASE BytesOf(key, release) = <<E0, 70, E0, 198>>
    BY <2>3, <2>6
  <2>7. CASE BytesOf(key, release) = <<E1, 29, 69, E1, 157, 197>>
    BY <2>4, <2>7
  <2> QED
    BY <2>1, <2>5, <2>6, <2>7
<1> QED
  BY <1>1, <1>2, <1>3

\* A flag after a key of its pair.
LEMMA SetAgrees ==
  ASSUME NEW flag \in Flags, NEW keys, held \subseteq keys, NEW key \in keys, key \in Pair(flag)
  PROVE  /\ Agrees(TRUE, held \cup {key}, Pair(flag), keys)
         /\ Agrees(FALSE, held \ {key}, Pair(flag), keys)
<1>1. Agrees(TRUE, held \cup {key}, Pair(flag), keys)
  BY DEF Agrees
<1>2. ASSUME NEW other \in (held \ {key}) \cap Pair(flag)
      PROVE  Pair(flag) \subseteq keys
  <2>1. Pair(flag) = {key, other}
    BY <1>2 DEF Flags, Pair, Shift, Ctrl, Alt
  <2> QED
    BY <1>2, <2>1
<1>3. Agrees(FALSE, held \ {key}, Pair(flag), keys)
  BY <1>2 DEF Agrees
<1> QED
  BY <1>1, <1>3

\* What a key that goes down (release = 0) or up finds.
Struck(key, release, down, flag, u, keys, exact) ==
  /\ keys = use.keys /\ held \subseteq keys
  /\ keys \subseteq (KeyCode \ {"Unknown"}) \cup {"PrintScreen", "Pause"}
  /\ key \in keys
  /\ down = IF release = 0 THEN held \cup {key} ELSE held \ {key}
  /\ Agrees(u, held, Pair(flag), keys)
  /\ exact => Exact(flag)

\* Whatever a key does, its bytes settle the flags again.
LEMMA KeySettles ==
  ASSUME NEW key, NEW flag \in Flags, NEW release \in {0, 128}, NEW down,
         NEW u \in BOOLEAN, NEW keys, NEW exact, Struck(key, release, down, flag, u, keys, exact)
  PROVE  Settles(Tagged(BytesOf(key, release), down), FALSE, u, down, Pair(flag), keys, exact)
<1> DEFINE b == BytesOf(key, release)
           pair == Pair(flag)
           Goal == Settles(Tagged(b, down), FALSE, u, down, pair, keys, exact)
<1> SUFFICES Goal
  OBVIOUS
<1> HIDE DEF Goal
<1>0. key \in (KeyCode \ {"Unknown"}) \cup {"PrintScreen", "Pause"}
  BY DEF Struck
<1>1. b \in Seq(0 .. 255)
  BY <1>0, BytesFacts
<1>2. down = held \cup {key} \/ down = held \ {key}
  BY DEF Struck
<1>9. Agrees(u, held, Pair(flag), keys)
  BY DEF Struck
<1>3. ASSUME key \notin pair, Inert(b, pair)
      PROVE  Goal
  <2> HIDE DEF b
  <2>1. Settles(Tagged(b, down), FALSE, u, down, Pair(flag), keys, exact)
    BY <1>1, <1>2, <1>3, <1>9, InertKey, Zenon DEF pair
  <2> QED
    BY <2>1 DEF Goal, b
<1>4. "Unknown" \notin pair /\ "NumLock" \notin pair /\ "PrintScreen" \notin pair /\ "Pause" \notin pair
  BY DEF Pair, Shift, Ctrl, Alt
<1>5. CASE key \in KeyCode \ {"Unknown"}
  <2> DEFINE code == CodeOf(key) + release
  <2>1. code \in 0 .. 255 /\ code # E0 /\ (code < 128 <=> release = 0)
    BY <1>5, TableBytes, ZenonT(40)
  <2>2. b = IF HasPrefix(key) THEN <<E0, code>> ELSE <<code>>
    BY <1>5, TableBytes, ZenonT(40)
  <2>3. IF HasPrefix(key) THEN KeyOf(TRUE, code % 128) = key ELSE KeyOf(FALSE, code % 128) = key
    BY <1>5, TableBytes, ZenonT(40)
  <2> HIDE DEF code, b
  <2>4. \/ /\ Len(b) = 2 /\ b[1] = E0 /\ b[2] = code /\ KeyOf(TRUE, code % 128) = key
        \/ /\ Len(b) = 1 /\ b[1] = code /\ KeyOf(FALSE, code % 128) = key
    <3>1. CASE HasPrefix(key)
      <4>1. b = <<E0, code>> /\ KeyOf(TRUE, code % 128) = key
        BY <2>2, <2>3, <3>1
      <4> QED
        BY <4>1
    <3>2. CASE ~ HasPrefix(key)
      <4>1. b = <<code>> /\ KeyOf(FALSE, code % 128) = key
        BY <2>2, <2>3, <3>2
      <4> QED
        BY <4>1
    <3> QED
      BY <3>1, <3>2
  <2> HIDE DEF pair
  <2>5. CASE key \notin pair
    <3>1. CASE Len(b) = 2 /\ b[1] = E0 /\ b[2] = code /\ KeyOf(TRUE, code % 128) = key
      <4>1. \A i \in 1 .. Len(b) : i = 1 \/ (i = 2 /\ i > 1 /\ i - 1 = 1)
        BY <3>1
      <4> QED
        BY <1>3, <2>5, <3>1, <4>1 DEF Inert
    <3>2. CASE Len(b) = 1 /\ b[1] = code /\ KeyOf(FALSE, code % 128) = key
      <4>1. \A i \in 1 .. Len(b) : i = 1 /\ ~ (i > 1)
        BY <3>2
      <4> QED
        BY <1>3, <2>5, <3>2, <4>1 DEF Inert
    <3> QED
      BY <2>4, <3>1, <3>2
  <2>6. CASE key \in pair
    <3> DEFINE s == Tagged(b, down)
    <3>1. s \in Seq(WireByte) /\ Len(s) = Len(b)
      BY <1>1, TaggedFacts, Zenon
    <3>2. \A i \in 1 .. Len(b) : s[i].byte = b[i] /\ s[i].held \cap pair = down \cap pair
      <4>1. \A t \in Seq(0 .. 255) : \A i \in 1 .. Len(t) :
              Tagged(t, down)[i].byte = t[i] /\ Tagged(t, down)[i].held \cap Pair(flag) = down \cap Pair(flag)
        BY TaggedFacts
      <4> QED
        BY <1>1, <4>1 DEF pair
    <3> HIDE DEF s
    <3>3. Agrees(code < 128, down, pair, keys)
      <4>1. CASE release = 0
        BY <2>1, <2>6, <4>1, SetAgrees DEF Agrees, pair, Struck
      <4>2. CASE release # 0
        BY <2>1, <2>6, <4>2, SetAgrees DEF Agrees, pair, Struck
      <4> QED
        BY <4>1, <4>2
    <3>4. CASE Len(b) = 2 /\ b[1] = E0 /\ b[2] = code /\ KeyOf(TRUE, code % 128) = key
      <4>1. /\ Len(s) = 2 /\ s[1].byte = E0 /\ s[2].byte = code /\ s[2].byte # E0
            /\ s[2].held \cap pair = down \cap pair
        BY <2>1, <3>1, <3>2, <3>4
      <4>2. KeyOf(TRUE, s[2].byte % 128) \in pair
        BY <2>6, <3>4, <4>1
      <4>3. Agrees(s[2].byte < 128, down, pair, keys)
        BY <3>3, <4>1 DEF Agrees
      <4>4. Settles(s, FALSE, u, down, pair, keys, exact)
        BY <2>1, <3>1, <4>1, <4>2, <4>3, SettlesPrefixed, Zenon
      <4> QED
        BY <4>4 DEF s, Goal
    <3>5. CASE Len(b) = 1 /\ b[1] = code /\ KeyOf(FALSE, code % 128) = key
      <4>1. Len(s) = 1 /\ s[1].byte = code /\ s[1].byte # E0 /\ s[1].held \cap pair = down \cap pair
        BY <2>1, <3>1, <3>2, <3>5
      <4>2. KeyOf(FALSE, s[1].byte % 128) \in pair
        BY <2>6, <3>5, <4>1
      <4>3. Agrees(s[1].byte < 128, down, pair, keys)
        BY <3>3, <4>1 DEF Agrees
      <4>4. Settles(s, FALSE, u, down, pair, keys, exact)
        BY <2>1, <3>1, <4>1, <4>2, <4>3, SettlesPlain, Zenon
      <4> QED
        BY <4>4 DEF s, Goal
    <3> QED
      BY <2>4, <3>4, <3>5
  <2> QED
    BY <2>5, <2>6
<1>6. ASSUME NEW c1, NEW c2, b = <<E0, c1, E0, c2>>, key \notin pair,
             KeyOf(TRUE, c1 % 128) = "Unknown", KeyOf(TRUE, c2 % 128) = "Unknown"
      PROVE  Goal
  <2>1. Len(b) = 4 /\ b[1] = E0 /\ b[2] = c1 /\ b[3] = E0 /\ b[4] = c2
    BY <1>6
  <2> HIDE DEF b, pair
  <2>2. ASSUME NEW i \in 1 .. Len(b)
        PROVE  \/ b[i] = E0
               \/ IF i > 1 /\ b[i - 1] = E0 THEN KeyOf(TRUE, b[i] % 128) \notin pair
                  ELSE KeyOf(FALSE, b[i] % 128) \notin pair
    <3>1. i = 1 \/ i = 3 \/ (i = 2 /\ i > 1 /\ i - 1 = 1) \/ (i = 4 /\ i > 1 /\ i - 1 = 3)
      BY <2>1
    <3> QED
      BY <1>4, <1>6, <2>1, <3>1 DEF KeyOf
  <2> QED
    BY <1>3, <1>6, <2>2 DEF Inert
<1>7. CASE key = "PrintScreen"
  <2>1. b = <<E0, 42, E0, 55>> \/ b = <<E0, 183, E0, 170>>
    BY <1>7, OddBytes
  <2>2. 42 % 128 = 42 /\ 55 % 128 = 55 /\ 183 % 128 = 55 /\ 170 % 128 = 42
    OBVIOUS
  <2> HIDE DEF b
  <2> QED
    BY <1>4, <1>6, <1>7, <2>1, <2>2, OddCodes DEF KeyOf
<1>8. CASE key = "Pause"
  <2>1. CASE release = 128
    <3>1. b = << >> /\ Len(b) = 0
      BY <1>8, <2>1, OddBytes
    <3> HIDE DEF b
    <3>2. \A i \in 1 .. Len(b) : FALSE
      BY <3>1
    <3> QED
      BY <1>3, <1>4, <1>8, <3>2 DEF Inert
  <2>2. CASE release = 0 /\ held \cap Ctrl # {}
    <3>1. b = <<E0, 70, E0, 198>> /\ 70 % 128 = 70 /\ 198 % 128 = 70
      BY <1>8, <2>2, OddBytes
    <3> HIDE DEF b
    <3> QED
      BY <1>4, <1>6, <1>8, <3>1, OddCodes DEF KeyOf
  <2>3. CASE release = 0 /\ held \cap Ctrl = {} /\ flag = "ctrl"
    <3>1. b = <<E1, 29, 69, E1, 157, 197>> /\ pair = Ctrl /\ ~ exact
      BY <1>8, <2>3, OddBytes DEF Pair, Exact, Struck
    <3>2. down = held \cup {"Pause"} /\ keys = use.keys /\ Agrees(u, held, Ctrl, use.keys)
      BY <1>8, <2>3 DEF Struck, Pair
    <3>3. Settles(Tagged(<<E1, 29, 69, E1, 157, 197>>, down), FALSE, u, down, Ctrl, use.keys, exact)
      BY <2>3, <3>1, <3>2, PauseSettles, Zenon
    <3> QED
      BY <3>1, <3>2, <3>3 DEF Goal
  <2>4. CASE release = 0 /\ held \cap Ctrl = {} /\ flag # "ctrl"
    <3>1. b = <<E1, 29, 69, E1, 157, 197>>
      BY <1>8, <2>4, OddBytes
    <3>2. /\ Len(b) = 6 /\ b[1] = 225 /\ b[2] = 29 /\ b[3] = 69 /\ b[4] = 225 /\ b[5] = 157
          /\ b[6] = 197
      BY <3>1 DEF E1
    <3>3. "LeftCtrl" \notin pair
      BY <2>4 DEF Pair, Flags, Shift, Alt
    <3> HIDE DEF b, pair
    <3>4. /\ b[1] % 128 = 97 /\ b[2] % 128 = 29 /\ b[3] % 128 = 69 /\ b[4] % 128 = 97
          /\ b[5] % 128 = 29 /\ b[6] % 128 = 69
      BY <3>2
    <3>5. ASSUME NEW i \in 1 .. Len(b)
          PROVE  ~ (i > 1 /\ b[i - 1] = E0) /\ KeyOf(FALSE, b[i] % 128) \notin pair
      <4>1. i \in {1, 2, 3, 4, 5, 6}
        BY <3>2
      <4>2. ~ (i > 1 /\ b[i - 1] = E0)
        BY <3>2, <4>1 DEF E0
      <4>3. KeyOf(FALSE, b[i] % 128) \notin pair
        BY <1>4, <3>3, <3>4, <4>1, OddCodes DEF KeyOf
      <4> QED
        BY <4>2, <4>3
    <3> QED
      BY <1>3, <1>4, <1>8, <3>5 DEF Inert
  <2> QED
    BY <2>1, <2>2, <2>3, <2>4
<1> QED
  BY <1>0, <1>5, <1>7, <1>8

Mods == [shift : BOOLEAN, ctrl : BOOLEAN, alt : BOOLEAN, caps_lock : BOOLEAN, num_lock : BOOLEAN]

\* A key sets the flag of its pair and no other.
LEMMA Updated ==
  ASSUME MODIFIERS \in Mods, NEW k, NEW p \in BOOLEAN
  PROVE  /\ UpdatedModifiers(k, p) \in Mods
         /\ \A flag \in Flags :
              UpdatedModifiers(k, p)[flag] <=> IF k \in Pair(flag) THEN p ELSE MODIFIERS[flag]
<1> DEFINE m == UpdatedModifiers(k, p)
<1>1. CASE k \in Shift
  <2>1. m = [MODIFIERS EXCEPT !.shift = p]
    BY <1>1 DEF UpdatedModifiers, Shift
  <2> QED
    BY <1>1, <2>1 DEF Mods, Flags, Pair, Shift, Ctrl, Alt
<1>2. CASE k \in Ctrl
  <2>1. m = [MODIFIERS EXCEPT !.ctrl = p]
    BY <1>2 DEF UpdatedModifiers, Ctrl
  <2> QED
    BY <1>2, <2>1 DEF Mods, Flags, Pair, Shift, Ctrl, Alt
<1>3. CASE k \in Alt
  <2>1. m = [MODIFIERS EXCEPT !.alt = p]
    BY <1>3 DEF UpdatedModifiers, Alt
  <2> QED
    BY <1>3, <2>1 DEF Mods, Flags, Pair, Shift, Ctrl, Alt
<1>4. CASE k \notin Shift \cup Ctrl \cup Alt
  <2>1. \/ m = [MODIFIERS EXCEPT !.caps_lock = ~ @] \/ m = [MODIFIERS EXCEPT !.num_lock = ~ @]
        \/ m = MODIFIERS
    BY <1>4 DEF UpdatedModifiers, Shift, Ctrl, Alt
  <2> QED
    BY <1>4, <2>1 DEF Mods, Flags, Pair
<1> QED
  BY <1>1, <1>2, <1>3, <1>4

\* All that is known of the flags, on the wire and in the buffer.
TypedWire ==
  /\ use \in Uses /\ held \subseteq use.keys
  /\ wire \in Seq(WireByte)
  /\ EXTENDED_KEY \in BOOLEAN /\ MODIFIERS \in Mods

\* No prefix waits for a byte that was not sent.
WholeKeys == ~ PrefixBefore(wire, EXTENDED_KEY, Len(wire) + 1)

WireSettles ==
  \A flag \in Flags :
    Settles(wire, EXTENDED_KEY, MODIFIERS[flag], held, Pair(flag), use.keys, Exact(flag))

\* What TypedAsStruck says of an entry of the buffer.
AsStruck(e) ==
  \A flag \in Flags :
    Exact(flag) => Agrees(e.event.modifiers[flag], e.held, Pair(flag), use.keys)

Buffered == \E S : KEYBOARD_BUF \in Seq(S) /\ \A e \in S : AsStruck(e)

ModifierInv == TypedWire /\ WholeKeys /\ WireSettles /\ Buffered

\* A key goes down, up, or repeats.
LEMMA SendKeeps ==
  ASSUME TypedWire, WholeKeys, WireSettles, NEW key \in use.keys, NEW release \in {0, 128},
         held' = IF release = 0 THEN held \cup {key} ELSE held \ {key},
         Send(BytesOf(key, release), held'), UNCHANGED <<use, EXTENDED_KEY, MODIFIERS>>
  PROVE  TypedWire' /\ WholeKeys' /\ WireSettles'
<1>1. PICK down : down = held'
  OBVIOUS
<1> DEFINE b == BytesOf(key, release)
           s == Tagged(b, down)
<1>2. key \in (KeyCode \ {"Unknown"}) \cup {"PrintScreen", "Pause"}
  BY KeyboardAssumption DEF TypedWire
<1>3. b \in Seq(0 .. 255) /\ (Len(b) > 0 => b[Len(b)] # E0)
  BY <1>2, BytesFacts
<1>4. s \in Seq(WireByte) /\ Len(s) = Len(b) /\ Len(b) \in Nat
  <2>1. \A t \in Seq(0 .. 255) : Tagged(t, down) \in Seq(WireByte) /\ Len(Tagged(t, down)) = Len(t)
    BY TaggedFacts
  <2> QED
    BY <1>3, <2>1, LenProperties
<1>5. \A i \in 1 .. Len(b) : s[i].byte = b[i]
  <2>1. \A t \in Seq(0 .. 255) : \A i \in 1 .. Len(t) : Tagged(t, down)[i].byte = t[i]
    BY TaggedFacts
  <2> QED
    BY <1>3, <2>1
<1>6. wire' = wire \o s
  BY <1>1 DEF Send, Tagged
<1> HIDE DEF b, s
<1>7. wire \in Seq(WireByte)
  BY DEF TypedWire
<1>8. TypedWire'
  <2>1. wire' \in Seq(WireByte)
    BY <1>4, <1>6, <1>7, ConcatProperties
  <2>2. held' \subseteq use.keys
    BY DEF TypedWire
  <2> QED
    BY <2>1, <2>2 DEF TypedWire
<1>9. WholeKeys'
  <2> DEFINE n == Len(wire)
             m == Len(s)
             z == wire \o s
  <2>1. /\ n \in Nat /\ m \in Nat /\ Len(z) = n + m
        /\ (\A i \in 1 .. n : z[i] = wire[i]) /\ (\A i \in 1 .. m : z[n + i] = s[i])
    BY <1>4, <1>7, LenProperties, ConcatProperties
  <2>2. ~ PrefixBefore(wire, EXTENDED_KEY, n + 1)
    BY DEF WholeKeys
  <2> HIDE DEF n, m, z
  <2>3. ~ PrefixBefore(z, EXTENDED_KEY, (n + m) + 1)
    <3>1. CASE m = 0
      <4>1. CASE n = 0
        BY <2>1, <2>2, <3>1, <4>1 DEF PrefixBefore
      <4>2. CASE n # 0
        <5>1. z[n] = wire[n] /\ n + 1 # 1 /\ (n + 1) - 1 = n /\ (n + m) + 1 = n + 1
          BY <2>1, <3>1, <4>2
        <5> QED
          BY <2>2, <5>1 DEF PrefixBefore
      <4> QED
        BY <4>1, <4>2
    <3>2. CASE m # 0
      <4>1. z[n + m] = s[m] /\ (n + m) + 1 # 1 /\ ((n + m) + 1) - 1 = n + m /\ m \in 1 .. m /\ m > 0
        BY <2>1, <3>2
      <4>2. s[m].byte # E0
        BY <1>3, <1>4, <1>5, <4>1 DEF m
      <4> QED
        BY <4>1, <4>2 DEF PrefixBefore
    <3> QED
      BY <3>1, <3>2
  <2>4. ~ PrefixBefore(z, EXTENDED_KEY, Len(z) + 1)
    BY <2>1, <2>3
  <2> QED
    BY <1>6, <2>4 DEF WholeKeys, z
<1>10. ASSUME NEW flag \in Flags
       PROVE  Settles(wire \o s, EXTENDED_KEY, MODIFIERS[flag], down, Pair(flag), use.keys, Exact(flag))
  <2>1. Settles(wire, EXTENDED_KEY, MODIFIERS[flag], held, Pair(flag), use.keys, Exact(flag))
    BY DEF WireSettles
  <2>2. PICK keys : keys = use.keys
    OBVIOUS
  <2>3. PICK exact : exact = Exact(flag)
    OBVIOUS
  <2>4. PICK w : w = wire
    OBVIOUS
  <2>5. PICK x : x = EXTENDED_KEY
    OBVIOUS
  <2>6. PICK v : v = MODIFIERS[flag]
    OBVIOUS
  <2>7. Settles(w, x, v, held, Pair(flag), keys, exact)
    BY <2>1, <2>2, <2>3, <2>4, <2>5, <2>6
  <2>8. ~ PrefixBefore(w, x, Len(w) + 1) /\ w \in Seq(WireByte)
    BY <1>7, <2>4, <2>5 DEF WholeKeys
  <2>9. ASSUME NEW u \in BOOLEAN, Agrees(u, held, Pair(flag), keys)
        PROVE  Settles(s, FALSE, u, down, Pair(flag), keys, exact)
    <3>1. /\ held \subseteq use.keys
          /\ use.keys \subseteq (KeyCode \ {"Unknown"}) \cup {"PrintScreen", "Pause"}
      BY KeyboardAssumption DEF TypedWire
    <3>2. Struck(key, release, down, flag, u, keys, exact)
      BY <1>1, <2>2, <2>3, <2>9, <3>1 DEF Struck
    <3>3. Settles(Tagged(BytesOf(key, release), down), FALSE, u, down, Pair(flag), keys, exact)
      BY <3>2, KeySettles, Zenon
    <3> QED
      BY <3>3 DEF s, b
  <2>10. Settles(w \o s, x, v, down, Pair(flag), keys, exact)
    BY <1>4, <2>7, <2>8, <2>9, SettlesConcat, Zenon
  <2> QED
    BY <2>2, <2>3, <2>4, <2>5, <2>6, <2>10
<1>11. WireSettles'
  <2> SUFFICES ASSUME NEW flag \in Flags
               PROVE  Settles(wire', EXTENDED_KEY', MODIFIERS'[flag], held', Pair(flag), use'.keys, Exact(flag)')
    BY DEF WireSettles
  <2>1. Exact(flag)' <=> Exact(flag)
    BY DEF Exact
  <2> QED
    BY <1>1, <1>6, <1>10, <2>1 DEF Settles
<1> QED
  BY <1>8, <1>9, <1>11

\* The first byte of the wire is handled.
LEMMA TakeKeeps ==
  ASSUME TypedWire, WholeKeys, WireSettles, wire # << >>, wire' = Tail(wire),
         EXTENDED_KEY' \in BOOLEAN, EXTENDED_KEY' <=> wire[1].byte = E0,
         MODIFIERS' \in Mods,
         \A flag \in Flags : MODIFIERS'[flag] <=>
           UpAfter(MODIFIERS[flag], EXTENDED_KEY, wire[1].byte, Pair(flag)),
         UNCHANGED <<use, held>>
  PROVE  /\ TypedWire' /\ WholeKeys' /\ WireSettles'
         /\ wire[1].byte # E0 =>
              \A flag \in Flags : Exact(flag) => Agrees(MODIFIERS'[flag], wire[1].held, Pair(flag), use.keys)
<1>1. PICK w : w = wire
  OBVIOUS
<1>2. PICK t : t = wire'
  OBVIOUS
<1> DEFINE n == Len(w)
<1>3. w \in Seq(WireByte) /\ w # << >>
  BY <1>1 DEF TypedWire
<1>4. /\ t \in Seq(WireByte) /\ n \in Nat /\ n >= 1 /\ Len(t) = n - 1
      /\ \A i \in 1 .. n - 1 : t[i] = w[i + 1]
  BY <1>1, <1>2, <1>3, LenProperties, HeadTailProperties
<1>5. TypedWire'
  BY <1>2, <1>4 DEF TypedWire
<1>6. WholeKeys'
  <2>1. ~ PrefixBefore(w, EXTENDED_KEY, n + 1)
    BY <1>1 DEF WholeKeys
  <2> HIDE DEF n
  <2>2. ~ (w[n].byte = E0)
    <3>1. n + 1 # 1 /\ (n + 1) - 1 = n
      BY <1>4
    <3> QED
      BY <2>1, <3>1 DEF PrefixBefore
  <2>3. ~ PrefixBefore(t, EXTENDED_KEY', Len(t) + 1)
    <3>1. CASE n = 1
      <4>1. Len(t) + 1 = 1
        BY <1>4, <3>1
      <4>2. ~ EXTENDED_KEY'
        BY <1>1, <2>2, <3>1
      <4> QED
        BY <4>1, <4>2 DEF PrefixBefore
    <3>2. CASE n # 1
      <4>1. n - 1 \in 1 .. n - 1 /\ Len(t) + 1 # 1 /\ (Len(t) + 1) - 1 = n - 1 /\ (n - 1) + 1 = n
        BY <1>4, <3>2
      <4>2. t[n - 1] = w[n]
        BY <1>4, <4>1
      <4> QED
        BY <2>2, <4>1, <4>2 DEF PrefixBefore
    <3> QED
      BY <3>1, <3>2
  <2> QED
    BY <1>2, <2>3 DEF WholeKeys
<1>7. ASSUME NEW flag \in Flags
      PROVE  /\ Settles(wire', EXTENDED_KEY', MODIFIERS'[flag], held, Pair(flag), use.keys, Exact(flag))
             /\ wire[1].byte # E0 /\ Exact(flag) => Agrees(MODIFIERS'[flag], wire[1].held, Pair(flag), use.keys)
  <2>1. PICK keys : keys = use.keys
    OBVIOUS
  <2>2. PICK exact : exact = Exact(flag)
    OBVIOUS
  <2>3. PICK x : x = EXTENDED_KEY
    OBVIOUS
  <2>4. PICK v : v = MODIFIERS[flag]
    OBVIOUS
  <2>5. PICK down : down = held
    OBVIOUS
  <2>6. PICK x2 : x2 = EXTENDED_KEY'
    OBVIOUS
  <2>7. PICK v2 : v2 = MODIFIERS'[flag]
    OBVIOUS
  <2> DEFINE u == UpAfter(v, x, w[1].byte, Pair(flag))
  <2>8. Settles(w, x, v, down, Pair(flag), keys, exact)
    BY <1>1, <2>1, <2>2, <2>3, <2>4, <2>5 DEF WireSettles
  <2>9. /\ Settles(Tail(w), w[1].byte = E0, u, down, Pair(flag), keys, exact)
        /\ w[1].byte # E0 /\ exact => Agrees(u, w[1].held, Pair(flag), keys)
    BY <1>3, <2>8, SettlesTail, Zenon
  <2>10. (x2 <=> w[1].byte = E0) /\ (v2 <=> u)
    BY <1>1, <2>3, <2>4, <2>6, <2>7
  <2> HIDE DEF u
  <2>11. Settles(Tail(w), x2, v2, down, Pair(flag), keys, exact)
    <3>1. PICK x1 : x1 = (w[1].byte = E0)
      OBVIOUS
    <3>2. PICK v1 : v1 = u
      OBVIOUS
    <3>3. Settles(Tail(w), x1, v1, down, Pair(flag), keys, exact)
      BY <2>9, <3>1, <3>2
    <3>4. (x1 <=> x2) /\ (v1 <=> v2)
      BY <2>10, <3>1, <3>2
    <3>5. x1 \in BOOLEAN /\ x2 \in BOOLEAN
      BY <2>6, <3>1
    <3>6. v1 \in BOOLEAN /\ v2 \in BOOLEAN
      <4>1. MODIFIERS[flag] \in BOOLEAN /\ MODIFIERS'[flag] \in BOOLEAN
        BY DEF TypedWire, Mods, Flags
      <4>2. u \in BOOLEAN
        <5>1. v \in BOOLEAN /\ (w[1].byte < 128) \in BOOLEAN
          BY <2>4, <4>1
        <5>2. u = IF w[1].byte # E0 /\ KeyOf(x, w[1].byte % 128) \in Pair(flag) THEN w[1].byte < 128 ELSE v
          BY Zenon DEF u, UpAfter
        <5> QED
          BY <5>1, <5>2, Zenon
      <4> QED
        BY <2>7, <3>2, <4>1, <4>2
    <3>7. x1 = x2 /\ v1 = v2
      BY <3>4, <3>5, <3>6
    <3> QED
      BY <3>3, <3>7
  <2>12. w[1].byte # E0 /\ exact => Agrees(v2, w[1].held, Pair(flag), keys)
    BY <2>9, <2>10 DEF Agrees
  <2> QED
    BY <1>1, <2>1, <2>2, <2>5, <2>6, <2>7, <2>11, <2>12
<1>8. WireSettles'
  <2> SUFFICES ASSUME NEW flag \in Flags
               PROVE  Settles(wire', EXTENDED_KEY', MODIFIERS'[flag], held', Pair(flag), use'.keys, Exact(flag)')
    BY DEF WireSettles
  <2>1. Exact(flag)' <=> Exact(flag)
    BY DEF Exact
  <2> QED
    BY <1>7, <2>1 DEF Settles
<1> QED
  BY <1>5, <1>6, <1>7, <1>8

\* What the buffer holds when an entry is appended or removed.
LEMMA BufferKeeps ==
  ASSUME Buffered, use' = use,
         \/ KEYBOARD_BUF' = KEYBOARD_BUF
         \/ KEYBOARD_BUF # << >> /\ KEYBOARD_BUF' = Tail(KEYBOARD_BUF)
         \/ \E e : AsStruck(e) /\ KEYBOARD_BUF' = Pushed(e)
  PROVE  Buffered'
<1>1. PICK S : KEYBOARD_BUF \in Seq(S) /\ \A e \in S : AsStruck(e)
  BY DEF Buffered
<1>2. \A e : AsStruck(e) => AsStruck(e)'
  BY DEF AsStruck, Exact
<1>3. CASE KEYBOARD_BUF' = KEYBOARD_BUF
  BY <1>1, <1>2, <1>3 DEF Buffered
<1>4. CASE KEYBOARD_BUF # << >> /\ KEYBOARD_BUF' = Tail(KEYBOARD_BUF)
  <2>1. KEYBOARD_BUF' \in Seq(S)
    BY <1>1, <1>4, HeadTailProperties
  <2> QED
    BY <1>1, <1>2, <2>1 DEF Buffered
<1>5. ASSUME NEW e, AsStruck(e), KEYBOARD_BUF' = Pushed(e)
      PROVE  Buffered'
  <2>1. KEYBOARD_BUF' \in Seq(S \cup {e})
    BY <1>1, <1>5 DEF Pushed
  <2> QED
    BY <1>1, <1>2, <1>5, <2>1 DEF Buffered
<1> QED
  BY <1>3, <1>4, <1>5

\* A byte that is no prefix becomes an event, and the flags are those of the
\* event.
LEMMA ByteKeeps ==
  ASSUME ModifierInv, HandleByte
  PROVE  ModifierInv'
<1>1. TypedWire /\ WholeKeys /\ WireSettles /\ Buffered
  BY DEF ModifierInv
<1>2. /\ wire # << >> /\ wire' = Tail(wire) /\ Head(wire).byte # E0
      /\ EXTENDED_KEY' = FALSE /\ use' = use /\ held' = held
  BY DEF HandleByte, TakePrefix
<1>3. Head(wire) = wire[1] /\ wire[1].byte # E0
  BY <1>1, <1>2 DEF TypedWire
<1> DEFINE byte == wire[1].byte
           k == KeyOf(EXTENDED_KEY, byte % 128)
           e == handle_scancode(byte, EXTENDED_KEY)
<1>4. e.modifiers = UpdatedModifiers(k, byte < 128)
  BY DEF handle_scancode, KeyOf
<1>5. MODIFIERS' = e.modifiers
  BY <1>3 DEF HandleByte
<1>6. \/ KEYBOARD_BUF' = KEYBOARD_BUF
      \/ KEYBOARD_BUF' = Pushed([event |-> e, held |-> wire[1].held])
  BY <1>3 DEF HandleByte
<1>7. (byte < 128) \in BOOLEAN
  OBVIOUS
<1> HIDE DEF byte, e
<1>8. /\ MODIFIERS' \in Mods
      /\ \A flag \in Flags :
           MODIFIERS'[flag] <=> IF k \in Pair(flag) THEN byte < 128 ELSE MODIFIERS[flag]
  <2>1. MODIFIERS' = UpdatedModifiers(k, byte < 128)
    BY <1>4, <1>5, Zenon
  <2>2. MODIFIERS \in Mods
    BY <1>1 DEF TypedWire
  <2> DEFINE p == byte < 128
  <2>3. p \in BOOLEAN
    BY <1>7
  <2> HIDE DEF p, k
  <2>4. /\ UpdatedModifiers(k, p) \in Mods
        /\ \A flag \in Flags :
             UpdatedModifiers(k, p)[flag] <=> IF k \in Pair(flag) THEN p ELSE MODIFIERS[flag]
    BY <2>2, <2>3, Updated, Zenon
  <2>5. MODIFIERS' = UpdatedModifiers(k, p)
    BY <2>1 DEF p
  <2>6. /\ MODIFIERS' \in Mods
        /\ \A flag \in Flags :
             MODIFIERS'[flag] <=> IF k \in Pair(flag) THEN p ELSE MODIFIERS[flag]
    BY <2>4, <2>5, Zenon
  <2> QED
    BY <2>6 DEF p
<1>9. \A flag \in Flags : MODIFIERS'[flag] <=>
        UpAfter(MODIFIERS[flag], EXTENDED_KEY, wire[1].byte, Pair(flag))
  BY <1>3, <1>8 DEF UpAfter, byte
<1>10. /\ TypedWire' /\ WholeKeys' /\ WireSettles'
       /\ \A flag \in Flags : Exact(flag) => Agrees(MODIFIERS'[flag], wire[1].held, Pair(flag), use.keys)
  <2>1. EXTENDED_KEY' \in BOOLEAN /\ (EXTENDED_KEY' <=> wire[1].byte = E0)
    BY <1>2, <1>3
  <2> QED
    BY <1>1, <1>2, <1>3, <1>8, <1>9, <2>1, TakeKeeps
<1>11. AsStruck([event |-> e, held |-> wire[1].held])
  BY <1>5, <1>10 DEF AsStruck
<1>12. Buffered'
  BY <1>1, <1>2, <1>6, <1>11, BufferKeeps
<1> QED
  BY <1>10, <1>12 DEF ModifierInv

\* Every step keeps what is known of the flags.
LEMMA NextModifiers ==
  ASSUME ModifierInv, [Next]_vars
  PROVE  ModifierInv'
<1>1. TypedWire /\ WholeKeys /\ WireSettles /\ Buffered
  BY DEF ModifierInv
<1>2. ASSUME NEW key \in use.keys, Press(key) \/ Repeat(key) \/ Release(key)
      PROVE  ModifierInv'
  <2>1. UNCHANGED <<use, EXTENDED_KEY, MODIFIERS>> /\ KEYBOARD_BUF' = KEYBOARD_BUF
    BY <1>2 DEF Press, Repeat, Release, driver
  <2>2. CASE Press(key)
    <3>1. held' = (IF 0 = 0 THEN held \cup {key} ELSE held \ {key}) /\ Send(BytesOf(key, 0), held')
      BY <2>2 DEF Press
    <3> QED
      BY <1>1, <2>1, <3>1, SendKeeps, BufferKeeps DEF ModifierInv
  <2>3. CASE Repeat(key)
    <3>1. held' = held /\ key \in held /\ Send(BytesOf(key, 0), held)
      BY <2>3 DEF Repeat
    <3>2. held' = (IF 0 = 0 THEN held \cup {key} ELSE held \ {key}) /\ Send(BytesOf(key, 0), held')
      BY <3>1
    <3> QED
      BY <1>1, <2>1, <3>2, SendKeeps, BufferKeeps DEF ModifierInv
  <2>4. CASE Release(key)
    <3>1. held' = (IF 128 = 0 THEN held \cup {key} ELSE held \ {key}) /\ Send(BytesOf(key, 128), held')
      BY <2>4 DEF Release
    <3> QED
      BY <1>1, <2>1, <3>1, SendKeeps, BufferKeeps DEF ModifierInv
  <2> QED
    BY <1>2, <2>2, <2>3, <2>4
<1>3. CASE HandlePrefix
  <2>1. /\ wire # << >> /\ wire' = Tail(wire) /\ Head(wire).byte = E0 /\ EXTENDED_KEY' = TRUE
        /\ use' = use /\ held' = held /\ MODIFIERS' = MODIFIERS /\ KEYBOARD_BUF' = KEYBOARD_BUF
    BY <1>3 DEF HandlePrefix
  <2>2. Head(wire) = wire[1] /\ wire[1].byte = E0
    BY <1>1, <2>1 DEF TypedWire
  <2>3. \A flag \in Flags : MODIFIERS'[flag] <=>
          UpAfter(MODIFIERS[flag], EXTENDED_KEY, wire[1].byte, Pair(flag))
    BY <2>1, <2>2 DEF UpAfter
  <2>4. EXTENDED_KEY' \in BOOLEAN /\ (EXTENDED_KEY' <=> wire[1].byte = E0) /\ MODIFIERS' \in Mods
    BY <1>1, <2>1, <2>2 DEF TypedWire
  <2>5. TypedWire' /\ WholeKeys' /\ WireSettles'
    BY <1>1, <2>1, <2>3, <2>4, TakeKeeps
  <2> QED
    BY <1>1, <2>1, <2>5, BufferKeeps DEF ModifierInv
<1>4. CASE HandleByte
  BY <1>4, ByteKeeps
<1>5. ASSUME UNCHANGED <<use, held, wire, EXTENDED_KEY, MODIFIERS>>,
             \/ KEYBOARD_BUF' = KEYBOARD_BUF
             \/ KEYBOARD_BUF # << >> /\ KEYBOARD_BUF' = Tail(KEYBOARD_BUF)
      PROVE  ModifierInv'
  <2>1. Buffered'
    BY <1>1, <1>5, BufferKeeps
  <2>2. TypedWire' /\ WholeKeys'
    BY <1>1, <1>5 DEF TypedWire, WholeKeys
  <2>3. WireSettles'
    BY <1>1, <1>5 DEF WireSettles, Exact
  <2> QED
    BY <2>1, <2>2, <2>3 DEF ModifierInv
<1>6. CASE Lock \/ Spin \/ UNCHANGED vars \/ \E c \in use.calls : Call(c)
  BY <1>5, <1>6 DEF Lock, Spin, Call, vars, driver
<1>7. CASE Pop
  <2>1. UNCHANGED <<use, held, wire, EXTENDED_KEY, MODIFIERS>>
    BY <1>7 DEF Pop
  <2>2. \/ KEYBOARD_BUF' = KEYBOARD_BUF
        \/ KEYBOARD_BUF # << >> /\ KEYBOARD_BUF' = Tail(KEYBOARD_BUF)
    BY <1>7 DEF Pop
  <2> QED
    BY <1>5, <2>1, <2>2
<1> QED
  BY <1>2, <1>3, <1>4, <1>6, <1>7 DEF Next, handle_interrupt

\* It holds before anybody types.
LEMMA InitModifiers == Init => ModifierInv
<1> SUFFICES ASSUME Init PROVE ModifierInv
  OBVIOUS
<1>1. TypedWire
  <2>1. NoModifiers \in Mods
    BY DEF NoModifiers, Mods
  <2>2. << >> \in Seq(WireByte)
    OBVIOUS
  <2> QED
    BY <2>1, <2>2 DEF Init, TypedWire
<1>2. WholeKeys
  BY DEF Init, WholeKeys, PrefixBefore
<1>3. WireSettles
  <2> SUFFICES ASSUME NEW flag \in Flags
               PROVE  Settles(wire, EXTENDED_KEY, MODIFIERS[flag], held, Pair(flag), use.keys, Exact(flag))
    BY DEF WireSettles
  <2>1. wire = << >> /\ Len(wire) = 0 /\ held = {} /\ ~ MODIFIERS[flag]
    BY DEF Init, NoModifiers, Flags
  <2>2. Replay(wire, EXTENDED_KEY, MODIFIERS[flag], {}, Pair(flag))
    BY <2>1 DEF Replay
  <2>3. Agrees(Len(wire) \in {}, held, Pair(flag), use.keys)
    BY <2>1 DEF Agrees
  <2> QED
    BY <2>1, <2>2, <2>3 DEF Settles
<1>4. Buffered
  <2>1. KEYBOARD_BUF \in Seq({})
    BY DEF Init
  <2> QED
    BY <2>1 DEF Buffered
<1> QED
  BY <1>1, <1>2, <1>3, <1>4 DEF ModifierInv

\* No modifier gets stuck, for every set of keys in use, however many bytes
\* wait on the wire and however many events a full buffer loses.
THEOREM ModifiersCorrect == Spec => []NoStuckModifier
<1>1. ModifierInv => NoStuckModifier
  <2> SUFFICES ASSUME ModifierInv, wire = << >> PROVE
        /\ MODIFIERS.shift => held \cap Shift # {}
        /\ MODIFIERS.ctrl  => held \cap Ctrl  # {}
        /\ MODIFIERS.alt   => held \cap Alt   # {}
    BY DEF NoStuckModifier
  <2>1. \A flag \in Flags : MODIFIERS[flag] => held \cap Pair(flag) # {}
    <3> SUFFICES ASSUME NEW flag \in Flags PROVE MODIFIERS[flag] => held \cap Pair(flag) # {}
      OBVIOUS
    <3>1. Settles(wire, EXTENDED_KEY, MODIFIERS[flag], held, Pair(flag), use.keys, Exact(flag))
      BY DEF ModifierInv, WireSettles
    <3>2. Len(wire) = 0
      OBVIOUS
    <3> QED
      BY <3>1, <3>2 DEF Settles, Replay, Agrees
  <2>2. /\ "shift" \in Flags /\ "ctrl" \in Flags /\ "alt" \in Flags
        /\ Pair("shift") = Shift /\ Pair("ctrl") = Ctrl /\ Pair("alt") = Alt
    BY DEF Flags, Pair
  <2> QED
    BY <2>1, <2>2
<1> QED
  BY <1>1, InitModifiers, NextModifiers, PTL DEF Spec

\* An event keeps the modifiers of the moment its key was struck, for every
\* set of keys in use and every delay of the interrupt and of the reader.
THEOREM EventsCorrect == Spec => []TypedAsStruck
<1>1. ModifierInv => TypedAsStruck
  <2> SUFFICES ASSUME ModifierInv PROVE TypedAsStruck
    OBVIOUS
  <2>1. PICK S : KEYBOARD_BUF \in Seq(S) /\ \A e \in S : AsStruck(e)
    BY DEF ModifierInv, Buffered
  <2>2. \A i \in DOMAIN KEYBOARD_BUF : AsStruck(KEYBOARD_BUF[i])
    BY <2>1
  <2>3. /\ "shift" \in Flags /\ "ctrl" \in Flags /\ "alt" \in Flags
        /\ Pair("shift") = Shift /\ Pair("ctrl") = Ctrl /\ Pair("alt") = Alt
    BY DEF Flags, Pair
  <2>4. Exact("shift") /\ Exact("alt") /\ ("Pause" \notin use.keys => Exact("ctrl"))
    BY DEF Exact
  <2> QED
    BY <2>2, <2>3, <2>4 DEF TypedAsStruck, AsStruck, Agrees
<1> QED
  BY <1>1, InitModifiers, NextModifiers, PTL DEF Spec
=============================================================================
