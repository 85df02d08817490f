------------------------------ MODULE Keyboard ------------------------------
(***************************************************************************)
(* The keyboard driver of kernel/src/drivers/keyboard.rs between a PS/2    *)
(* keyboard, which puts bytes on the wire while keys go down and up, and a *)
(* reader in the kernel's main flow.                                       *)
(*                                                                         *)
(* handle_interrupt runs with interrupts off, so the reader sees it as one *)
(* step, unless it arrives while the reader holds the lock of              *)
(* KEYBOARD_BUF: then it never ends (wedged).                              *)
(***************************************************************************)
EXTENDS KeyTables

CONSTANTS
  CAP,       \* capacity of KEYBOARD_BUF, 100 in the code
  Uses       \* who uses the keyboard how, a set of records: the keys that are
             \* used (key codes, "PrintScreen", "Pause"), the calls the reader
             \* makes, and a bound on the bytes on the wire

ASSUME KeyboardAssumption ==
  /\ CAP \in Nat \ {0}
  /\ \A u \in Uses :
       /\ u.keys \subseteq (KeyCode \ {"Unknown"}) \cup {"PrintScreen", "Pause"}
       /\ u.calls \subseteq {"read_key", "read_char", "get_char"}
       /\ u.wire \in Nat

VARIABLES
  use,            \* one of Uses
  held,           \* the keys that are down
  wire,           \* bytes sent and not yet read, each with the modifier
                  \* keys that were down when it was sent: [byte, held]
  EXTENDED_KEY,
  MODIFIERS,
  KEYBOARD_BUF,   \* key events, each with the same history: [event, held]
  pc,             \* reader: "idle", or what it calls, or "locked" in it
  call,           \* what the reader called last
  result,         \* what that returned, of an event its key
  wedged          \* the interrupt handler waits for the reader's lock

driver == <<EXTENDED_KEY, MODIFIERS, KEYBOARD_BUF>>
reader == <<pc, call, result>>
vars   == <<use, held, wire, driver, reader, wedged>>

NoModifiers == [shift |-> FALSE, ctrl |-> FALSE, alt |-> FALSE,
                caps_lock |-> FALSE, num_lock |-> FALSE]

Shift == {"LeftShift", "RightShift"}
Ctrl  == {"LeftCtrl", "RightCtrl"}
Alt   == {"LeftAlt", "RightAlt"}

Init ==
  /\ use \in Uses
  /\ held = {} /\ wire = << >>
  /\ EXTENDED_KEY = FALSE
  /\ MODIFIERS = NoModifiers
  /\ KEYBOARD_BUF = << >>
  /\ pc = "idle" /\ call = NoChar /\ result = NoChar
  /\ wedged = FALSE

----------------------------------------------------------------------------
(* The keyboard.                                                           *)

E0 == 224
E1 == 225

\* The code of a key, and whether it is sent with the prefix E0.
HasPrefix(key) == \E row \in Extended : row[2] = key

CodeOf(key) ==
  IF HasPrefix(key) THEN (CHOOSE row \in Extended : row[2] = key)[1]
  ELSE IF key = "F11" THEN 87 ELSE IF key = "F12" THEN 88
  ELSE CHOOSE code \in DOMAIN Plain : Plain[code] = key

\* The bytes a key sends when it goes down (release = 0) or up (128).
\* PrintScreen comes with a shift nobody pressed; Pause sends everything when
\* it goes down, and something else while a control key is down.
BytesOf(key, release) ==
  CASE key = "PrintScreen" ->
         IF release = 0 THEN <<E0, 42, E0, 55>> ELSE <<E0, 183, E0, 170>>
    [] key = "Pause" ->
         IF release # 0 THEN << >>
         ELSE IF held \cap {"LeftCtrl", "RightCtrl"} # {} THEN <<E0, 70, E0, 198>>
         ELSE <<E1, 29, 69, E1, 157, 197>>
    [] HasPrefix(key) -> <<E0, CodeOf(key) + release>>
    [] OTHER          -> <<CodeOf(key) + release>>

Send(bytes, down) ==
  /\ Len(wire) + Len(bytes) <= use.wire
  /\ wire' = wire \o [i \in DOMAIN bytes |-> [byte |-> bytes[i], held |-> down \cap (Shift \cup Ctrl \cup Alt)]]

Press(key) ==
  /\ key \notin held
  /\ held' = held \cup {key}
  /\ Send(BytesOf(key, 0), held')
  /\ UNCHANGED <<use, driver, reader, wedged>>

\* A key that is kept down repeats its code.
Repeat(key) ==
  /\ key \in held \ {"PrintScreen", "Pause"}
  /\ Send(BytesOf(key, 0), held)
  /\ UNCHANGED <<use, held, driver, reader, wedged>>

Release(key) ==
  /\ key \in held
  /\ held' = held \ {key}
  /\ Send(BytesOf(key, 128), held')
  /\ UNCHANGED <<use, driver, reader, wedged>>

----------------------------------------------------------------------------
(* The interrupt handler.                                                  *)

\* The prefix counts for one byte.
TakePrefix == EXTENDED_KEY' = FALSE

\* Mutant: while the buffer is full the modifiers stay as they are.
UpdatedModifiers_when_room(keycode, pressed) ==
  IF Len(KEYBOARD_BUF) >= CAP THEN MODIFIERS
  ELSE CASE keycode \in {"LeftShift", "RightShift"} -> [MODIFIERS EXCEPT !.shift = pressed]
    [] keycode \in {"LeftCtrl", "RightCtrl"}   -> [MODIFIERS EXCEPT !.ctrl = pressed]
    [] keycode \in {"LeftAlt", "RightAlt"}     -> [MODIFIERS EXCEPT !.alt = pressed]
    [] keycode = "CapsLock" /\ pressed         -> [MODIFIERS EXCEPT !.caps_lock = ~ @]
    [] keycode = "NumLock" /\ pressed          -> [MODIFIERS EXCEPT !.num_lock = ~ @]
    [] OTHER                                   -> MODIFIERS

\* The left and the right key of a pair share one flag.
UpdatedModifiers(keycode, pressed) ==
  CASE keycode \in {"LeftShift", "RightShift"} -> [MODIFIERS EXCEPT !.shift = pressed]
    [] keycode \in {"LeftCtrl", "RightCtrl"}   -> [MODIFIERS EXCEPT !.ctrl = pressed]
    [] keycode \in {"LeftAlt", "RightAlt"}     -> [MODIFIERS EXCEPT !.alt = pressed]
    [] keycode = "CapsLock" /\ pressed         -> [MODIFIERS EXCEPT !.caps_lock = ~ @]
    [] keycode = "NumLock" /\ pressed          -> [MODIFIERS EXCEPT !.num_lock = ~ @]
    [] OTHER                                   -> MODIFIERS

\* Mutant: the modifiers are those before this event.
handle_scancode_before(scancode, extended) ==
  LET code == scancode % 128
  IN  [scancode |-> scancode, modifiers |-> MODIFIERS, pressed |-> scancode < 128,
       keycode |-> IF extended THEN extended_scancode_to_keycode(code)
                   ELSE scancode_to_keycode(code)]

\* The event of a byte.
handle_scancode(scancode, extended) ==
  LET pressed == scancode < 128
      code    == scancode % 128
      keycode == IF extended THEN extended_scancode_to_keycode(code)
                 ELSE scancode_to_keycode(code)
  IN  [scancode |-> scancode, keycode |-> keycode, pressed |-> pressed,
       modifiers |-> UpdatedModifiers(keycode, pressed)]

HasRoom == Len(KEYBOARD_BUF) < CAP

\* Mutant: a full buffer makes room by forgetting its oldest event.
Pushed_drops_oldest(event) ==
  Append(IF HasRoom THEN KEYBOARD_BUF ELSE Tail(KEYBOARD_BUF), event)

\* A full buffer loses the new event.
Pushed(event) == IF HasRoom THEN Append(KEYBOARD_BUF, event) ELSE KEYBOARD_BUF

\* handle_interrupt: the byte E0 is only remembered; any other byte becomes
\* an event, which is lost when the buffer is full.
HandlePrefix ==
  /\ wire # << >> /\ ~ wedged
  /\ Head(wire).byte = E0
  /\ wire' = Tail(wire)
  /\ EXTENDED_KEY' = TRUE
  /\ UNCHANGED <<use, held, MODIFIERS, KEYBOARD_BUF, reader, wedged>>

\* Mutant: nothing is read from the port while the buffer is full.
HandleByte_full_first ==
  /\ wire # << >> /\ ~ wedged /\ pc # "locked"
  /\ Head(wire).byte # E0
  /\ HasRoom
  /\ wire' = Tail(wire)
  /\ TakePrefix
  /\ LET event == handle_scancode(Head(wire).byte, EXTENDED_KEY)
     IN  /\ MODIFIERS' = event.modifiers
         /\ KEYBOARD_BUF' = Pushed([event |-> event, held |-> Head(wire).held])
  /\ UNCHANGED <<use, held, reader, wedged>>

HandleByte ==
  /\ wire # << >> /\ ~ wedged
  /\ Head(wire).byte # E0
  /\ wire' = Tail(wire)
  /\ TakePrefix
  /\ LET event == handle_scancode(Head(wire).byte, EXTENDED_KEY)
     IN  /\ MODIFIERS' = event.modifiers
         /\ IF pc = "locked"
            THEN wedged' = TRUE /\ UNCHANGED KEYBOARD_BUF
            ELSE /\ KEYBOARD_BUF' = Pushed([event |-> event, held |-> Head(wire).held])
                 /\ UNCHANGED wedged
  /\ UNCHANGED <<use, held, reader>>

handle_interrupt == HandlePrefix \/ HandleByte

----------------------------------------------------------------------------
(* The reader: read_key, read_char and get_char, which calls read_key      *)
(* until an event has a character or the buffer is empty.                  *)

Call(c) ==
  /\ pc = "idle" /\ ~ wedged
  /\ call' = c
  /\ pc' = "calling"
  /\ result' = NoChar
  /\ UNCHANGED <<use, held, wire, driver, wedged>>

Lock ==
  /\ pc = "calling" /\ ~ wedged
  /\ pc' = "locked"
  /\ UNCHANGED <<use, held, wire, driver, call, result, wedged>>

\* What becomes of the event that was popped.
Answer(event) ==
  /\ pc' = IF call = "get_char" /\ keyevent_to_char(event) = NoChar
           THEN "calling" ELSE "idle"
  /\ result' = IF call = "read_key" THEN event.keycode ELSE keyevent_to_char(event)

\* pop_front and unlock.
Pop ==
  /\ pc = "locked" /\ ~ wedged
  /\ IF KEYBOARD_BUF = << >>
     THEN /\ pc' = "idle"
          /\ result' = NoChar
          /\ UNCHANGED KEYBOARD_BUF
     ELSE /\ Answer(Head(KEYBOARD_BUF).event)
          /\ KEYBOARD_BUF' = Tail(KEYBOARD_BUF)
  /\ UNCHANGED <<use, held, wire, EXTENDED_KEY, MODIFIERS, call, wedged>>

\* The handler spins with interrupts off; the reader does not run again.
Spin == wedged /\ UNCHANGED vars

Next ==
  \/ \E key \in use.keys : Press(key) \/ Repeat(key) \/ Release(key)
  \/ handle_interrupt
  \/ \E c \in use.calls : Call(c)
  \/ Lock \/ Pop
  \/ Spin

\* Interrupts are delivered and the reader runs; nobody has to type.
Fairness == WF_vars(handle_interrupt) /\ WF_vars(Lock) /\ WF_vars(Pop)

Spec == Init /\ [][Next]_vars /\ Fairness

----------------------------------------------------------------------------
(* Properties.                                                             *)

\* No modifier gets stuck: once all bytes are handled a flag is up only while
\* one of its keys is down, whatever prefixes, artificial shifts and dropped
\* events came before.
NoStuckModifier ==
  wire = << >> =>
    /\ MODIFIERS.shift => held \cap Shift # {}
    /\ MODIFIERS.ctrl  => held \cap Ctrl  # {}
    /\ MODIFIERS.alt   => held \cap Alt   # {}

\* An event keeps the modifiers of the moment its key was struck, however
\* late its interrupt was handled and however late it is read.  (Releasing
\* one of two shift keys clears the flag, so the converse needs that only one
\* of them is in use.)
TypedAsStruck ==
  \A i \in DOMAIN KEYBOARD_BUF :
    LET modifiers == KEYBOARD_BUF[i].event.modifiers
        down      == KEYBOARD_BUF[i].held
        agree(flag, pair) ==
          /\ modifiers[flag] => down \cap pair # {}
          /\ ~ pair \subseteq use.keys /\ down \cap pair # {} => modifiers[flag]
    IN  /\ agree("shift", Shift)
        /\ agree("alt", Alt)
        /\ "Pause" \notin use.keys => agree("ctrl", Ctrl)

\* Every key that is used has exactly one scan code in the tables, so no key
\* is dead and no two keys are taken for each other.
EveryKeyHasOneCode ==
  \A key \in use.keys \cap KeyCode : Cardinality(CodesOf[key]) = 1

\* The buffer is a bounded queue: the handler appends to it while there is
\* room, no event in it is lost or overtaken, the reader removes its head,
\* and get_char gives up only when no event is left.
BufferIsQueue ==
  [][/\ Len(KEYBOARD_BUF') <= CAP
     /\ IF pc = "locked" /\ pc' # "locked"
        THEN /\ KEYBOARD_BUF' = (IF KEYBOARD_BUF = << >> THEN << >> ELSE Tail(KEYBOARD_BUF))
             /\ call = "get_char" /\ pc' = "idle" /\ result' = NoChar
                  => KEYBOARD_BUF' = << >>
        ELSE IsPrefix(KEYBOARD_BUF, KEYBOARD_BUF')]_vars

\* Every byte on the wire is handled in the end: from any moment on the handler
\* takes the first byte again and again, or the wire is empty for good, or the
\* handler spins on the lock of the reader it interrupted.  Nothing else (a full
\* buffer, a prefix that waits for its byte, a reader that does not call) keeps
\* a byte waiting.
BytesAreHandled ==
  []<><<handle_interrupt>>_vars \/ <>[](wire = << >> \/ wedged)
=============================================================================
