----------------------------- MODULE KeyTables -----------------------------
(***************************************************************************)
(* The decoding tables of kernel/src/drivers/keyboard.rs: scan code set 1  *)
(* to key codes, and key events to characters.  Bytes are numbers, keys    *)
(* and characters are strings used as names; NoChar stands for None.       *)
(***************************************************************************)
EXTENDS Integers, Sequences, SequencesExt

CONSTANT NoChar

Letters ==
  <<"A", "B", "C", "D", "E", "F", "G", "H", "I", "J", "K", "L", "M",
    "N", "O", "P", "Q", "R", "S", "T", "U", "V", "W", "X", "Y", "Z">>

LowerCase ==
  <<"a", "b", "c", "d", "e", "f", "g", "h", "i", "j", "k", "l", "m",
    "n", "o", "p", "q", "r", "s", "t", "u", "v", "w", "x", "y", "z">>

KeyCode ==
  ToSet(Letters) \cup
  {"Unknown",
   "Key0", "Key1", "Key2", "Key3", "Key4", "Key5", "Key6", "Key7", "Key8", "Key9",
   "F1", "F2", "F3", "F4", "F5", "F6", "F7", "F8", "F9", "F10", "F11", "F12",
   "Escape", "Tab", "CapsLock", "LeftShift", "RightShift", "LeftCtrl", "RightCtrl",
   "LeftAlt", "RightAlt", "Space", "Enter", "Backspace", "Delete", "Insert", "Home",
   "End", "PageUp", "PageDown", "Up", "Down", "Left", "Right",
   "Minus", "Equals", "LeftBracket", "RightBracket", "Backslash", "Semicolon",
   "Quote", "Grave", "Comma", "Period", "Slash",
   "NumLock", "ScrollLock", "Keypad0", "Keypad1", "Keypad2", "Keypad3", "Keypad4",
   "Keypad5", "Keypad6", "Keypad7", "Keypad8", "Keypad9", "KeypadPlus",
   "KeypadMinus", "KeypadMultiply", "KeypadDivide", "KeypadEnter", "KeypadPeriod"}

----------------------------------------------------------------------------
(* Scan codes, without the release bit.                                    *)

Extended ==
  { <<28, "KeypadEnter">>, <<29, "RightCtrl">>, <<53, "KeypadDivide">>,
    <<56, "RightAlt">>, <<71, "Home">>, <<72, "Up">>, <<73, "PageUp">>,
    <<75, "Left">>, <<77, "Right">>, <<79, "End">>, <<80, "Down">>,
    <<81, "PageDown">>, <<82, "Insert">>, <<83, "Delete">> }

extended_scancode_to_keycode(code) ==
  IF \E row \in Extended : row[1] = code
  THEN (CHOOSE row \in Extended : row[1] = code)[2] ELSE "Unknown"

\* The keys of the codes 1, 2, 3, ...
Plain ==
  <<"Escape", "Key1", "Key2", "Key3", "Key4", "Key5", "Key6", "Key7", "Key8",
    "Key9", "Key0", "Minus", "Equals", "Backspace", "Tab",
    "Q", "W", "E", "R", "T", "Y", "U", "I", "O", "P", "LeftBracket",
    "RightBracket", "Enter", "LeftCtrl",
    "A", "S", "D", "F", "G", "H", "J", "K", "L", "Semicolon", "Quote", "Grave",
    "LeftShift", "Backslash",
    "Z", "X", "C", "V", "B", "N", "M", "Comma", "Period", "Slash", "RightShift",
    "KeypadMultiply", "LeftAlt", "Space", "CapsLock",
    "F1", "F2", "F3", "F4", "F5", "F6", "F7", "F8", "F9", "F10",
    "NumLock", "ScrollLock",
    "Keypad7", "Keypad8", "Keypad9", "KeypadMinus",
    "Keypad4", "Keypad5", "Keypad6", "KeypadPlus",
    "Keypad1", "Keypad2", "Keypad3", "Keypad0", "KeypadPeriod">>

\* Mutant: the row of the right shift key is missing.
scancode_to_keycode_missing(code) ==
  IF code \in DOMAIN Plain /\ code # 54 THEN Plain[code]
  ELSE IF code = 87 THEN "F11" ELSE IF code = 88 THEN "F12" ELSE "Unknown"

scancode_to_keycode(code) ==
  IF code \in DOMAIN Plain THEN Plain[code]
  ELSE IF code = 87 THEN "F11" ELSE IF code = 88 THEN "F12" ELSE "Unknown"

----------------------------------------------------------------------------
(* Characters.                                                             *)

\* Keys with two characters: without and with shift.
Symbols ==
  { <<"Key0", "0", ")">>, <<"Key1", "1", "!">>, <<"Key2", "2", "@">>,
    <<"Key3", "3", "#">>, <<"Key4", "4", "$">>, <<"Key5", "5", "%">>,
    <<"Key6", "6", "^">>, <<"Key7", "7", "&">>, <<"Key8", "8", "*">>,
    <<"Key9", "9", "(">>, <<"Minus", "-", "_">>, <<"Equals", "=", "+">>,
    <<"LeftBracket", "[", "{">>, <<"RightBracket", "]", "}">>,
    <<"Backslash", "BACKSLASH", "|">>, <<"Semicolon", ";", ":">>,
    <<"Quote", "QUOTE", "DOUBLE QUOTE">>, <<"Grave", "BACKQUOTE", "~">>, <<"Comma", ",", "<">>,
    <<"Period", ".", ">">>, <<"Slash", "/", "?">> }

\* Keys with one character.
Fixed ==
  { <<"Space", " ">>, <<"Enter", "LF">>, <<"Tab", "TAB">>, <<"Backspace", "BS">>,
    <<"Escape", "ESC">>, <<"Delete", "DEL">>,
    <<"Keypad0", "0">>, <<"Keypad1", "1">>, <<"Keypad2", "2">>,
    <<"Keypad3", "3">>, <<"Keypad4", "4">>, <<"Keypad5", "5">>,
    <<"Keypad6", "6">>, <<"Keypad7", "7">>, <<"Keypad8", "8">>,
    <<"Keypad9", "9">>, <<"KeypadPlus", "+">>, <<"KeypadMinus", "-">>,
    <<"KeypadMultiply", "*">>, <<"KeypadDivide", "/">>, <<"KeypadEnter", "LF">>,
    <<"KeypadPeriod", ".">> }

RowOf(table, key) == CHOOSE row \in table : row[1] = key

Has(table, key) == \E row \in table : row[1] = key

\* Caps lock turns shift around for letters; num lock is not looked at.
keyevent_to_char(event) ==
  LET shift == event.modifiers.shift # event.modifiers.caps_lock
      key   == event.keycode
  IN  IF ~ event.pressed THEN NoChar
      ELSE IF Contains(Letters, key)
      THEN LET i == SelectInSeq(Letters, LAMBDA x : x = key)
           IN  IF shift THEN Letters[i] ELSE LowerCase[i]
      ELSE IF Has(Symbols, key)
      THEN RowOf(Symbols, key)[IF event.modifiers.shift THEN 3 ELSE 2]
      ELSE IF Has(Fixed, key) THEN RowOf(Fixed, key)[2]
      ELSE NoChar
----------------------------------------------------------------------------
\* The codes of each key, as pairs of prefix and code.
CodesOf ==
  LET Key(x) == IF x[1] THEN extended_scancode_to_keycode(x[2])
                ELSE scancode_to_keycode(x[2])
  IN  [key \in KeyCode |-> {x \in BOOLEAN \X (0 .. 127) : Key(x) = key}]
=============================================================================
