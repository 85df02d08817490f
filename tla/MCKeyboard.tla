----------------------------- MODULE MCKeyboard -----------------------------
(***************************************************************************)
(* A buffer of two events and three ways to use the keyboard; and each key *)
(* of the tables by itself.                                                *)
(***************************************************************************)
EXTENDS Keyboard

mcUses ==
  { \* A letter, a modifier and a key with a prefix.
    [keys |-> {"A", "LeftShift", "RightCtrl"}, calls |-> {"read_key"}, wire |-> 2],
    \* Keys whose bytes contain modifiers nobody pressed, a shift key, and
    \* nobody who reads.
    [keys |-> {"PrintScreen", "Pause", "LeftShift"}, calls |-> {}, wire |-> 6],
    \* A key with a character and one without.
    [keys |-> {"A", "F1"}, calls |-> {"read_key", "read_char", "get_char"}, wire |-> 2] }
  \cup {[keys |-> {key}, calls |-> {}, wire |-> 2] : key \in KeyCode \ {"Unknown"}}
=============================================================================
