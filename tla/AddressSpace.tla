---------------------------- MODULE AddressSpace ----------------------------
(***************************************************************************)
(* What an address space promises, with no tables: every address has a     *)
(* translation or none, one call changes the translations of one page, a   *)
(* call that fails changes none, and the fixed addresses never move.  The  *)
(* promise ends when somebody overwrites the tables that carry it.         *)
(***************************************************************************)
EXTENDS Integers

CONSTANTS
  Address,         \* the virtual addresses
  Fixed(_),        \* TRUE of the addresses whose translation is fixed
  FixedAt(_),      \* their translation
  SamePageAs(_,_), \* TRUE of two addresses of one page
  OffsetOf(_),     \* the offset of an address in its page
  Unmapped         \* the translation of an address that has none

VARIABLES
  space,     \* address -> physical address, or Unmapped
  kept       \* TRUE while the promise stands

Init == kept = TRUE /\ \A v \in Address : space[v] = Unmapped

Setup ==
  /\ \A v \in Address : space[v] = Unmapped
  /\ \A v \in Address :
       space'[v] = IF Fixed(v) THEN FixedAt(v) ELSE Unmapped

\* The page of v gets a frame, instead of the one it had if it had one.
Map(v) ==
  /\ ~ Fixed(v)
  /\ space'[v] # Unmapped
  /\ \A w \in Address :
       space'[w] = IF SamePageAs(v, w)
                   THEN space'[v] - OffsetOf(v) + OffsetOf(w) ELSE space[w]

Unmap(v) ==
  /\ ~ Fixed(v)
  /\ space[v] # Unmapped
  /\ \A w \in Address :
       space'[w] = IF SamePageAs(v, w) THEN Unmapped ELSE space[w]

\* Nothing is said of the translations from here on.
Lose == kept' = FALSE

Next ==
  \/ kept /\ kept' = TRUE /\ (Setup \/ \E v \in Address : Map(v) \/ Unmap(v))
  \/ Lose

Spec == Init /\ [][Next]_<<space, kept>>
=============================================================================
