----------------------------- MODULE FramePool ------------------------------
(***************************************************************************)
(* What a physical frame allocator promises its callers, with no bitmap,   *)
(* hint or counter: a pool of frames fit to be handed out and the set of   *)
(* frames callers hold.  A frame is never given to two callers, a request  *)
(* for one frame is refused only when the pool is empty, and a frame that  *)
(* is given back can be given again.  A request for a run of frames may be *)
(* refused at any time.  All this is promised as long as callers keep the  *)
(* rule to give back only what they hold, and nothing after that.          *)
(***************************************************************************)
EXTENDS Integers

CONSTANTS
  Frame,    \* the frames that exist
  NoFrame   \* the answer to a refused request

VARIABLES
  pool,     \* frames that can be handed out
  held,     \* frames handed out and not given back
  answer,   \* the last request: its kind, and the first frame given
  kept      \* callers have kept the rule so far

poolVars == <<pool, held, answer, kept>>

Init ==
  /\ pool = {}
  /\ held = {}
  /\ answer = <<"one", NoFrame>>
  /\ kept = TRUE

\* The boot memory map fixes the pool, before any frame is held.
Fill(frames) ==
  /\ pool = {} /\ held = {}
  /\ pool' = frames
  /\ UNCHANGED <<held, answer>>

\* Give the frames first .. last, all from the pool.
Give(kind, first, last) ==
  /\ first <= last
  /\ kind = "one" => first = last
  /\ first .. last \subseteq pool
  /\ pool' = pool \ (first .. last)
  /\ held' = held \cup (first .. last)
  /\ answer' = <<kind, first>>

\* One frame is refused only when there is none.
Refuse(kind) ==
  /\ kind = "one" => pool = {}
  /\ answer' = <<kind, NoFrame>>
  /\ UNCHANGED <<pool, held>>

\* Callers give back frames they hold.
TakeBack(frames) ==
  /\ frames \subseteq held
  /\ pool' = pool \cup frames
  /\ held' = held \ frames
  /\ UNCHANGED answer

Promise ==
  \/ \E frames \in SUBSET Frame : Fill(frames) \/ TakeBack(frames)
  \/ \E kind \in {"one", "run"} :
       \/ Refuse(kind)
       \/ \E first, last \in Frame : Give(kind, first, last)

\* The rule is broken, or was: it does not come back.
NoPromise == ~ kept'

Next ==
  \/ kept /\ kept' /\ Promise
  \/ NoPromise

Spec == Init /\ [][Next]_poolVars
=============================================================================
