----------------------------- MODULE LogPromise -----------------------------
(***************************************************************************)
(* What the event log promises to its readers.  A record that stands on a  *)
(* line of its own is found from then on, whatever else is appended, cut   *)
(* short or given up; one whose newline is missing is found until          *)
(* something else follows it.  The promise ends with a line that was cut   *)
(* inside a character: readers raise until the rest of that very line is   *)
(* written, and for good once anything else is.  Whether a record gets     *)
(* there at all is not promised.                                           *)
(***************************************************************************)

VARIABLES
  asked,   \* the records handed to append
  kept,    \* those on a line of their own
  tail,    \* the one on a last line that has no newline yet, if any
  torn,    \* the one whose last piece ends inside a character, if any
  lost     \* whether the file can never be decoded again

lvars == <<asked, kept, tail, torn, lost>>

LogInit == asked = {} /\ kept = {} /\ tail = {} /\ torn = {} /\ lost = FALSE

\* What a reader finds; nothing where it raises.
Found == IF lost \/ torn # {} THEN {} ELSE kept \cup tail

Ask(r) ==
  /\ asked' = asked \cup {r}
  /\ UNCHANGED <<kept, tail, torn, lost>>

\* Only its own rest may follow a line that was torn.
MayFollow(r) == r \in asked /\ ~lost /\ torn \subseteq {r}

Keep(r) ==
  /\ MayFollow(r) /\ tail \subseteq {r}
  /\ kept' = kept \cup {r} /\ tail' = {} /\ torn' = {}
  /\ UNCHANGED <<asked, lost>>

\* All but the newline, or something that no line of its own comes of.
Hang(r) ==
  /\ MayFollow(r)
  /\ tail' \subseteq {r} /\ (tail' # {} => tail \subseteq {r})
  /\ torn' = {}
  /\ UNCHANGED <<asked, kept, lost>>

Tear(r) ==
  /\ MayFollow(r)
  /\ tail' = {} /\ torn' = {r}
  /\ UNCHANGED <<asked, kept, lost>>

\* Something else follows it; lines are still written, but no reader finds them.
Lose ==
  /\ lost \/ torn # {}
  /\ lost' = TRUE /\ kept' \cup tail' \cup torn' \subseteq asked
  /\ UNCHANGED asked

LogNext == (\E r \in asked' : Ask(r) \/ Keep(r) \/ Hang(r) \/ Tear(r)) \/ Lose

LogSpec == LogInit /\ [][LogNext]_lvars
=============================================================================
