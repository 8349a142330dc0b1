------------------------------ MODULE OffsetLog ------------------------------
(***************************************************************************)
(* What the log promises its users, without files, maps or threads: an     *)
(* immutable log.  Offsets are given out one after the other; the payload  *)
(* of an offset is fixed when the offset is given out; an offset becomes   *)
(* visible to consumers once, in any order, and never disappears again.    *)
(***************************************************************************)
EXTENDS Integers

CONSTANT Payloads

VARIABLES
  next,      \* the next offset to be given out
  entries,   \* offset -> payload, for the offsets below next
  visible    \* the offsets a consumer can read

logVars == <<next, entries, visible>>

Init ==
  /\ next = 0
  /\ entries = [i \in {} |-> CHOOSE p \in Payloads : TRUE]
  /\ visible = {}

Reserve(p) ==
  /\ next' = next + 1
  /\ entries' = [i \in DOMAIN entries \cup {next} |-> IF i = next THEN p ELSE entries[i]]
  /\ UNCHANGED visible

Publish(i) ==
  /\ visible' = visible \cup {i}
  /\ UNCHANGED <<next, entries>>

Next ==
  \/ \E p \in Payloads : Reserve(p)
  \/ \E i \in DOMAIN entries \ visible : Publish(i)

Spec == Init /\ [][Next]_logVars
=============================================================================
