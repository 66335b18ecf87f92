---------------------------- MODULE ApprovalGate ----------------------------
(***************************************************************************)
(* What the workflow API promises of every workflow, whatever its requests *)
(* and its crashes do: nothing is written before a human granted what they *)
(* were asked, nothing is announced before it is written, and none of it   *)
(* is ever taken back.                                                     *)
(***************************************************************************)
CONSTANT Workflows

VARIABLES asked, approved, written, announced   \* sets of workflows

Init == asked = {} /\ approved = {} /\ written = {} /\ announced = {}

Ask(w) ==
  /\ asked' = asked \cup {w}
  /\ UNCHANGED <<approved, written, announced>>

Approve(w) ==
  /\ w \in asked
  /\ approved' = approved \cup {w}
  /\ UNCHANGED <<asked, written, announced>>

Write(w) ==
  /\ w \in approved
  /\ written' = written \cup {w}
  /\ UNCHANGED <<asked, approved, announced>>

Announce(w) ==
  /\ w \in written
  /\ announced' = announced \cup {w}
  /\ UNCHANGED <<asked, approved, written>>

Next == \E w \in Workflows : Ask(w) \/ Approve(w) \/ Write(w) \/ Announce(w)

Spec == Init /\ [][Next]_<<asked, approved, written, announced>>
=============================================================================
