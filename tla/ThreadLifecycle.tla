-------------------------- MODULE ThreadLifecycle --------------------------
(***************************************************************************)
(* What a client that makes one call at a time sees of a workflow when it  *)
(* polls GET /workflows/{id}: it only moves forward, and an approved one   *)
(* is eventually completed.                                                *)
(***************************************************************************)
CONSTANT Workflows

VARIABLE stage

Init == stage = [w \in Workflows |-> "unknown"]

Move(w, from, to) == stage[w] = from /\ stage' = [stage EXCEPT ![w] = to]

Start(w)    == Move(w, "unknown", "started")
Fail(w)     == Move(w, "started", "failed")
Park(w)     == Move(w, "started", "waiting")
Approve(w)  == Move(w, "waiting", "approved")
Complete(w) == Move(w, "approved", "completed")

Next == \E w \in Workflows :
          Start(w) \/ Fail(w) \/ Park(w) \/ Approve(w) \/ Complete(w)

Safety == Init /\ [][Next]_stage

Spec == Safety /\ \A w \in Workflows : WF_stage(Complete(w))
=============================================================================
