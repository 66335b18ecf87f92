--------------------------- MODULE TaskLifecycle ---------------------------
(***************************************************************************)
(* What a client of DevOrchestratorService that makes one call at a time   *)
(* and approves only what waits for it is promised of a task: it comes to  *)
(* a review or fails; an approved one is delivered by one commit; and a    *)
(* second start never runs it again, but costs it the review it waited for *)
(* or the result it had.                                                   *)
(***************************************************************************)
EXTENDS Naturals

VARIABLES stage, commits

vars == <<stage, commits>>

Init == stage = "none" /\ commits = 0

Move(from, to) == stage \in from /\ stage' = to

Start   == Move({"none"}, "running") /\ UNCHANGED commits
Review  == Move({"running"}, "review") /\ UNCHANGED commits
Fail    == Move({"running"}, "failed") /\ UNCHANGED commits
Approve == Move({"review"}, "approved") /\ UNCHANGED commits
Commit  == stage = "approved" /\ commits = 0 /\ commits' = 1 /\ UNCHANGED stage
Deliver == commits = 1 /\ Move({"approved"}, "delivered") /\ UNCHANGED commits
Restart == Move({"review", "failed", "delivered"}, "lost") /\ UNCHANGED commits

Next == Start \/ Review \/ Fail \/ Approve \/ Commit \/ Deliver \/ Restart

Safety == Init /\ [][Next]_vars

Spec == Safety /\ WF_vars(Review \/ Fail) /\ WF_vars(Commit) /\ WF_vars(Deliver)
=============================================================================
