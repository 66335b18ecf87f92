-------------------------- MODULE SharedRunsProofs --------------------------
(***************************************************************************)
(* Proofs about SharedRuns, for any runs, any short ids and any bounds:    *)
(* runs never share a worktree or a commit, and what a run delivered stays *)
(* on its branch.                                                          *)
(***************************************************************************)
EXTENDS SharedRuns, TLAPS

\* Steps that leave the repository and the outcomes alone: they may take a run out
\* of the nodes that need a worktree, but not into them, and a run in them may have
\* its gates decided again.
LEMMA RepoUntouched ==
  ASSUME RepoInv,
         pc' \in [Runs -> PCs],
         \A r \in Runs : pc'[r] \in AtWork => pc[r] \in AtWork,
         green' \in [Runs -> BOOLEAN],
         \A r \in Runs : pc[r] \notin AtWork => green'[r] = green[r],
         UNCHANGED <<repo, workspace, outcome>>
  PROVE  RepoInv'
PROOF
  <1>1. \A r \in Runs : pc[r] \in AtWork => workspace[r]
    BY DEF RepoInv, Isolated
  <1>2. RepoTypes' /\ Isolated' /\ Delivered' /\ OneOwner' /\ CleanWithoutWorktree'
    BY DEF RepoInv, RepoTypes, Isolated, Delivered, OneOwner, CleanWithoutWorktree, repo
  <1>3. CompletedIsOver'
    BY <1>1 DEF RepoInv, RepoTypes, CompletedIsOver, repo
  <1>4. QED
    BY <1>2, <1>3 DEF RepoInv

\* The same of one run that goes from one node to another.
LEMMA GotoUntouched ==
  ASSUME RepoInv,
         NEW r \in Runs, NEW to \in PCs,
         to \in AtWork => pc[r] \in AtWork,
         pc' = [pc EXCEPT ![r] = to],
         UNCHANGED <<repo, workspace, green, outcome>>
  PROVE  RepoInv'
PROOF
  <1>1. pc' \in [Runs -> PCs] /\ green' \in [Runs -> BOOLEAN]
    BY DEF RepoInv, RepoTypes
  <1>2. \A q \in Runs : pc'[q] \in AtWork => pc[q] \in AtWork
    BY DEF RepoInv, RepoTypes
  <1>3. QED
    BY <1>1, <1>2, RepoUntouched

\* verify: only a run at work has its gates decided.
LEMMA Verify ==
  ASSUME RepoInv, NEW r \in Runs, verify(r)
  PROVE  RepoInv'
PROOF
  <1>1. PICK ok \in BOOLEAN :
          /\ \E to \in IF ok THEN {"verified"} ELSE {"develop", "finalize"} :
               Goto(r, "develop", to)
          /\ green' = [green EXCEPT ![r] = ok]
    BY DEF verify
  <1>2. PICK to \in PCs : pc[r] = "develop" /\ pc' = [pc EXCEPT ![r] = to]
    BY <1>1 DEF Goto, PCs, AtWork, Closing
  <1>3. pc' \in [Runs -> PCs] /\ green' \in [Runs -> BOOLEAN]
    BY <1>1, <1>2 DEF RepoInv, RepoTypes
  <1>4. \A q \in Runs : /\ pc'[q] \in AtWork => pc[q] \in AtWork
                        /\ pc[q] \notin AtWork => green'[q] = green[q]
    BY <1>1, <1>2 DEF RepoInv, RepoTypes, AtWork
  <1>5. UNCHANGED <<repo, workspace, outcome>>
    BY DEF verify
  <1>6. QED
    BY <1>3, <1>4, <1>5, RepoUntouched

\* bootstrap: a worktree is made for a name that has no branch, so that no other
\* run owns it, nothing is in it and no outcome depends on its commits.
LEMMA CreateWorktree ==
  ASSUME SharedConstants, RepoInv, NEW r \in Runs, create_worktree(r)
  PROVE  RepoInv'
PROOF
  <1> DEFINE n == short_id[r]
  <1>1. n \in Names /\ n \notin branches /\ pc[r] = "bootstrap"
    BY DEF SharedConstants, create_worktree, Refused, Goto
  <1>2. /\ branches' = branches \cup {n} /\ worktrees' = worktrees \cup {n}
        /\ commits' = [commits EXCEPT ![n] = {}]
        /\ tree' = tree /\ outcome' = outcome /\ green' = green
    BY DEF create_worktree
  <1>3. PICK to \in {"retrieve", "raised"}, given \in BOOLEAN :
          /\ pc' = [pc EXCEPT ![r] = to]
          /\ workspace' = [workspace EXCEPT ![r] = given]
          /\ to = "retrieve" => given
          /\ given \/ given = workspace[r]
    <2>1. workspace \in [Runs -> BOOLEAN]
      BY DEF RepoInv, RepoTypes
    <2>2. CASE pc' = [pc EXCEPT ![r] = "retrieve"] /\ workspace' = [workspace EXCEPT ![r] = TRUE]
      BY <2>2
    <2>3. CASE pc' = [pc EXCEPT ![r] = "raised"] /\ workspace' = workspace
      <3>1. workspace[r] \in BOOLEAN /\ workspace' = [workspace EXCEPT ![r] = workspace[r]]
        BY <2>1, <2>3
      <3>2. QED
        BY <2>3, <3>1
    <2>4. QED
      BY <2>2, <2>3 DEF create_worktree, Goto
  <1>4. RepoTypes'
    BY <1>1, <1>2, <1>3 DEF RepoInv, RepoTypes, PCs, AtWork, Resting
  <1>5. \A q \in Runs : workspace[q] => short_id[q] # n /\ short_id[q] \in branches
    BY <1>1 DEF RepoInv, CompletedIsOver
  <1>6. \A q \in Runs : q # r => pc'[q] = pc[q] /\ workspace'[q] = workspace[q]
    BY <1>3 DEF RepoInv, RepoTypes
  <1>7. pc'[r] = to /\ workspace'[r] = given
    BY <1>3 DEF RepoInv, RepoTypes
  <1>8. Isolated'
    <2>1. tree[n] = {}
      BY <1>1 DEF RepoInv, RepoTypes, CleanWithoutWorktree
    <2>2. ASSUME NEW q \in Runs
          PROVE  /\ pc'[q] \in AtWork => workspace'[q] /\ short_id[q] \in worktrees'
                 /\ workspace'[q] => tree'[short_id[q]] \subseteq {q}
      <3>1. CASE q = r
        BY <1>2, <1>3, <1>7, <2>1, <3>1 DEF AtWork
      <3>2. CASE q # r
        BY <1>2, <1>6, <3>2 DEF RepoInv, Isolated
      <3>3. QED
        BY <3>1, <3>2
    <2>3. \A m \in Names : \A c \in commits'[m] : c.tree \subseteq {c.by}
      BY <1>1, <1>2 DEF RepoInv, RepoTypes, Isolated
    <2>4. QED
      BY <2>2, <2>3 DEF Isolated
  <1>9. Delivered'
    BY <1>1, <1>2, <1>5 DEF RepoInv, RepoTypes, Delivered, CompletedIsOver
  <1>10. OneOwner'
    BY <1>5, <1>6 DEF RepoInv, OneOwner
  <1>11. CleanWithoutWorktree'
    BY <1>2 DEF RepoInv, CleanWithoutWorktree
  <1>12. CompletedIsOver'
    <2>1. SUFFICES ASSUME NEW q \in Runs
          PROVE  /\ workspace'[q] => short_id[q] \in branches'
                 /\ green'[q] => workspace'[q]
                 /\ outcome'[q] = "completed" => green'[q] /\ pc'[q] \notin AtWork
      BY DEF CompletedIsOver
    <2>2. CASE q = r
      <3>1. ~workspace[r] /\ ~green[r] /\ outcome[r] # "completed"
        BY <1>5 DEF RepoInv, CompletedIsOver
      <3>2. QED
        BY <1>2, <2>2, <3>1
    <2>3. CASE q # r
      BY <1>2, <1>6, <2>3 DEF RepoInv, CompletedIsOver
    <2>4. QED
      BY <2>2, <2>3
  <1>13. QED
    BY <1>4, <1>8, <1>9, <1>10, <1>11, <1>12 DEF RepoInv

\* apply: the changes go to the worktree the run owns.
LEMMA ApplyPatch ==
  ASSUME SharedConstants, RepoInv, NEW r \in Runs, apply_patch(r)
  PROVE  RepoInv'
PROOF
  <1> DEFINE n == short_id[r]
  <1>1. n \in Names /\ n \in worktrees /\ pc[r] = "develop" /\ workspace[r]
    BY DEF SharedConstants, apply_patch, RepoInv, Isolated, AtWork
  <1>2. /\ tree' = [tree EXCEPT ![n] = @ \cup {r}]
        /\ pc' = pc /\ branches' = branches /\ worktrees' = worktrees /\ commits' = commits
        /\ workspace' = workspace /\ outcome' = outcome /\ green' = green
    BY DEF apply_patch, thread
  <1>3. RepoTypes' /\ OneOwner' /\ CleanWithoutWorktree' /\ CompletedIsOver' /\ Delivered'
    BY <1>1, <1>2 DEF RepoInv, RepoTypes, OneOwner, CleanWithoutWorktree, CompletedIsOver,
                      Delivered
  <1>4. \A q \in Runs : workspace[q] /\ short_id[q] = n => q = r
    BY <1>1 DEF RepoInv, OneOwner
  <1>5. tree[n] \subseteq {r}
    BY <1>1 DEF RepoInv, Isolated
  <1>6. \A q \in Runs : workspace'[q] => tree'[short_id[q]] \subseteq {q}
    BY <1>1, <1>2, <1>4, <1>5 DEF RepoInv, RepoTypes, Isolated, SharedConstants
  <1>7. Isolated'
    BY <1>2, <1>6 DEF RepoInv, Isolated
  <1>8. QED
    BY <1>3, <1>7 DEF RepoInv

\* finalize: what a run commits is what is in its worktree, its own changes.
LEMMA Finalize ==
  ASSUME SharedConstants, RepoInv, NEW r \in Runs, finalize(r)
  PROVE  RepoInv'
PROOF
  <1> DEFINE n == short_id[r]
             c == [by |-> r, tree |-> tree[n]]
             new == IF green[r] THEN {c} ELSE {}
  <1>1. n \in Names /\ pc[r] = "finalize" /\ (green[r] => workspace[r])
    BY DEF SharedConstants, finalize, Goto, RepoInv, CompletedIsOver
  <1>2. /\ pc' = [pc EXCEPT ![r] = "learn"]
        /\ branches' = branches /\ worktrees' = worktrees /\ tree' = tree /\ green' = green
        /\ workspace' = workspace
        /\ outcome' = [outcome EXCEPT ![r] = IF green[r] THEN "completed" ELSE "failed"]
    BY DEF finalize, Goto
  <1>3. commits' = [commits EXCEPT ![n] = @ \cup new]
    BY <1>1 DEF finalize, RepoInv, RepoTypes
  <1>4. /\ c \in [by : Runs, tree : SUBSET Runs]
        /\ c.by = r /\ c.tree = tree[n] /\ (green[r] => tree[n] \subseteq {r})
    BY <1>1 DEF RepoInv, RepoTypes, Isolated
  <1> HIDE DEF c
  <1>5. \A m \in Names : commits[m] \subseteq commits'[m]
    BY <1>1, <1>3 DEF RepoInv, RepoTypes
  <1>6. green[r] => c \in commits'[n]
    BY <1>1, <1>3 DEF RepoInv, RepoTypes
  <1>7. \A m \in Names : \A d \in commits'[m] : d \in commits[m] \/ (d = c /\ green[r])
    BY <1>1, <1>3 DEF RepoInv, RepoTypes
  <1>8. RepoTypes'
    <2>1. commits' \in [Names -> SUBSET [by : Runs, tree : SUBSET Runs]]
      BY <1>1, <1>3, <1>4 DEF RepoInv, RepoTypes
    <2>2. QED
      BY <1>2, <2>1 DEF RepoInv, RepoTypes, PCs, Closing
  <1>9. \A q \in Runs : pc'[q] \in AtWork => pc[q] \in AtWork /\ q # r
    BY <1>1, <1>2 DEF RepoInv, RepoTypes, AtWork
  <1>10. Isolated'
    <2>1. \A q \in Runs :
            /\ pc'[q] \in AtWork => workspace'[q] /\ short_id[q] \in worktrees'
            /\ workspace'[q] => tree'[short_id[q]] \subseteq {q}
      BY <1>2, <1>9 DEF RepoInv, Isolated
    <2>2. \A m \in Names : \A d \in commits'[m] : d.tree \subseteq {d.by}
      BY <1>4, <1>7 DEF RepoInv, Isolated
    <2>3. QED
      BY <2>1, <2>2 DEF Isolated
  <1>11. Delivered'
    <2>1. SUFFICES ASSUME NEW q \in Runs, outcome'[q] = "completed"
                   PROVE  \E d \in commits'[short_id[q]] : d.by = q
      BY DEF Delivered
    <2>2. CASE q = r
      <3>1. green[r]
        BY <1>2, <2>1, <2>2 DEF RepoInv, RepoTypes
      <3>2. QED
        BY <1>4, <1>6, <2>2, <3>1
    <2>3. CASE q # r
      <3>1. outcome[q] = "completed"
        BY <1>2, <2>1, <2>3 DEF RepoInv, RepoTypes
      <3>2. PICK d \in commits[short_id[q]] : d.by = q
        BY <3>1 DEF RepoInv, Delivered
      <3>3. QED
        BY <1>5, <3>2 DEF SharedConstants
    <2>4. QED
      BY <2>2, <2>3
  <1>12. OneOwner' /\ CleanWithoutWorktree'
    BY <1>2 DEF RepoInv, OneOwner, CleanWithoutWorktree
  <1>13. CompletedIsOver'
    BY <1>1, <1>2, <1>9 DEF RepoInv, RepoTypes, CompletedIsOver, AtWork
  <1>14. QED
    BY <1>8, <1>10, <1>11, <1>12, <1>13 DEF RepoInv

\* teardown: the worktree that may go is the one the run was given.
LEMMA Teardown ==
  ASSUME SharedConstants, RepoInv, NEW r \in Runs, teardown(r)
  PROVE  RepoInv'
PROOF
  <1> DEFINE n == short_id[r]
  <1>1. pc[r] = "teardown" /\ n \in Names
    BY DEF SharedConstants, teardown, Goto
  <1>2. /\ pc' = [pc EXCEPT ![r] = "done"]
        /\ (worktrees' = worktrees \/ (workspace[r] /\ worktrees' = worktrees \ {n}))
        /\ tree' = [m \in Names |-> IF m \in worktrees' THEN tree[m] ELSE {}]
        /\ branches' = branches /\ commits' = commits /\ workspace' = workspace
        /\ green' = green /\ outcome' = outcome
    BY DEF teardown, Goto, thread
  <1>3. \A q \in Runs : pc'[q] \in AtWork => pc[q] \in AtWork /\ q # r
    BY <1>2 DEF RepoInv, RepoTypes, AtWork
  <1>4. \A q \in Runs : workspace[r] /\ workspace[q] /\ q # r => short_id[q] # n
    BY DEF RepoInv, OneOwner
  <1>5. RepoTypes'
    BY <1>2 DEF RepoInv, RepoTypes, PCs, Resting
  <1>6. \A q \in Runs :
          /\ pc'[q] \in AtWork => workspace'[q] /\ short_id[q] \in worktrees'
          /\ workspace'[q] => tree'[short_id[q]] \subseteq {q}
    BY <1>2, <1>3, <1>4 DEF RepoInv, RepoTypes, Isolated, SharedConstants
  <1>7. Isolated'
    BY <1>2, <1>6 DEF RepoInv, Isolated
  <1>8. OneOwner' /\ CleanWithoutWorktree' /\ CompletedIsOver' /\ Delivered'
    BY <1>2, <1>3 DEF RepoInv, OneOwner, CleanWithoutWorktree, CompletedIsOver, Delivered
  <1>9. QED
    BY <1>5, <1>7, <1>8 DEF RepoInv

-----------------------------------------------------------------------------
LEMMA RepoInit ==
  ASSUME Init PROVE RepoInv
PROOF
  BY DEF Init, RepoInv, RepoTypes, Isolated, Delivered, OneOwner, CleanWithoutWorktree,
         CompletedIsOver, PCs, Resting, AtWork

LEMMA RepoNext ==
  ASSUME SharedConstants, RepoInv, [Next]_vars
  PROVE  RepoInv'
PROOF
  <1> USE DEF Goto, PCs, Resting, AtWork, Closing, thread
  <1> green \in [Runs -> BOOLEAN] /\ pc \in [Runs -> PCs]
    BY DEF RepoInv, RepoTypes
  <1>1. ASSUME NEW r \in Runs, Step(r)
        PROVE  RepoInv'
    <2>1. CASE start(r)
      BY <2>1, GotoUntouched DEF start
    <2>2. CASE create_worktree(r)
      BY <2>2, CreateWorktree
    <2>3. CASE create_refused(r)
      BY <2>3, GotoUntouched DEF create_refused
    <2>4. CASE retrieve_lessons(r)
      BY <2>4, GotoUntouched DEF retrieve_lessons
    <2>5. CASE apply_patch(r)
      BY <2>5, ApplyPatch
    <2>6. CASE record_lesson(r)
      BY <2>6, RepoUntouched DEF record_lesson
    <2>7. CASE verify(r)
      BY <2>7, Verify
    <2>8. CASE human_review(r)
      BY <2>8, GotoUntouched DEF human_review
    <2>9. CASE approve(r)
      BY <2>9, GotoUntouched DEF approve
    <2>10. CASE finalize(r)
      BY <2>10, Finalize
    <2>11. CASE learn(r)
      BY <2>11, GotoUntouched DEF learn
    <2>12. CASE reinforce_read(r)
      BY <2>12, GotoUntouched DEF reinforce_read
    <2>13. CASE reinforce_write(r)
      BY <2>13, GotoUntouched DEF reinforce_write
    <2>14. CASE reinforce_unknown(r)
      BY <2>14, RepoUntouched DEF reinforce_unknown
    <2>15. CASE learned(r)
      BY <2>15, GotoUntouched DEF learned
    <2>16. CASE teardown(r)
      BY <2>16, Teardown
    <2>17. CASE raises(r)
      BY <2>17, GotoUntouched DEF raises
    <2>18. QED
      BY <1>1, <2>1, <2>2, <2>3, <2>4, <2>5, <2>6, <2>7, <2>8, <2>9, <2>10, <2>11, <2>12,
         <2>13, <2>14, <2>15, <2>16, <2>17 DEF Step
  <1>2. CASE Crash
    <2>1. pc' = [r \in Runs |-> IF pc[r] \in Resting THEN pc[r] ELSE "raised"]
      BY <1>2 DEF Crash
    <2>2. UNCHANGED <<repo, workspace, green, outcome>>
      BY <1>2 DEF Crash
    <2>3. QED
      BY <2>1, <2>2, RepoUntouched
  <1>3. CASE UNCHANGED vars
    BY <1>3, RepoUntouched DEF vars
  <1>4. QED
    BY <1>1, <1>2, <1>3 DEF Next, Quiet

\* The invariant of the repository holds in every reachable state: a worktree has
\* one owner (create_worktree, teardown.py).
THEOREM RepoInvariance == Spec => []RepoInv
PROOF
  <1>1. Init => RepoInv
    BY RepoInit
  <1>2. RepoInv /\ [Next]_vars => RepoInv'
    BY RepoNext, SharedConstants
  <1>3. QED
    BY <1>1, <1>2, PTL DEF Spec

\* Runs never collide, however many there are and however their ids are cut short
\* (bootstrap.py:23, create_worktree).
THEOREM RunsIsolated == Spec => []Isolated
PROOF
  <1>1. RepoInv => Isolated
    BY DEF RepoInv
  <1>2. QED
    BY <1>1, RepoInvariance, PTL

\* What a completed run committed stays on its branch, whatever other runs, later
\* starts, failures and crashes do (finalize.py, teardown.py).
THEOREM DeliveredStays == Spec => []Delivered
PROOF
  <1>1. RepoInv => Delivered
    BY DEF RepoInv
  <1>2. QED
    BY <1>1, RepoInvariance, PTL
=============================================================================
