-------------------------- MODULE DevSerialProofs --------------------------
(***************************************************************************)
(* Proofs about DevOrchestrator when calls are made one at a time, for any *)
(* number of calls.                                                        *)
(*                                                                         *)
(* First, whatever crashes and fails: what is committed, and what is under *)
(* review, is what the gates left when they were green.  SerialInv is      *)
(* inductive beside IInv: a green thread stands at no node that writes     *)
(* files, and the copy of the one call in progress is not behind the       *)
(* checkpoint when a node runs; so the nodes that write files find no      *)
(* green report anywhere.                                                  *)
(*                                                                         *)
(* Then, when nothing fails and only parked runs are approved: a run is    *)
(* committed, told and rewarded once, and the graph implements the task of *)
(* TaskLifecycle but for its fairness.  BookInv is inductive beside the    *)
(* two: the newest copy of the thread, saved or not, tells by its place in *)
(* the graph what the repository and the memory hold.                      *)
(***************************************************************************)
EXTENDS DevOrchestratorProofs

-----------------------------------------------------------------------------
(* What a green report stands beside. *)

\* A thread that does not exist has no report.
LEMMA NoThreadGreen == ASSUME NEW wt, NEW tr PROVE GreenOk(NoThread, wt, tr)
  BY DEF GreenOk, NoThread, Blank, NotOk, _gates_ok

\* A thread that is green, where its files are wt and tr, or that has no green
\* report at all.
LEMMA NotGreen ==
  ASSUME NEW t, NEW wt, NEW tr, NEW wt2, NEW tr2, GreenOk(t, wt, tr),
         \/ ~_gates_ok(t.state)
         \/ wt2 => wt /\ tr2 = tr
  PROVE  GreenOk(t, wt2, tr2)
  BY DEF GreenOk

\* The review is only reached with a green report.
LEMMA ReviewedIsGreen ==
  ASSUME NEW s, NEW late, NextNode("verify", s, late) = "human_review"
  PROVE  _gates_ok(s)
<1>1. NextNode("verify", s, late) = route_after_verify(s, late)
  BY Zenon DEF NextNode
<1>2. RetryOrGiveUp(s) # "human_review"
  BY DEF RetryOrGiveUp
<1>3. ASSUME ~_gates_ok(s) PROVE route_after_verify(s, late) # "human_review"
  <2>1. CASE over_budget(s, late)
    <3>1. route_after_verify(s, late) = "finalize"
      BY <1>3, <2>1, Zenon DEF route_after_verify
    <3>2. QED
      BY <3>1
  <2>2. CASE ~over_budget(s, late)
    <3>1. route_after_verify(s, late) = RetryOrGiveUp(s)
      BY <1>3, <2>2, Zenon DEF route_after_verify
    <3>2. QED
      BY <1>2, <3>1
  <2>3. QED
    BY <2>1, <2>2
<1>4. QED
  BY <1>1, <1>3

\* What the state that node n leaves says of the files: a green one is of the
\* worktree as it now is, and only a green one is put under review.
LeavesGreen(n, s, wt, tr) ==
  /\ _gates_ok(s) =>
       /\ n \in {"verify", "human_review", "finalize", "learn", "teardown"}
       /\ wt => tr = s.verify_report.tree
  /\ s.pending => n = "human_review" /\ s.status = "waiting_for_human" /\ _gates_ok(s)

\* The routers take a green thread to its review and its end.
LEMMA RoutedGreen ==
  ASSUME NEW n \in Nodes, NEW s, NEW late, NEW wt, NEW tr, LeavesGreen(n, s, wt, tr)
  PROVE  GreenOk([state |-> s, next |-> NextNode(n, s, late)], wt, tr)
<1> DEFINE m == NextNode(n, s, late)
<1>1. /\ n = "verify" /\ _gates_ok(s) => m = "human_review"
      /\ n = "human_review" => m \in {"end", "finalize"}
      /\ n = "human_review" /\ s.status = "waiting_for_human" => m = "end"
      /\ n = "finalize" => m = "learn"
      /\ n = "learn" => m = "teardown"
      /\ n = "teardown" => m = "end"
  BY NextCases
<1>2. m = "human_review" => n = "verify"
  BY NextCases DEF Nodes
<1>3. m = "human_review" => _gates_ok(s)
  BY <1>2, ReviewedIsGreen
<1>4. \A x : [state |-> s, next |-> x].state = s /\ [state |-> s, next |-> x].next = x
  OBVIOUS
<1> HIDE DEF m
<1>5. GreenOk([state |-> s, next |-> m], wt, tr)
  BY <1>1, <1>3, <1>4 DEF GreenOk, LeavesGreen
<1>6. QED
  BY <1>5 DEF m

-----------------------------------------------------------------------------
(* A step of the only call in progress. *)

Alone(c) == \A d \in Calls : d # c => ~Active(d)

\* A call that is in progress is the only one.
LEMMA AloneIfActive ==
  ASSUME SerialInv, NEW c \in Calls, Active(c)
  PROVE  Alone(c)
  BY DEF SerialInv, OneAtATime, Alone

\* What the other calls hold: nothing.
LEMMA OthersHoldNothing ==
  ASSUME SerialInv, TypeOK, NEW c \in Calls, Alone(c), NEW d \in Calls, d # c
  PROVE  pc[d] \in {"idle", "done"} /\ mem[d] = NoThread /\ unsaved[d] = "no"
<1>1. pc[d] \in {"idle", "done"}
  BY DEF Alone, Active, TypeOK
<1>2. QED
  BY <1>1 DEF SerialInv, CopyIsCurrent

\* What the step leaves: the calls other than c as they were, and the checkpoint
\* and c's copy as SerialInv wants them.
Mine(c) ==
  /\ \A d \in Calls : d # c => pc'[d] = pc[d] /\ mem'[d] = mem[d] /\ unsaved'[d] = unsaved[d]
  /\ GreenOk(ckpt', worktree', tree')
  /\ GreenOk(mem'[c], worktree', tree')
  /\ CopyIsCurrent(pc'[c], mem'[c], unsaved'[c], ckpt')

\* That is all it takes, for the others hold nothing.
LEMMA SerialStep ==
  ASSUME SerialInv, TypeOK, NEW c \in Calls, Alone(c), Mine(c), CommitIsGated'
  PROVE  SerialInv'
<1>1. ASSUME NEW d \in Calls, d # c
      PROVE  pc'[d] \in {"idle", "done"} /\ mem'[d] = NoThread /\ unsaved'[d] = "no"
  BY <1>1, OthersHoldNothing DEF Mine
<1>2. \A d \in Calls : d # c => ~(Active(d)')
  BY <1>1 DEF Active
<1>3. OneAtATime'
  BY <1>2 DEF OneAtATime
<1>4. ASSUME NEW d \in Calls PROVE GreenOk(mem'[d], worktree', tree')
  BY <1>1, <1>4, NoThreadGreen DEF Mine
<1>5. ASSUME NEW d \in Calls PROVE CopyIsCurrent(pc'[d], mem'[d], unsaved'[d], ckpt')
  BY <1>1, <1>5 DEF Mine, CopyIsCurrent
<1>6. QED
  BY <1>3, <1>4, <1>5 DEF SerialInv, Mine

\* A node that returns.
LEMMA AdvanceSerial ==
  ASSUME SerialInv, TypeOK, NEW c \in Calls, Active(c), NEW n \in Nodes, NEW s \in States,
         advance(c, n, s), pc' = [pc EXCEPT ![c] = "run"], ckpt' = ckpt,
         GreenOk(ckpt, worktree', tree'), LeavesGreen(n, s, worktree', tree'),
         CommitIsGated'
  PROVE  SerialInv'
<1>1. PICK late : mem'[c] = [state |-> s, next |-> NextNode(n, s, late)]
  BY AdvanceTyping
<1>2. \A d \in Calls : d # c => mem'[d] = mem[d]
  BY AdvanceTyping
<1>3. /\ pc'[c] = "run" /\ unsaved'[c] = "yes"
      /\ \A d \in Calls : d # c => pc'[d] = pc[d] /\ unsaved'[d] = unsaved[d]
  BY DEF advance, TypeOK
<1>4. GreenOk(mem'[c], worktree', tree')
  BY <1>1, RoutedGreen
<1>5. CopyIsCurrent(pc'[c], mem'[c], unsaved'[c], ckpt')
  BY <1>3 DEF CopyIsCurrent
<1>6. Mine(c)
  BY <1>2, <1>3, <1>4, <1>5 DEF Mine
<1>7. QED
  BY <1>6, AloneIfActive, SerialStep

\* A call that leaves.
LEMMA LeaveSerial ==
  ASSUME SerialInv, TypeOK, NEW c \in Calls, Active(c), Leave(c), ckpt' = ckpt,
         GreenOk(ckpt, worktree', tree'), CommitIsGated'
  PROVE  SerialInv'
<1>1. /\ pc'[c] = "done" /\ mem'[c] = NoThread
      /\ \A d \in Calls : d # c => pc'[d] = pc[d] /\ mem'[d] = mem[d]
  BY LeaveTyping
<1>2. unsaved'[c] = "no" /\ \A d \in Calls : d # c => unsaved'[d] = unsaved[d]
  BY DEF Leave, TypeOK
<1>3. CopyIsCurrent(pc'[c], mem'[c], unsaved'[c], ckpt')
  BY <1>1, <1>2 DEF CopyIsCurrent
<1>4. Mine(c)
  BY <1>1, <1>2, <1>3, NoThreadGreen DEF Mine
<1>5. QED
  BY <1>4, AloneIfActive, SerialStep

\* A commit that is not made changes nothing.
LEMMA CommitsStay == ASSUME SerialInv, commits' = commits PROVE CommitIsGated'
  BY DEF SerialInv, CommitIsGated

-----------------------------------------------------------------------------
(* The actions. *)

\* A node finds its call's copy of the thread as it is in the checkpoint.
LEMMA NodeReady ==
  ASSUME SerialInv, TypeOK, NEW c \in Calls, NEW n \in Nodes, AtNode(c, n)
  PROVE  /\ Active(c) /\ pc[c] = "run" /\ mem[c].next = n /\ mem[c] = ckpt
         /\ mem[c].state \in States
         /\ GreenOk(mem[c], worktree, tree) /\ GreenOk(ckpt, worktree, tree)
         /\ ~mem[c].state.pending
<1>1. pc[c] = "run" /\ mem[c].next = n /\ unsaved[c] = "no"
  BY DEF AtNode
<1>2. mem[c] = ckpt
  BY <1>1 DEF SerialInv, CopyIsCurrent
<1>3. GreenOk(mem[c], worktree, tree) /\ GreenOk(ckpt, worktree, tree)
  BY DEF SerialInv
<1>4. ~mem[c].state.pending
  BY <1>1, <1>3 DEF GreenOk, Nodes
<1>5. QED
  BY <1>1, <1>2, <1>3, <1>4, MemTyping DEF Active

\* A node that touches neither the files nor the commits, nor the report.
LEMMA PlainSerial ==
  ASSUME SerialInv, TypeOK, NEW c \in Calls, NEW n \in Nodes \ {"bootstrap"}, AtNode(c, n),
         NEW s \in States, advance(c, n, s), s.verify_report = mem[c].state.verify_report,
         s.pending => /\ n = "human_review" /\ s.status = "waiting_for_human",
         UNCHANGED <<ckpt, pc, git>>
  PROVE  SerialInv'
<1>1. /\ Active(c) /\ pc[c] = "run" /\ mem[c].next = n
      /\ GreenOk(mem[c], worktree, tree) /\ GreenOk(ckpt, worktree, tree)
  BY NodeReady
<1>2. worktree' = worktree /\ tree' = tree /\ commits' = commits /\ ckpt' = ckpt
  BY DEF git
<1>3. _gates_ok(s) <=> _gates_ok(mem[c].state)
  BY DEF _gates_ok
<1>4. LeavesGreen(n, s, worktree, tree)
  BY <1>1, <1>3 DEF LeavesGreen, GreenOk, Nodes
<1>5. pc' = [pc EXCEPT ![c] = "run"]
  BY <1>1 DEF TypeOK
<1>6. QED
  BY <1>1, <1>2, <1>4, <1>5, AdvanceSerial, CommitsStay

\* What a node leaves that only asks the LLM or the memory: the report as it was, and
\* the run where it was, but for the review, which may put it at rest.
Reviewed(n, old, s) ==
  /\ s.verify_report = old.verify_report
  /\ s.known = old.known /\ s.workspace = old.workspace /\ s.outcome = old.outcome
  /\ IF n = "human_review" /\ require_human_review
       THEN s.pending /\ s.status = "waiting_for_human"
       ELSE s.pending = old.pending /\ (n = "human_review" => s.status = "running")

\* The nodes that only ask the LLM or the memory, and the review, each return.
LEMMA PlainNodesAdvance ==
  ASSUME TypeOK, NEW c \in Calls,
         load_context(c) \/ retrieve(c) \/ analyze(c) \/ plan(c) \/ implement(c)
           \/ reflect(c) \/ human_review(c)
  PROVE  \E n \in Nodes \ {"bootstrap", "apply", "verify", "finalize", "learn", "teardown"} :
         \E s \in States :
           /\ AtNode(c, n) /\ advance(c, n, s)
           /\ Reviewed(n, mem[c].state, s)
           /\ UNCHANGED <<ckpt, pc, git, rewards, episodes>>
<1> DEFINE old == mem[c].state
           Plain == Nodes \ {"bootstrap", "apply", "verify", "finalize", "learn", "teardown"}
<1>0. old \in States /\ stored \subseteq Lessons
  BY MemTyping DEF TypeOK
<1> HIDE DEF old
<1>1. CASE load_context(c)
  <2>1. AtNode(c, "load_context") /\ "load_context" \in Plain /\ advance(c, "load_context", old)
    BY <1>1 DEF load_context, Nodes, old
  <2>2. Reviewed("load_context", old, old)
    BY DEF Reviewed
  <2>3. UNCHANGED <<ckpt, pc, git, rewards, episodes>>
    BY <1>1 DEF load_context, memory
  <2>4. QED
    BY <1>0, <2>1, <2>2, <2>3 DEF old
<1>2. CASE retrieve(c)
  <2>1. PICK ls \in SUBSET stored : advance(c, "retrieve", [old EXCEPT !.retrieved = ls])
    BY <1>2 DEF retrieve, retrieve_lessons, old
  <2>2. AtNode(c, "retrieve") /\ "retrieve" \in Plain
    BY <1>2 DEF retrieve, Nodes
  <2>3. PICK s : s = [old EXCEPT !.retrieved = ls]
    OBVIOUS
  <2>4. s \in States /\ Reviewed("retrieve", old, s)
    BY <1>0, <2>3 DEF States, Reviewed
  <2>5. UNCHANGED <<ckpt, pc, git, rewards, episodes>>
    BY <1>2 DEF retrieve, memory
  <2>6. QED
    BY <2>1, <2>2, <2>3, <2>4, <2>5 DEF old
<1>3. CASE analyze(c)
  <2>1. PICK files \in SUBSET Files :
          advance(c, "analyze", [record_llm_call(old) EXCEPT !.target_files = files])
    BY <1>3 DEF analyze, old
  <2>2. AtNode(c, "analyze") /\ "analyze" \in Plain
    BY <1>3 DEF analyze, Nodes
  <2>3. PICK b \in States : /\ b = record_llm_call(old) /\ SameRun(old, b)
                            /\ b.verify_report = old.verify_report
    BY <1>0, CallCounted
  <2>4. PICK s \in States : /\ s = [b EXCEPT !.target_files = files] /\ SameRun(b, s)
                            /\ s.verify_report = b.verify_report
    BY FilesNamed
  <2>5. Reviewed("analyze", old, s)
    BY <2>3, <2>4 DEF Reviewed, SameRun
  <2>6. UNCHANGED <<ckpt, pc, git, rewards, episodes>>
    BY <1>3 DEF analyze, memory
  <2>7. QED
    BY <2>1, <2>2, <2>3, <2>4, <2>5, <2>6 DEF old
<1>4. CASE plan(c)
  <2>1. PICK s \in States : /\ s = record_llm_call(old) /\ SameRun(old, s)
                            /\ s.verify_report = old.verify_report
    BY <1>0, CallCounted
  <2>2. AtNode(c, "plan") /\ "plan" \in Plain /\ advance(c, "plan", s)
    BY <1>4, <2>1 DEF plan, Nodes, old
  <2>3. Reviewed("plan", old, s)
    BY <2>1 DEF Reviewed, SameRun
  <2>4. UNCHANGED <<ckpt, pc, git, rewards, episodes>>
    BY <1>4 DEF plan, memory
  <2>5. QED
    BY <2>2, <2>3, <2>4 DEF old
<1>5. CASE implement(c)
  <2>1. PICK d \in Diffs \cup {EmptyDiff}, touched \in SUBSET Files :
          advance(c, "implement",
                  [record_llm_call(old) EXCEPT
                     !.diff = d, !.iteration = @ + 1,
                     !.target_files = IF touched = {} THEN @ ELSE touched])
    BY <1>5 DEF implement, old
  <2>2. AtNode(c, "implement") /\ "implement" \in Plain
    BY <1>5 DEF implement, Nodes
  <2>3. PICK b \in States : /\ b = record_llm_call(old) /\ SameRun(old, b)
                            /\ b.verify_report = old.verify_report
    BY <1>0, CallCounted
  <2>4. PICK files \in SUBSET Files :
          files = IF touched = {} THEN b.target_files ELSE touched
    BY DEF States
  <2>5. LET t == [b EXCEPT !.diff = d, !.iteration = @ + 1, !.target_files = files]
        IN /\ t \in States /\ t.iteration = b.iteration + 1
           /\ t.llm_calls = b.llm_calls /\ t.verify_report = b.verify_report
           /\ t.pending = b.pending /\ SameRun(b, t)
    BY AttemptCounted, Zenon
  <2>6. PICK s \in States :
          /\ s = [b EXCEPT !.diff = d, !.iteration = @ + 1, !.target_files = files]
          /\ s.verify_report = b.verify_report /\ SameRun(b, s)
    BY <2>5, Zenon
  <2>7. advance(c, "implement", s)
    BY <2>1, <2>3, <2>4, <2>6
  <2>8. Reviewed("implement", old, s)
    BY <2>3, <2>6 DEF Reviewed, SameRun
  <2>9. UNCHANGED <<ckpt, pc, git, rewards, episodes>>
    BY <1>5 DEF implement, memory
  <2>10. QED
    BY <2>2, <2>7, <2>8, <2>9 DEF old
<1>6. CASE reflect(c)
  <2>1. PICK l \in Lessons \ stored :
          advance(c, "reflect",
            [record_llm_call(old) EXCEPT !.reflections = @ \cup {l}, !.status = "running"])
    BY <1>6 DEF reflect, old
  <2>2. AtNode(c, "reflect") /\ "reflect" \in Plain
    BY <1>6 DEF reflect, Nodes
  <2>3. PICK b \in States : /\ b = record_llm_call(old) /\ SameRun(old, b)
                            /\ b.verify_report = old.verify_report
    BY <1>0, CallCounted
  <2>4. PICK s : s = [b EXCEPT !.reflections = @ \cup {l}, !.status = "running"]
    OBVIOUS
  <2>5. s \in States /\ s.verify_report = b.verify_report /\ SameRun(b, s)
    BY <2>4 DEF States, SameRun
  <2>6. Reviewed("reflect", old, s)
    BY <2>3, <2>5 DEF Reviewed, SameRun
  <2>7. UNCHANGED <<ckpt, pc, git, rewards, episodes>>
    BY <1>6 DEF reflect
  <2>8. QED
    BY <2>1, <2>2, <2>3, <2>4, <2>5, <2>6, <2>7 DEF old
<1>7. CASE human_review(c)
  <2>1. PICK s : s = IF require_human_review
                     THEN [old EXCEPT !.status = "waiting_for_human", !.pending = TRUE]
                     ELSE [old EXCEPT !.status = "running"]
    OBVIOUS
  <2>2. s \in States /\ Reviewed("human_review", old, s)
    BY <1>0, <2>1 DEF States, Reviewed
  <2>3. AtNode(c, "human_review") /\ "human_review" \in Plain /\ advance(c, "human_review", s)
    BY <1>7, <2>1 DEF human_review, Nodes, old
  <2>4. UNCHANGED <<ckpt, pc, git, rewards, episodes>>
    BY <1>7 DEF human_review, memory
  <2>5. QED
    BY <2>2, <2>3, <2>4 DEF old
<1>8. QED
  BY <1>1, <1>2, <1>3, <1>4, <1>5, <1>6, <1>7

\* They leave the report as it was, which is green only at the review.
LEMMA PlainNodesSerial ==
  ASSUME IInv, SerialInv, NEW c \in Calls,
         load_context(c) \/ retrieve(c) \/ analyze(c) \/ plan(c) \/ implement(c)
           \/ reflect(c) \/ human_review(c)
  PROVE  SerialInv'
<1>1. TypeOK
  BY DEF IInv
<1>2. PICK n \in Nodes \ {"bootstrap", "apply", "verify", "finalize", "learn", "teardown"},
           s \in States :
        /\ AtNode(c, n) /\ advance(c, n, s) /\ Reviewed(n, mem[c].state, s)
        /\ UNCHANGED <<ckpt, pc, git, rewards, episodes>>
  BY <1>1, PlainNodesAdvance
<1>3. ~mem[c].state.pending
  BY <1>1, <1>2, NodeReady
<1>4. s.verify_report = mem[c].state.verify_report
      /\ (s.pending => n = "human_review" /\ s.status = "waiting_for_human")
  BY <1>2, <1>3 DEF Reviewed
<1>5. QED
  BY <1>1, <1>2, <1>4, PlainSerial

\* The nodes that write files: whatever they leave, no report but their own is green.
LEMMA ApplySerial ==
  ASSUME IInv, SerialInv, NEW c \in Calls, apply(c)
  PROVE  SerialInv'
<1> DEFINE old == mem[c].state
<1>1. /\ AtNode(c, "apply") /\ "apply" \in Nodes
      /\ UNCHANGED <<ckpt, pc, worktree, commits>>
  BY DEF apply, Nodes
<1>2. TypeOK
  BY DEF IInv
<1>3. /\ Active(c) /\ pc[c] = "run" /\ mem[c].next = "apply" /\ mem[c] = ckpt
      /\ old \in States /\ ~old.pending
      /\ GreenOk(mem[c], worktree, tree) /\ GreenOk(ckpt, worktree, tree)
  BY <1>1, <1>2, NodeReady
<1>4. ~_gates_ok(old)
  BY <1>3 DEF GreenOk
<1>5. GreenOk(ckpt, worktree', tree')
  BY <1>3, <1>4, NotGreen
<1>6. PICK s : /\ s \in {[old EXCEPT !.applied = TRUE],
                         [old EXCEPT !.applied = FALSE, !.verify_report = NotOk,
                                     !.status = "failed"]}
               /\ advance(c, "apply", s)
  BY DEF apply
<1>7. /\ s \in States /\ s.pending = old.pending
      /\ s.verify_report = old.verify_report \/ s.verify_report = NotOk
  <2>1. NotOk \in Reports
    BY DEF NotOk, Reports
  <2>2. QED
    BY <1>3, <1>6, <2>1 DEF States
<1>8. ~_gates_ok(s)
  BY <1>4, <1>7 DEF _gates_ok, NotOk
<1>9. LeavesGreen("apply", s, worktree', tree')
  BY <1>3, <1>7, <1>8 DEF LeavesGreen
<1>10. pc' = [pc EXCEPT ![c] = "run"]
  BY <1>1, <1>2, <1>3 DEF TypeOK
<1>11. QED
  BY <1>1, <1>2, <1>3, <1>5, <1>6, <1>7, <1>9, <1>10, AdvanceSerial, CommitsStay

\* A green report is of the worktree as the gates left it.
LEMMA VerifySerial ==
  ASSUME IInv, SerialInv, NEW c \in Calls, verify(c)
  PROVE  SerialInv'
<1> DEFINE old == mem[c].state
<1>1. /\ AtNode(c, "verify") /\ "verify" \in Nodes
      /\ UNCHANGED <<ckpt, pc, worktree, commits>>
  BY DEF verify, Nodes
<1>2. PICK rewrites \in SUBSET Rewrites, ok \in BOOLEAN :
        /\ tree' = Gated(rewrites)
        /\ advance(c, "verify",
             [record_llm_call(old) EXCEPT
                !.verify_report = IF ok THEN [ok |-> TRUE, tree |-> Gated(rewrites),
                                              files |-> Paths(old)]
                                        ELSE NotOk,
                !.status = IF ok THEN "running" ELSE "failed"])
  BY DEF verify
<1>3. TypeOK
  BY DEF IInv
<1>4. /\ Active(c) /\ pc[c] = "run" /\ mem[c].next = "verify" /\ mem[c] = ckpt
      /\ old \in States /\ ~old.pending
      /\ GreenOk(mem[c], worktree, tree) /\ GreenOk(ckpt, worktree, tree)
  BY <1>1, <1>3, NodeReady
<1>5. GreenOk(ckpt, worktree', tree')
  <2>1. ~_gates_ok(ckpt.state)
    BY <1>4 DEF GreenOk
  <2>2. QED
    BY <1>4, <2>1, NotGreen
<1>6. PICK rep \in Reports :
        rep = IF ok THEN [ok |-> TRUE, tree |-> Gated(rewrites), files |-> Paths(old)]
                    ELSE NotOk
  <2>1. Paths(old) \in SUBSET Files
    BY <1>4 DEF Paths, States
  <2>2. Gated(rewrites) \in SUBSET Changes
    BY <1>2, <1>3 DEF TypeOK, Gated, Changes
  <2>3. QED
    BY <2>1, <2>2 DEF Reports, NotOk
<1>7. rep.ok => rep.tree = tree'
  BY <1>2, <1>6 DEF NotOk
<1>8. PICK b \in States : b = record_llm_call(old) /\ b.pending = old.pending
  BY <1>4, CallCounted
<1>9. PICK s : s = [b EXCEPT !.verify_report = rep,
                             !.status = IF ok THEN "running" ELSE "failed"]
  OBVIOUS
<1>10. s \in States /\ s.pending = b.pending /\ s.verify_report = rep
  BY <1>9 DEF States
<1>11. advance(c, "verify", s)
  BY <1>2, <1>6, <1>8, <1>9
<1>12. LeavesGreen("verify", s, worktree', tree')
  BY <1>4, <1>7, <1>8, <1>10 DEF LeavesGreen, _gates_ok
<1>13. pc' = [pc EXCEPT ![c] = "run"]
  BY <1>1, <1>3, <1>4 DEF TypeOK
<1>14. QED
  BY <1>1, <1>3, <1>4, <1>5, <1>10, <1>11, <1>12, <1>13, AdvanceSerial, CommitsStay

\* bootstrap makes the worktree only where there is no branch, hence nothing green.
LEMMA BootstrapSerial ==
  ASSUME IInv, SerialInv, NEW c \in Calls,
         bootstrap_create(c) \/ (bootstrap_provision(c) /\ ~Leave(c))
  PROVE  SerialInv'
<1>0. TypeOK
  BY DEF IInv
<1>1. CASE bootstrap_create(c)
  <2>1. /\ AtNode(c, "bootstrap") /\ "bootstrap" \in Nodes /\ ~branch
        /\ pc' = [pc EXCEPT ![c] = "provision"]
        /\ UNCHANGED <<ckpt, mem, unsaved, commits>>
    BY <1>1 DEF bootstrap_create, Nodes
  <2>2. Active(c) /\ mem[c] = ckpt /\ unsaved[c] = "no"
        /\ GreenOk(mem[c], worktree, tree) /\ GreenOk(ckpt, worktree, tree)
    BY <1>0, <2>1, NodeReady DEF AtNode
  <2>3. ~_gates_ok(ckpt.state) /\ ~_gates_ok(mem[c].state)
    BY <2>1 DEF IInv, CopiesOk, CopyOk
  <2>4. GreenOk(ckpt, worktree', tree') /\ GreenOk(mem[c], worktree', tree')
    BY <2>2, <2>3, NotGreen
  <2>5. pc'[c] = "provision" /\ \A d \in Calls : d # c => pc'[d] = pc[d]
    BY <1>0, <2>1 DEF TypeOK
  <2>6. CopyIsCurrent(pc'[c], mem'[c], unsaved'[c], ckpt')
    BY <2>1, <2>2, <2>3, <2>5 DEF CopyIsCurrent
  <2>7. Mine(c)
    BY <2>1, <2>4, <2>5, <2>6 DEF Mine
  <2>8. QED
    BY <1>0, <2>1, <2>2, <2>7, AloneIfActive, CommitsStay, SerialStep
<1>2. CASE bootstrap_provision(c) /\ ~Leave(c)
  <2> DEFINE old == mem[c].state
  <2>1. /\ pc[c] = "provision" /\ pc' = [pc EXCEPT ![c] = "run"]
        /\ UNCHANGED <<ckpt, worktree, tree, commits>>
        /\ advance(c, "bootstrap", [old EXCEPT !.workspace = TRUE, !.status = "running"])
    BY <1>2 DEF bootstrap_provision, git
  <2>2. old \in States /\ ~_gates_ok(old) /\ mem[c].next = "bootstrap" /\ Active(c)
    BY <1>0, <2>1, MemTyping DEF SerialInv, CopyIsCurrent, IInv, CallsOk, CallOk, Active
  <2>3. GreenOk(mem[c], worktree, tree) /\ GreenOk(ckpt, worktree, tree)
    BY DEF SerialInv
  <2>4. PICK s : s = [old EXCEPT !.workspace = TRUE, !.status = "running"]
    OBVIOUS
  <2>5. s \in States /\ s.pending = old.pending /\ s.verify_report = old.verify_report
    BY <2>2, <2>4 DEF States
  <2>6. LeavesGreen("bootstrap", s, worktree', tree')
    BY <2>2, <2>3, <2>5 DEF LeavesGreen, GreenOk, _gates_ok
  <2>7. advance(c, "bootstrap", s) /\ "bootstrap" \in Nodes
    BY <2>1, <2>4 DEF Nodes
  <2>8. QED
    BY <1>0, <2>1, <2>2, <2>3, <2>5, <2>6, <2>7, AdvanceSerial, CommitsStay
<1>3. QED
  BY <1>1, <1>2

\* What finalize commits is the worktree, which is what the green report is of.
LEMMA FinalizeSerial ==
  ASSUME IInv, SerialInv, NEW c \in Calls, finalize(c)
  PROVE  SerialInv'
<1> DEFINE old == mem[c].state
           commit == _gates_ok(old) /\ old.workspace
           new == [tree |-> tree, gated |-> old.verify_report.tree,
                   files |-> old.verify_report.files]
<1>1. /\ AtNode(c, "finalize") /\ "finalize" \in Nodes
      /\ UNCHANGED <<ckpt, pc, worktree, tree>>
      /\ commit => worktree
  BY DEF finalize, Nodes
<1>2. commits' = IF commit THEN Append(commits, new) ELSE commits
  BY DEF finalize
<1>3. TypeOK
  BY DEF IInv
<1>4. /\ Active(c) /\ pc[c] = "run" /\ mem[c].next = "finalize"
      /\ old \in States /\ ~old.pending
      /\ GreenOk(mem[c], worktree, tree) /\ GreenOk(ckpt, worktree, tree)
  BY <1>1, <1>3, NodeReady
<1>5. CommitIsGated'
  <2>1. CASE ~commit
    BY <1>2, <2>1, CommitsStay
  <2>2. CASE commit
    <3>1. tree = old.verify_report.tree
      BY <1>1, <1>4, <2>2 DEF GreenOk
    <3>2. new.tree = new.gated
      BY <3>1
    <3> DEFINE Commit == [tree : SUBSET Changes, gated : SUBSET Changes, files : SUBSET Files]
    <3>3. commits \in Seq(Commit) /\ commits' = Append(commits, new)
      BY <1>2, <1>3, <2>2 DEF TypeOK
    <3>4. \A i \in 1..Len(commits) : commits[i].tree = commits[i].gated
      BY DEF SerialInv, CommitIsGated
    <3> HIDE DEF new, Commit
    <3>5. Len(commits') = Len(commits) + 1 /\ Len(commits) \in Nat
      BY <3>3
    <3>6. commits'[Len(commits) + 1] = new
          /\ \A i \in 1..Len(commits) : commits'[i] = commits[i]
      BY <3>3
    <3>7. ASSUME NEW i \in 1..Len(commits') PROVE commits'[i].tree = commits'[i].gated
      <4>1. i \in 1..Len(commits) \/ i = Len(commits) + 1
        BY <3>5
      <4>2. QED
        BY <3>2, <3>4, <3>6, <4>1
    <3>8. QED
      BY <3>7 DEF CommitIsGated
  <2>3. QED
    BY <2>1, <2>2
<1>6. PICK s : s = [old EXCEPT !.outcome = IF _gates_ok(old) THEN "completed" ELSE "failed",
                               !.status  = IF _gates_ok(old) THEN "completed" ELSE "failed"]
  OBVIOUS
<1>7. s \in States /\ s.pending = old.pending /\ s.verify_report = old.verify_report
  BY <1>4, <1>6 DEF States
<1>8. advance(c, "finalize", s)
  BY <1>6 DEF finalize
<1>9. LeavesGreen("finalize", s, worktree', tree')
  BY <1>1, <1>4, <1>7 DEF LeavesGreen, GreenOk, _gates_ok
<1>10. pc' = [pc EXCEPT ![c] = "run"]
  BY <1>1, <1>3, <1>4 DEF TypeOK
<1>11. QED
  BY <1>1, <1>3, <1>4, <1>5, <1>7, <1>8, <1>9, <1>10, AdvanceSerial

\* Writing to the memory says nothing of the files.
LEMMA LearnSerial ==
  ASSUME IInv, SerialInv, NEW c \in Calls, learn_episode(c) \/ learn_reward(c)
  PROVE  SerialInv'
<1>0. TypeOK
  BY DEF IInv
<1>1. CASE learn_episode(c)
  <2>1. /\ AtNode(c, "learn") /\ "learn" \in Nodes /\ pc' = [pc EXCEPT ![c] = "reward"]
        /\ UNCHANGED <<ckpt, mem, unsaved, worktree, tree, commits>>
    BY <1>1 DEF learn_episode, Nodes, git
  <2>2. Active(c) /\ mem[c] = ckpt /\ unsaved[c] = "no"
        /\ GreenOk(mem[c], worktree, tree) /\ GreenOk(ckpt, worktree, tree)
    BY <1>0, <2>1, NodeReady DEF AtNode
  <2>3. pc'[c] = "reward" /\ \A d \in Calls : d # c => pc'[d] = pc[d]
    BY <1>0, <2>1 DEF TypeOK
  <2>4. CopyIsCurrent(pc'[c], mem'[c], unsaved'[c], ckpt')
    BY <2>1, <2>2, <2>3 DEF CopyIsCurrent
  <2>5. Mine(c)
    BY <2>1, <2>2, <2>3, <2>4 DEF Mine
  <2>6. QED
    BY <1>0, <2>1, <2>2, <2>5, AloneIfActive, CommitsStay, SerialStep
<1>2. CASE learn_reward(c)
  <2> DEFINE s == mem[c].state
  <2>1. /\ pc[c] = "reward" /\ pc' = [pc EXCEPT ![c] = "run"]
        /\ UNCHANGED <<ckpt, worktree, tree, commits>>
        /\ advance(c, "learn", s) /\ "learn" \in Nodes
    BY <1>2 DEF learn_reward, git, Nodes
  <2>2. s \in States /\ mem[c].next = "learn" /\ Active(c)
    BY <1>0, <2>1, MemTyping DEF IInv, CallsOk, CallOk, Active
  <2>3. GreenOk(mem[c], worktree, tree) /\ GreenOk(ckpt, worktree, tree)
    BY DEF SerialInv
  <2>4. LeavesGreen("learn", s, worktree', tree')
    BY <2>1, <2>2, <2>3 DEF LeavesGreen, GreenOk
  <2>5. QED
    BY <1>0, <2>1, <2>2, <2>3, <2>4, AdvanceSerial, CommitsStay
<1>3. QED
  BY <1>1, <1>2

\* The worktree goes, or stays as it was.
LEMMA TeardownSerial ==
  ASSUME IInv, SerialInv, NEW c \in Calls, teardown(c)
  PROVE  SerialInv'
<1> DEFINE s == mem[c].state
<1>1. /\ AtNode(c, "teardown") /\ "teardown" \in Nodes /\ advance(c, "teardown", s)
      /\ UNCHANGED <<ckpt, pc, commits>>
  BY DEF teardown, Nodes
<1>2. worktree' => worktree /\ tree' = tree
  BY DEF teardown
<1>3. TypeOK
  BY DEF IInv
<1>4. /\ Active(c) /\ pc[c] = "run" /\ mem[c].next = "teardown"
      /\ s \in States /\ ~s.pending
      /\ GreenOk(mem[c], worktree, tree) /\ GreenOk(ckpt, worktree, tree)
  BY <1>1, <1>3, NodeReady
<1>5. GreenOk(ckpt, worktree', tree')
  BY <1>2, <1>4, NotGreen
<1>6. LeavesGreen("teardown", s, worktree', tree')
  BY <1>2, <1>4 DEF LeavesGreen, GreenOk
<1>7. pc' = [pc EXCEPT ![c] = "run"]
  BY <1>1, <1>3, <1>4 DEF TypeOK
<1>8. QED
  BY <1>1, <1>3, <1>4, <1>5, <1>6, <1>7, AdvanceSerial, CommitsStay

\* A call that raises or returns.
LEMMA LeaversSerial ==
  ASSUME IInv, SerialInv, NEW c \in Calls,
         \/ bootstrap_refused(c) \/ (bootstrap_provision(c) /\ Leave(c))
         \/ apply_raises(c) \/ verify_raises(c) \/ finalize_raises(c)
         \/ learn_unknown(c) \/ learn_raises(c) \/ node_raises(c) \/ invoke_returns(c)
  PROVE  SerialInv'
<1>0. TypeOK
  BY DEF IInv
<1>1. Leave(c) /\ ckpt' = ckpt /\ commits' = commits /\ worktree' = worktree
  BY DEF bootstrap_refused, bootstrap_provision, apply_raises, verify_raises, finalize_raises,
         learn_unknown, learn_raises, node_raises, invoke_returns, git
<1>2. Active(c)
  BY DEF bootstrap_refused, bootstrap_provision, apply_raises, verify_raises, finalize_raises,
         learn_unknown, learn_raises, node_raises, invoke_returns, AtNode, Active
<1>3. GreenOk(ckpt, worktree, tree)
  BY DEF SerialInv
<1>4. GreenOk(ckpt, worktree', tree')
  <2>1. CASE verify_raises(c)
    <3>1. AtNode(c, "verify") /\ "verify" \in Nodes
      BY <2>1 DEF verify_raises, Nodes
    <3>2. ckpt.next = "verify"
      BY <1>0, <3>1, NodeReady
    <3>3. ~_gates_ok(ckpt.state)
      BY <1>3, <3>2 DEF GreenOk
    <3>4. QED
      BY <1>3, <3>3, NotGreen
  <2>2. CASE ~verify_raises(c)
    <3>1. tree' = tree
      BY <2>2 DEF bootstrap_refused, bootstrap_provision, apply_raises, finalize_raises,
                  learn_unknown, learn_raises, node_raises, invoke_returns, git
    <3>2. QED
      BY <1>1, <1>3, <3>1
  <2>3. QED
    BY <2>1, <2>2
<1>5. QED
  BY <1>0, <1>1, <1>2, <1>4, LeaveSerial, CommitsStay

\* A call arrives when there is none in progress.
LEMMA ArriveAlone ==
  ASSUME MaxActive <= 1, NEW c \in Calls, NEW kind, Arrive(c, kind)
  PROVE  Alone(c)
<1> DEFINE Busy == {d \in Calls : Active(d)}
<1>1. IsFiniteSet(Busy)
  BY DevConstants, FS_Subset
<1>2. Cardinality(Busy) \in Nat /\ Cardinality(Busy) < MaxActive
  BY <1>1, FS_CardinalityType DEF Arrive
<1>3. Cardinality(Busy) = 0
  BY <1>2, DevConstants
<1>4. Busy = {}
  BY <1>1, <1>3, FS_EmptySet
<1>5. QED
  BY <1>4 DEF Alone

\* A call starts from the checkpoint: start() puts it back to bootstrap, with the
\* report that it has; approve() takes it as it is.
LEMMA CallSerial ==
  ASSUME MaxActive <= 1, IInv, SerialInv, NEW c \in Calls, start(c) \/ approve(c)
  PROVE  SerialInv'
<1>0. TypeOK
  BY DEF IInv
<1>1. /\ Alone(c) /\ pc[c] = "idle"
      /\ UNCHANGED <<ckpt, worktree, tree, commits>>
  BY ArriveAlone DEF start, approve, Arrive, git
<1>2. unsaved[c] = "no" /\ GreenOk(ckpt, worktree, tree)
  BY <1>1 DEF SerialInv, CopyIsCurrent
<1>3. Mine(c)
  <2>1. CASE start(c)
    <3>1. PICK t : t = [state |-> initial_state(ckpt.state), next |-> "bootstrap"]
      OBVIOUS
    <3>2. /\ pc' = [pc EXCEPT ![c] = "run"] /\ unsaved' = [unsaved EXCEPT ![c] = "yes"]
          /\ mem' = [mem EXCEPT ![c] = t]
      BY <2>1, <3>1 DEF start
    <3>3. ckpt.state \in States
      BY <1>0 DEF TypeOK, Threads
    <3>4. /\ t.state.verify_report = ckpt.state.verify_report /\ t.next = "bootstrap"
          /\ ~t.state.pending
      BY <3>1, <3>3 DEF initial_state, States
    <3>5. GreenOk(t, worktree, tree)
      BY <1>2, <3>4 DEF GreenOk, _gates_ok
    <3>6. /\ pc'[c] = "run" /\ unsaved'[c] = "yes" /\ mem'[c] = t
          /\ \A d \in Calls : d # c =>
               pc'[d] = pc[d] /\ mem'[d] = mem[d] /\ unsaved'[d] = unsaved[d]
      BY <1>0, <3>2 DEF TypeOK
    <3>7. QED
      BY <1>1, <1>2, <3>5, <3>6 DEF Mine, CopyIsCurrent
  <2>2. CASE approve(c)
    <3>1. /\ pc' = [pc EXCEPT ![c] = "update_write"] /\ unsaved' = unsaved
          /\ mem' = [mem EXCEPT ![c] = ckpt]
      BY <2>2 DEF approve
    <3>2. /\ pc'[c] = "update_write" /\ unsaved'[c] = "no" /\ mem'[c] = ckpt
          /\ \A d \in Calls : d # c =>
               pc'[d] = pc[d] /\ mem'[d] = mem[d] /\ unsaved'[d] = unsaved[d]
      BY <1>0, <1>2, <3>1 DEF TypeOK
    <3>3. QED
      BY <1>1, <1>2, <3>2 DEF Mine, CopyIsCurrent
  <2>3. QED
    BY <2>1, <2>2
<1>4. QED
  BY <1>0, <1>1, <1>3, CommitsStay, SerialStep

\* An approved thread goes on to finalize, where the files are as they were.
LEMMA UpdateSerial ==
  ASSUME IInv, SerialInv, NEW c \in Calls, update_state(c)
  PROVE  SerialInv'
<1> DEFINE old == mem[c].state
<1>0. TypeOK /\ old \in States
  BY MemTyping DEF IInv
<1>1. PICK p : p = [old EXCEPT !.status = "running", !.pending = FALSE]
  OBVIOUS
<1>2. /\ ckpt' = [state |-> p, next |-> route_after_human_review(p)]
      /\ unsaved' = Overtaken(c) /\ pc[c] = "update_write"
      /\ pc' = [pc EXCEPT ![c] = "load"] /\ UNCHANGED <<mem, worktree, tree, commits>>
  BY <1>1 DEF update_state, git
<1>3. p.verify_report = old.verify_report /\ ~p.pending /\ p.status = "running"
  BY <1>0, <1>1 DEF States
<1>4. ckpt'.state = p /\ ckpt'.next = "finalize"
  BY <1>2, <1>3 DEF route_after_human_review
<1>5. GreenOk(mem[c], worktree, tree) /\ unsaved[c] # "overtaken"
  BY DEF SerialInv, CopyIsCurrent
<1>6. GreenOk(ckpt', worktree', tree')
  BY <1>2, <1>3, <1>4, <1>5 DEF GreenOk, _gates_ok
<1>7. Active(c)
  BY <1>2 DEF Active
<1>8. Alone(c)
  BY <1>7, AloneIfActive
<1>9. unsaved'[c] = unsaved[c] /\ \A d \in Calls : d # c => unsaved'[d] = unsaved[d]
  BY <1>0, <1>2, <1>8, OthersHoldNothing DEF Overtaken
<1>10. pc'[c] = "load" /\ \A d \in Calls : d # c => pc'[d] = pc[d]
  BY <1>0, <1>2 DEF TypeOK
<1>11. Mine(c)
  BY <1>2, <1>5, <1>6, <1>9, <1>10 DEF Mine, CopyIsCurrent
<1>12. QED
  BY <1>0, <1>2, <1>8, <1>11, CommitsStay, SerialStep

\* invoke(None) works on a copy of the checkpoint.
LEMMA LoadSerial ==
  ASSUME IInv, SerialInv, NEW c \in Calls, load(c)
  PROVE  SerialInv'
<1>0. TypeOK
  BY DEF IInv
<1>1. /\ pc[c] = "load" /\ pc' = [pc EXCEPT ![c] = "run"]
      /\ mem' = [mem EXCEPT ![c] = ckpt]
      /\ UNCHANGED <<ckpt, unsaved, worktree, tree, commits>>
  BY DEF load, git
<1>2. /\ pc'[c] = "run" /\ mem'[c] = ckpt
      /\ \A d \in Calls : d # c => pc'[d] = pc[d] /\ mem'[d] = mem[d]
  BY <1>0, <1>1 DEF TypeOK
<1>3. GreenOk(ckpt, worktree, tree) /\ unsaved[c] # "overtaken" /\ Active(c)
  BY <1>1 DEF SerialInv, CopyIsCurrent, Active
<1>4. Mine(c)
  BY <1>1, <1>2, <1>3 DEF Mine, CopyIsCurrent
<1>5. QED
  BY <1>0, <1>1, <1>3, <1>4, AloneIfActive, CommitsStay, SerialStep

\* There is no newer checkpoint than the result.
LEMMA SaveSerial ==
  ASSUME IInv, SerialInv, NEW c \in Calls, save(c)
  PROVE  SerialInv'
<1>0. TypeOK
  BY DEF IInv
<1>1. /\ GreenOk(mem[c], worktree, tree) /\ unsaved[c] # "overtaken"
      /\ CopyIsCurrent(pc[c], mem[c], unsaved[c], ckpt)
  BY DEF SerialInv, CopyIsCurrent
<1>2. /\ unsaved[c] # "no" /\ ckpt' = mem[c]
      /\ unsaved' = [Overtaken(c) EXCEPT ![c] = "no"]
      /\ UNCHANGED <<pc, mem, worktree, tree, commits>>
  BY <1>1 DEF save, git
<1>3. Active(c)
  BY <1>0, <1>1, <1>2 DEF CopyIsCurrent, Active, TypeOK
<1>4. Alone(c)
  BY <1>3, AloneIfActive
<1>5. unsaved'[c] = "no" /\ \A d \in Calls : d # c => unsaved'[d] = unsaved[d]
  BY <1>0, <1>2, <1>4, OthersHoldNothing DEF Overtaken
<1>6. CopyIsCurrent(pc'[c], mem'[c], unsaved'[c], ckpt')
  BY <1>1, <1>2, <1>3, <1>5 DEF CopyIsCurrent, Active
<1>7. Mine(c)
  BY <1>1, <1>2, <1>5, <1>6 DEF Mine
<1>8. QED
  BY <1>0, <1>2, <1>4, <1>7, CommitsStay, SerialStep

\* A crash leaves no copy but the checkpoint.
LEMMA CrashSerial ==
  ASSUME IInv, SerialInv, Crash
  PROVE  SerialInv'
<1>1. /\ \A d \in Calls : pc'[d] \in {"idle", "done"} /\ mem'[d] = NoThread /\ unsaved'[d] = "no"
      /\ UNCHANGED <<ckpt, worktree, tree, commits>>
  BY DEF Crash, git, Active, IInv, TypeOK
<1>2. OneAtATime'
  BY <1>1 DEF OneAtATime, Active
<1>3. \A d \in Calls : /\ GreenOk(mem'[d], worktree', tree')
                       /\ CopyIsCurrent(pc'[d], mem'[d], unsaved'[d], ckpt')
  BY <1>1, NoThreadGreen DEF CopyIsCurrent
<1>4. GreenOk(ckpt', worktree', tree')
  BY <1>1 DEF SerialInv
<1>5. QED
  BY <1>1, <1>2, <1>3, <1>4, CommitsStay DEF SerialInv

-----------------------------------------------------------------------------
(* The theorems. *)

\* Before the first call there is nothing to compare.
LEMMA InitSerial == Init => SerialInv
<1> SUFFICES ASSUME Init PROVE SerialInv
  OBVIOUS
<1>1. OneAtATime
  BY DEF Init, OneAtATime, Active
<1>2. GreenOk(ckpt, worktree, tree) /\ \A c \in Calls : GreenOk(mem[c], worktree, tree)
  BY NoThreadGreen DEF Init
<1>3. \A c \in Calls : CopyIsCurrent(pc[c], mem[c], unsaved[c], ckpt)
  BY DEF Init, CopyIsCurrent
<1>4. CommitIsGated
  BY DEF Init, CommitIsGated
<1>5. QED
  BY <1>1, <1>2, <1>3, <1>4 DEF SerialInv

\* Every step keeps it.
LEMMA NextSerial ==
  ASSUME MaxActive <= 1, IInv, SerialInv, [Next]_vars
  PROVE  SerialInv'
<1>1. ASSUME NEW c \in Calls, start(c) \/ approve(c) PROVE SerialInv'
  BY <1>1, CallSerial
<1>2. ASSUME NEW c \in Calls, Serve(c) PROVE SerialInv'
  <2>1. CASE update_state(c)
    BY <2>1, UpdateSerial
  <2>2. CASE load(c)
    BY <2>2, LoadSerial
  <2>3. CASE bootstrap_create(c) \/ (bootstrap_provision(c) /\ ~Leave(c))
    BY <2>3, BootstrapSerial
  <2>4. CASE load_context(c) \/ retrieve(c) \/ analyze(c) \/ plan(c) \/ implement(c)
               \/ reflect(c) \/ human_review(c)
    BY <2>4, PlainNodesSerial
  <2>5. CASE apply(c)
    BY <2>5, ApplySerial
  <2>6. CASE verify(c)
    BY <2>6, VerifySerial
  <2>7. CASE finalize(c)
    BY <2>7, FinalizeSerial
  <2>8. CASE learn_episode(c) \/ learn_reward(c)
    BY <2>8, LearnSerial
  <2>9. CASE teardown(c)
    BY <2>9, TeardownSerial
  <2>10. CASE save(c)
    BY <2>10, SaveSerial
  <2>11. CASE \/ bootstrap_refused(c) \/ (bootstrap_provision(c) /\ Leave(c))
              \/ apply_raises(c) \/ verify_raises(c) \/ finalize_raises(c)
              \/ learn_unknown(c) \/ learn_raises(c) \/ node_raises(c) \/ invoke_returns(c)
    BY <2>11, LeaversSerial
  <2>12. QED
    BY <1>2, <2>1, <2>2, <2>3, <2>4, <2>5, <2>6, <2>7, <2>8, <2>9, <2>10, <2>11 DEF Serve
<1>3. CASE Crash
  BY <1>3, CrashSerial
<1>4. CASE UNCHANGED vars
  BY <1>4 DEF vars, SerialInv, OneAtATime, Active, CommitIsGated
<1>5. QED
  BY <1>1, <1>2, <1>3, <1>4 DEF Next, Quiet

\* When calls are made one at a time, the invariant holds in every reachable state.
THEOREM SerialInvariance ==
  ASSUME MaxActive <= 1
  PROVE  Spec => []SerialInv
<1>1. IInv /\ SerialInv /\ [Next]_vars => SerialInv'
  BY NextSerial
<1>2. QED
  BY <1>1, InitSerial, Invariance, PTL DEF Spec

\* Of calls made one at a time, however many fail or crash, every commit is of the
\* worktree as the gates left it when they were green, whether their report is
\* the commit's own or left from an earlier attempt or start.
THEOREM CommitsGated ==
  ASSUME MaxActive <= 1
  PROVE  Spec => []CommitIsGated
<1>1. SerialInv => CommitIsGated
  BY DEF SerialInv
<1>2. QED
  BY <1>1, SerialInvariance, PTL

\* Of calls made one at a time, a run that waits for its review is green, and the
\* files under review are still as the gates left them.
THEOREM ReviewsCurrent ==
  ASSUME MaxActive <= 1
  PROVE  Spec => []ReviewIsCurrent
<1>1. SerialInv => ReviewIsCurrent
  BY DEF SerialInv, GreenOk, ReviewIsCurrent
<1>2. QED
  BY <1>1, SerialInvariance, PTL

-----------------------------------------------------------------------------
(* The books of the task, when nothing fails and only parked runs are       *)
(* approved: the lemmas on the places where a thread may be.                 *)

Calm == MaxActive <= 1 /\ MaxCrashes = 0 /\ ~ToolsFail /\ ~ApproveUnparked

\* A thread that is at one node is at no other.
LEMMA Place ==
  ASSUME NEW t, NEW br, NEW wt, NEW n, NEW ep, NEW rw, Going("run", t, br, wt, n, ep, rw)
  PROVE  /\ t.next = "bootstrap" => \/ Fresh(t) /\ ~br /\ Untold(n, ep, rw)
                                    \/ Lost(t, br, n, ep, rw)
         /\ t.next \in Nodes \ {"bootstrap", "learn", "teardown"} =>
              Underway(t, br, wt, n, ep, rw)
         /\ t.next = "learn" => Learning(t, br, wt, n, rw) /\ ep = 0
         /\ t.next = "teardown" => Closing(t, br, wt, n, ep, rw)
         /\ t.next = "end" => Resting(t, br, wt, n, ep, rw)
  BY DEF Going, Fresh, Lost, Underway, Learning, Closing, Resting, Nodes

\* A run that is underway stays so up to its review, and after it.
LEMMA UnderwayRouted ==
  ASSUME NEW a \in Nodes \ {"finalize", "learn", "teardown"}, NEW s, NEW late,
         NEW br, NEW wt, NEW n, NEW ep, NEW rw,
         s.known, s.workspace, s.outcome = "none",
         s.pending <=> a = "human_review" /\ s.status = "waiting_for_human",
         br, wt, Untold(n, ep, rw)
  PROVE  Underway([state |-> s, next |-> NextNode(a, s, late)], br, wt, n, ep, rw)
<1> DEFINE m == NextNode(a, s, late)
<1>1. m \in Nodes \ {"bootstrap", "learn", "teardown"} \/ (a = "human_review" /\ m = "end")
  BY NextCases DEF Nodes
<1>2. a = "human_review" => (m = "end" <=> s.status = "waiting_for_human")
  <2>1. "finalize" # "end"
    OBVIOUS
  <2>2. QED
    BY <2>1, Zenon DEF NextNode, route_after_human_review
<1>3. \A x : [state |-> s, next |-> x].state = s /\ [state |-> s, next |-> x].next = x
  OBVIOUS
<1>4. "end" \notin Nodes
  BY DEF Nodes
<1> HIDE DEF m
<1>5. Underway([state |-> s, next |-> m], br, wt, n, ep, rw)
  BY <1>1, <1>2, <1>3, <1>4 DEF Underway
<1>6. QED
  BY <1>5 DEF m

\* The commits are counted.
LEMMA CommitCount == TypeOK => Len(commits) \in Nat
  BY DEF TypeOK

\* A call that leaves the others alone leaves the books as it left its own.
LEMMA BookStep ==
  ASSUME TypeOK, NEW c \in Calls, Alone(c),
         \A d \in Calls : d # c => pc'[d] = pc[d],
         IF pc'[c] \in {"idle", "done"}
           THEN Resting(ckpt', branch', worktree', Len(commits'), episodes', rewards')
           ELSE CallBooks(pc'[c], mem'[c], unsaved'[c], ckpt',
                          branch', worktree', Len(commits'), episodes', rewards')
  PROVE  BookInv'
<1>1. \A d \in Calls : d # c => pc'[d] \in {"idle", "done"}
  BY DEF Alone, Active, TypeOK
<1>2. QED
  BY <1>1 DEF BookInv, Active

\* What is known of the call in progress.
LEMMA MyBooks ==
  ASSUME BookInv, NEW c \in Calls, Active(c)
  PROVE  CallBooks(pc[c], mem[c], unsaved[c], ckpt,
                   branch, worktree, Len(commits), episodes, rewards)
  BY DEF BookInv

\* A node finds its call's books beside the checkpoint that names it.
LEMMA NodeBooks ==
  ASSUME IInv, SerialInv, BookInv, NEW c \in Calls, NEW a \in Nodes, AtNode(c, a)
  PROVE  /\ Active(c) /\ Alone(c) /\ mem[c] = ckpt /\ mem[c].next = a /\ ckpt.next \in Nodes
         /\ mem[c].state \in States /\ ~mem[c].state.pending
         /\ Going("run", mem[c], branch, worktree, Len(commits), episodes, rewards)
         /\ GreenOk(mem[c], worktree, tree)
         /\ pc[c] = "run" /\ unsaved[c] = "no"
<1>1. /\ Active(c) /\ mem[c] = ckpt /\ mem[c].next = a /\ pc[c] = "run"
      /\ mem[c].state \in States /\ ~mem[c].state.pending /\ GreenOk(mem[c], worktree, tree)
  BY NodeReady DEF IInv
<1>2. Going("run", mem[c], branch, worktree, Len(commits), episodes, rewards)
  BY <1>1, MyBooks DEF CallBooks
<1>3. QED
  BY <1>1, <1>2, AloneIfActive DEF AtNode

\* A node that returns: it is enough that its result keeps the books, whatever the
\* clock says, and shows the next stage.
LEMMA AdvanceBooks ==
  ASSUME IInv, SerialInv, NEW c \in Calls, Active(c), NEW a \in Nodes, NEW s \in States,
         advance(c, a, s), pc' = [pc EXCEPT ![c] = "run"], ckpt' = ckpt, ckpt.next \in Nodes,
         \A late \in BOOLEAN :
           LET t == [state |-> s, next |-> NextNode(a, s, late)]
           IN /\ Going("run", t, branch', worktree', Len(commits'), episodes', rewards')
              /\ require_human_review => Advances(ckpt, t, Len(commits'))
  PROVE  BookInv'
<1>1. TypeOK
  BY DEF IInv
<1>2. PICK late \in BOOLEAN : mem'[c] = [state |-> s, next |-> NextNode(a, s, late)]
  BY <1>1, AdvanceTyping
<1>3. /\ pc'[c] = "run" /\ unsaved'[c] = "yes"
      /\ \A d \in Calls : d # c => pc'[d] = pc[d]
  BY <1>1 DEF advance, TypeOK
<1>4. /\ Going("run", mem'[c], branch', worktree', Len(commits'), episodes', rewards')
      /\ require_human_review => Advances(ckpt, mem'[c], Len(commits'))
  BY <1>2
<1>5. CallBooks("run", mem'[c], "yes", ckpt', branch', worktree', Len(commits'),
                episodes', rewards')
  BY <1>4 DEF CallBooks
<1>6. QED
  BY <1>1, <1>3, <1>5, AloneIfActive, BookStep

\* A call that returns with the thread at rest.
LEMMA LeaveBooks ==
  ASSUME IInv, SerialInv, NEW c \in Calls, Active(c), Leave(c), UNCHANGED <<ckpt, git, memory>>,
         Resting(ckpt, branch, worktree, Len(commits), episodes, rewards)
  PROVE  BookInv'
<1>1. TypeOK
  BY DEF IInv
<1>2. /\ pc'[c] = "done"
      /\ \A d \in Calls : d # c => pc'[d] = pc[d]
  BY <1>1 DEF Leave, TypeOK
<1>3. QED
  BY <1>1, <1>2, AloneIfActive, BookStep DEF git, memory

-----------------------------------------------------------------------------
(* The stages that a client sees. *)

\* The stage that a thread shows, by its place.
LEMMA TaskStage ==
  ASSUME NEW t, NEW br, NEW wt, NEW n, NEW ep, NEW rw
  PROVE  /\ VisibleStage(NoThread) = "none"
         /\ Fresh(t) => VisibleStage(t) = "running"
         /\ Lost(t, br, n, ep, rw) => VisibleStage(t) = "lost"
         /\ Underway(t, br, wt, n, ep, rw) =>
              /\ t.state.pending => VisibleStage(t) = "review"
              /\ ~t.state.pending /\ (t.next = "finalize" => ~_gates_ok(t.state)) =>
                   VisibleStage(t) = "running"
              /\ t.next = "finalize" /\ _gates_ok(t.state) => VisibleStage(t) = "approved"
         /\ Learning(t, br, wt, n, rw) \/ Closing(t, br, wt, n, ep, rw) =>
              VisibleStage(t) = IF t.state.outcome = "completed" THEN "delivered" ELSE "failed"
<1>1. ASSUME NEW u, u.next = "none", ~u.state.pending PROVE VisibleStage(u) = "none"
  <2>1. /\ u.next # "bootstrap" /\ u.next # "finalize"
        /\ u.next \notin {"learn", "teardown", "end"}
    BY <1>1
  <2>2. QED
    BY <1>1, <2>1, Zenon DEF VisibleStage
<1>2. ASSUME t.state.pending, t.next = "end", t.state.outcome = "none"
      PROVE  VisibleStage(t) = "review"
  <2>1. /\ t.next # "none" /\ t.next # "bootstrap" /\ t.next # "finalize"
        /\ t.state.outcome # "completed" /\ t.state.outcome # "failed"
    BY <1>2
  <2>2. QED
    BY <1>2, <2>1, Zenon DEF VisibleStage
<1>3. ASSUME t.next = "bootstrap", t.state.workspace, ~t.state.pending
      PROVE  VisibleStage(t) = "lost"
  <2>1. /\ t.next # "none" /\ t.next # "finalize"
        /\ t.next \notin {"learn", "teardown", "end"}
    BY <1>3
  <2>2. QED
    BY <1>3, <2>1, Zenon DEF VisibleStage
<1>4. ASSUME t.next = "finalize", _gates_ok(t.state), ~t.state.pending
      PROVE  VisibleStage(t) = "approved"
  <2>1. /\ t.next # "none" /\ t.next # "bootstrap"
        /\ t.next \notin {"learn", "teardown", "end"}
    BY <1>4
  <2>2. QED
    BY <1>4, <2>1, Zenon DEF VisibleStage
<1>5. ASSUME t.next \in {"learn", "teardown", "end"}, ~t.state.pending
      PROVE  /\ t.state.outcome = "completed" => VisibleStage(t) = "delivered"
             /\ t.state.outcome = "failed" => VisibleStage(t) = "failed"
  <2>1. t.next # "none" /\ t.next # "bootstrap" /\ t.next # "finalize"
    BY <1>5
  <2>2. ASSUME t.state.outcome = "completed", t.state.outcome # "failed"
        PROVE  VisibleStage(t) = "delivered"
    BY <1>5, <2>1, <2>2, Zenon DEF VisibleStage
  <2>3. ASSUME t.state.outcome = "failed", t.state.outcome # "completed"
        PROVE  VisibleStage(t) = "failed"
    BY <1>5, <2>1, <2>3, Zenon DEF VisibleStage
  <2>4. QED
    BY <2>2, <2>3
<1>6. ASSUME ~t.state.pending, t.next # "none", t.next \notin {"learn", "teardown", "end"},
             t.next = "bootstrap" => ~t.state.workspace,
             t.next = "finalize" => ~_gates_ok(t.state)
      PROVE  VisibleStage(t) = "running"
  BY <1>6, Zenon DEF VisibleStage
<1>7. VisibleStage(NoThread) = "none"
  BY <1>1 DEF NoThread, Blank
<1>8. Fresh(t) => VisibleStage(t) = "running"
  BY <1>6 DEF Fresh
<1>9. Lost(t, br, n, ep, rw) => VisibleStage(t) = "lost"
  BY <1>3 DEF Lost
<1>10. ASSUME Underway(t, br, wt, n, ep, rw)
       PROVE  /\ t.state.pending => VisibleStage(t) = "review"
              /\ ~t.state.pending /\ (t.next = "finalize" => ~_gates_ok(t.state)) =>
                   VisibleStage(t) = "running"
              /\ t.next = "finalize" /\ _gates_ok(t.state) => VisibleStage(t) = "approved"
  BY <1>2, <1>4, <1>6, <1>10 DEF Underway, Nodes
<1>11. Learning(t, br, wt, n, rw) \/ Closing(t, br, wt, n, ep, rw) =>
         VisibleStage(t) = IF t.state.outcome = "completed" THEN "delivered" ELSE "failed"
  BY <1>5 DEF Learning, Closing, Told, Committed
<1>12. QED
  BY <1>7, <1>8, <1>9, <1>10, <1>11

-----------------------------------------------------------------------------
(* The books: the nodes. *)

\* A node on the way to the review, or past it to finalize.
LEMMA UnderwayBooks ==
  ASSUME IInv, SerialInv, BookInv, NEW c \in Calls,
         NEW a \in Nodes \ {"bootstrap", "finalize", "learn", "teardown"}, AtNode(c, a),
         NEW s \in States, advance(c, a, s),
         s.known = mem[c].state.known, s.workspace = mem[c].state.workspace,
         s.outcome = mem[c].state.outcome,
         s.pending <=> a = "human_review" /\ s.status = "waiting_for_human",
         a = "human_review" /\ require_human_review => s.pending,
         a = "apply" => ~_gates_ok(s),
         UNCHANGED <<ckpt, pc, branch, worktree, commits, episodes, rewards>>
  PROVE  BookInv'
<1> DEFINE n == Len(commits)
<1>1. /\ Active(c) /\ mem[c] = ckpt /\ mem[c].next = a /\ ckpt.next \in Nodes
      /\ pc[c] = "run" /\ ~mem[c].state.pending
      /\ Going("run", mem[c], branch, worktree, n, episodes, rewards)
  BY NodeBooks
<1>2. Underway(mem[c], branch, worktree, n, episodes, rewards)
  BY <1>1, Place
<1>3. /\ s.known /\ s.workspace /\ s.outcome = "none" /\ branch /\ worktree
      /\ Untold(n, episodes, rewards)
  BY <1>2 DEF Underway
<1>4. VisibleStage(ckpt) = "running"
  BY <1>1, <1>2, TaskStage
<1>5. ASSUME NEW late \in BOOLEAN
      PROVE  LET t == [state |-> s, next |-> NextNode(a, s, late)]
             IN /\ Going("run", t, branch, worktree, n, episodes, rewards)
                /\ require_human_review => Advances(ckpt, t, n)
  <2>1. PICK t : t = [state |-> s, next |-> NextNode(a, s, late)]
    OBVIOUS
  <2>2. Underway(t, branch, worktree, n, episodes, rewards)
    BY <1>3, <2>1, UnderwayRouted
  <2>3. t.state = s /\ t.next = NextNode(a, s, late)
    BY <2>1
  <2>4. ASSUME require_human_review, ~s.pending, t.next = "finalize" PROVE ~_gates_ok(s)
    <3>1. CASE a = "verify"
      BY <2>3, <2>4, <3>1, NextCases DEF Nodes
    <3>2. CASE a \in {"load_context", "retrieve", "analyze", "plan", "implement", "reflect"}
      <4>1. NextNode(a, s, late) # "finalize"
        BY <3>2, NextCases DEF Nodes
      <4>2. QED
        BY <2>3, <2>4, <4>1
    <3>3. CASE a \in {"apply", "human_review"}
      BY <2>4, <3>3
    <3>4. QED
      BY <3>1, <3>2, <3>3 DEF Nodes
  <2>5. require_human_review => VisibleStage(t) \in {"running", "review"}
    BY <2>2, <2>3, <2>4, TaskStage
  <2>6. require_human_review => Advances(ckpt, t, n)
    BY <1>4, <2>5 DEF Advances
  <2>7. Going("run", t, branch, worktree, n, episodes, rewards)
    BY <2>2 DEF Going
  <2>8. QED
    BY <2>1, <2>6, <2>7
<1>6. pc' = [pc EXCEPT ![c] = "run"]
  BY <1>1 DEF IInv, TypeOK
<1>7. QED
  BY <1>1, <1>5, <1>6, AdvanceBooks

\* The nodes that only ask the LLM or the memory, and the review.
LEMMA PlainBooks ==
  ASSUME IInv, SerialInv, BookInv, NEW c \in Calls,
         load_context(c) \/ retrieve(c) \/ analyze(c) \/ plan(c) \/ implement(c)
           \/ reflect(c) \/ human_review(c)
  PROVE  BookInv'
<1>1. PICK a \in Nodes \ {"bootstrap", "apply", "verify", "finalize", "learn", "teardown"},
           s \in States :
        /\ AtNode(c, a) /\ advance(c, a, s) /\ Reviewed(a, mem[c].state, s)
        /\ UNCHANGED <<ckpt, pc, git, rewards, episodes>>
  BY PlainNodesAdvance DEF IInv
<1>2. ~mem[c].state.pending
  BY <1>1, NodeBooks
<1>3. /\ s.known = mem[c].state.known /\ s.workspace = mem[c].state.workspace
      /\ s.outcome = mem[c].state.outcome
      /\ s.pending <=> a = "human_review" /\ s.status = "waiting_for_human"
      /\ a = "human_review" /\ require_human_review => s.pending
  BY <1>1, <1>2 DEF Reviewed
<1>4. QED
  BY <1>1, <1>3, UnderwayBooks DEF git

\* The nodes that write files.
LEMMA FileBooks ==
  ASSUME IInv, SerialInv, BookInv, NEW c \in Calls, apply(c) \/ verify(c)
  PROVE  BookInv'
<1> DEFINE old == mem[c].state
<1>1. CASE apply(c)
  <2>1. /\ AtNode(c, "apply") /\ "apply" \in Nodes
        /\ UNCHANGED <<ckpt, pc, branch, worktree, commits, episodes, rewards>>
    BY <1>1 DEF apply, Nodes, memory
  <2>2. PICK s : /\ s \in {[old EXCEPT !.applied = TRUE],
                           [old EXCEPT !.applied = FALSE, !.verify_report = NotOk,
                                       !.status = "failed"]}
                 /\ advance(c, "apply", s)
    BY <1>1 DEF apply
  <2>3. old \in States /\ ~old.pending /\ mem[c].next = "apply" /\ GreenOk(mem[c], worktree, tree)
    BY <2>1, NodeBooks
  <2>4. NotOk \in Reports
    BY DEF NotOk, Reports
  <2>5. /\ s \in States /\ s.pending = old.pending /\ s.known = old.known
        /\ s.workspace = old.workspace /\ s.outcome = old.outcome
        /\ s.verify_report = old.verify_report \/ s.verify_report = NotOk
    BY <2>2, <2>3, <2>4 DEF States
  <2>6. ~_gates_ok(old)
    BY <2>3 DEF GreenOk
  <2>7. ~_gates_ok(s)
    BY <2>5, <2>6 DEF _gates_ok, NotOk
  <2>8. QED
    BY <2>1, <2>2, <2>3, <2>5, <2>7, UnderwayBooks
<1>2. CASE verify(c)
  <2>1. /\ AtNode(c, "verify") /\ "verify" \in Nodes
        /\ UNCHANGED <<ckpt, pc, branch, worktree, commits, episodes, rewards>>
    BY <1>2 DEF verify, Nodes, memory
  <2>2. PICK rep \in Reports, status \in {"running", "failed"} :
          advance(c, "verify",
                  [record_llm_call(old) EXCEPT !.verify_report = rep, !.status = status])
    <3>1. PICK rewrites \in SUBSET Rewrites, ok \in BOOLEAN :
            /\ tree' = Gated(rewrites)
            /\ advance(c, "verify",
                 [record_llm_call(old) EXCEPT
                    !.verify_report = IF ok THEN [ok |-> TRUE, tree |-> Gated(rewrites),
                                                  files |-> Paths(old)]
                                            ELSE NotOk,
                    !.status = IF ok THEN "running" ELSE "failed"])
      BY <1>2 DEF verify
    <3>2. Paths(old) \in SUBSET Files
      BY MemTyping DEF Paths, States, IInv
    <3>3. Gated(rewrites) \in SUBSET Changes
      BY DEF IInv, TypeOK, Gated, Changes
    <3>4. PICK rep \in Reports :
            rep = IF ok THEN [ok |-> TRUE, tree |-> Gated(rewrites), files |-> Paths(old)]
                        ELSE NotOk
      BY <3>2, <3>3 DEF Reports, NotOk
    <3>5. PICK status \in {"running", "failed"} : status = IF ok THEN "running" ELSE "failed"
      OBVIOUS
    <3>6. advance(c, "verify",
                  [record_llm_call(old) EXCEPT !.verify_report = rep, !.status = status])
      BY <3>1, <3>4, <3>5
    <3>7. QED
      BY <3>6
  <2>3. old \in States /\ ~old.pending
    BY <2>1, NodeBooks
  <2>4. PICK b \in States : b = record_llm_call(old) /\ SameRun(old, b)
    BY <2>3, CallCounted
  <2>5. PICK s : s = [b EXCEPT !.verify_report = rep, !.status = status]
    OBVIOUS
  <2>6. s \in States /\ SameRun(b, s)
    BY <2>2, <2>5 DEF States, SameRun
  <2>7. /\ advance(c, "verify", s) /\ ~s.pending /\ s.known = old.known
        /\ s.workspace = old.workspace /\ s.outcome = old.outcome
    BY <2>2, <2>3, <2>4, <2>5, <2>6 DEF SameRun
  <2>8. QED
    BY <2>1, <2>6, <2>7, UnderwayBooks
<1>3. QED
  BY <1>1, <1>2

\* bootstrap makes the worktree of a fresh thread; a lost one is refused.
LEMMA BootstrapBooks ==
  ASSUME Calm, IInv, SerialInv, BookInv, NEW c \in Calls,
         bootstrap_create(c) \/ bootstrap_refused(c) \/ bootstrap_provision(c)
  PROVE  BookInv'
<1> DEFINE n == Len(commits)
<1>0. TypeOK
  BY DEF IInv
<1>1. CASE bootstrap_create(c)
  <2>1. /\ AtNode(c, "bootstrap") /\ "bootstrap" \in Nodes /\ ~branch
        /\ branch' = TRUE /\ worktree' = TRUE /\ pc' = [pc EXCEPT ![c] = "provision"]
        /\ UNCHANGED <<ckpt, mem, unsaved, commits, episodes, rewards>>
    BY <1>1 DEF bootstrap_create, Nodes, memory
  <2>2. /\ Alone(c) /\ unsaved[c] = "no" /\ mem[c].next = "bootstrap"
        /\ Going("run", mem[c], branch, worktree, n, episodes, rewards)
    BY <2>1, NodeBooks
  <2>3. Fresh(mem[c]) /\ Untold(n, episodes, rewards)
    BY <2>1, <2>2, Place DEF Lost
  <2>4. CallBooks("provision", mem[c], unsaved[c], ckpt, TRUE, TRUE, n, episodes, rewards)
    BY <2>2, <2>3 DEF CallBooks, Going
  <2>5. pc'[c] = "provision" /\ \A d \in Calls : d # c => pc'[d] = pc[d]
    BY <1>0, <2>1 DEF TypeOK
  <2>6. QED
    BY <1>0, <2>1, <2>2, <2>4, <2>5, BookStep
<1>2. CASE bootstrap_refused(c)
  <2>1. /\ AtNode(c, "bootstrap") /\ "bootstrap" \in Nodes /\ branch /\ Leave(c)
        /\ UNCHANGED <<ckpt, git, memory>>
    BY <1>2 DEF bootstrap_refused, Nodes
  <2>2. /\ Active(c) /\ mem[c] = ckpt /\ mem[c].next = "bootstrap"
        /\ Going("run", mem[c], branch, worktree, n, episodes, rewards)
    BY <2>1, NodeBooks
  <2>3. Lost(ckpt, branch, n, episodes, rewards)
    BY <2>1, <2>2, Place
  <2>4. QED
    BY <2>1, <2>2, <2>3, LeaveBooks DEF Resting
<1>3. CASE bootstrap_provision(c)
  <2> DEFINE old == mem[c].state
  <2>1. /\ pc[c] = "provision" /\ pc' = [pc EXCEPT ![c] = "run"]
        /\ UNCHANGED <<ckpt, branch, worktree, commits, episodes, rewards>>
        /\ advance(c, "bootstrap", [old EXCEPT !.workspace = TRUE, !.status = "running"])
    BY <1>3 DEF bootstrap_provision, git, memory, Calm
  <2>2. Active(c)
    BY <2>1 DEF Active
  <2>3. /\ Fresh(mem[c]) /\ branch /\ worktree /\ Untold(n, episodes, rewards)
        /\ unsaved[c] = "no"
    BY <2>1, <2>2, MyBooks DEF CallBooks, Going
  <2>4. mem[c] = ckpt /\ old \in States /\ ~_gates_ok(old)
    BY <1>0, <2>1, <2>3, MemTyping DEF SerialInv, CopyIsCurrent
  <2>5. PICK s : s = [old EXCEPT !.workspace = TRUE, !.status = "running"]
    OBVIOUS
  <2>6. /\ s \in States /\ s.known /\ s.workspace /\ s.outcome = "none" /\ ~s.pending
    BY <2>3, <2>4, <2>5 DEF States, Fresh
  <2>7. ASSUME NEW late \in BOOLEAN
        PROVE  LET t == [state |-> s, next |-> NextNode("bootstrap", s, late)]
               IN /\ Going("run", t, branch, worktree, n, episodes, rewards)
                  /\ require_human_review => Advances(ckpt, t, n)
    <3>1. PICK t : t = [state |-> s, next |-> NextNode("bootstrap", s, late)]
      OBVIOUS
    <3>2. "bootstrap" \in Nodes \ {"finalize", "learn", "teardown"}
      BY DEF Nodes
    <3>3. Underway(t, branch, worktree, n, episodes, rewards)
      BY <2>3, <2>6, <3>1, <3>2, UnderwayRouted
    <3>4. t.state = s /\ t.next = "load_context"
      BY <3>1, <3>2, NextCases
    <3>5. VisibleStage(t) = "running" /\ VisibleStage(ckpt) = "running"
      BY <2>3, <2>4, <2>6, <3>3, <3>4, TaskStage
    <3>6. QED
      BY <3>1, <3>3, <3>5 DEF Going, Advances
  <2>8. advance(c, "bootstrap", s) /\ "bootstrap" \in Nodes /\ ckpt.next \in Nodes
    BY <2>1, <2>3, <2>4, <2>5 DEF Nodes, Fresh
  <2>9. QED
    BY <2>1, <2>2, <2>6, <2>7, <2>8, AdvanceBooks
<1>4. QED
  BY <1>1, <1>2, <1>3

\* finalize makes the one commit of a green run, and tells its outcome.
LEMMA FinalizeBooks ==
  ASSUME IInv, SerialInv, BookInv, NEW c \in Calls, finalize(c)
  PROVE  /\ BookInv'
         /\ mem[c] = ckpt /\ Len(commits) = 0
         /\ Len(commits') = IF _gates_ok(ckpt.state) THEN 1 ELSE 0
         /\ _gates_ok(ckpt.state) => VisibleStage(ckpt) = "approved"
<1> DEFINE old == mem[c].state
           n == Len(commits)
           commit == _gates_ok(old) /\ old.workspace
           new == [tree |-> tree, gated |-> old.verify_report.tree,
                   files |-> old.verify_report.files]
<1>0. TypeOK
  BY DEF IInv
<1>1. /\ AtNode(c, "finalize") /\ "finalize" \in Nodes
      /\ UNCHANGED <<ckpt, pc, branch, worktree, episodes, rewards>>
      /\ commits' = IF commit THEN Append(commits, new) ELSE commits
  BY DEF finalize, Nodes, memory
<1>2. /\ Active(c) /\ mem[c] = ckpt /\ mem[c].next = "finalize" /\ ckpt.next \in Nodes
      /\ pc[c] = "run" /\ old \in States /\ ~old.pending
      /\ Going("run", mem[c], branch, worktree, n, episodes, rewards)
  BY <1>1, NodeBooks
<1>3. Underway(mem[c], branch, worktree, n, episodes, rewards)
  BY <1>2, Place DEF Nodes
<1>4. /\ old.known /\ old.workspace /\ branch /\ worktree
      /\ n = 0 /\ episodes = 0 /\ \A l \in Lessons : rewards[l] = 0
  BY <1>3 DEF Underway, Untold
<1>5. Len(commits') = IF _gates_ok(old) THEN 1 ELSE 0
  <2>1. CASE commit
    <3>1. commits' = Append(commits, new)
      BY <1>1, <2>1
    <3> HIDE DEF new
    <3>2. Len(commits') = n + 1
      BY <1>0, <3>1 DEF TypeOK
    <3>3. QED
      BY <1>4, <2>1, <3>2
  <2>2. CASE ~commit
    BY <1>1, <1>4, <2>2
  <2>3. QED
    BY <2>1, <2>2
<1>6. VisibleStage(ckpt) = IF _gates_ok(old) THEN "approved" ELSE "running"
  BY <1>2, <1>3, TaskStage
<1>7. PICK s : s = [old EXCEPT !.outcome = IF _gates_ok(old) THEN "completed" ELSE "failed",
                               !.status  = IF _gates_ok(old) THEN "completed" ELSE "failed"]
  OBVIOUS
<1>8. /\ s \in States /\ s.known = old.known /\ s.workspace = old.workspace
      /\ s.pending = old.pending
      /\ s.outcome = IF _gates_ok(old) THEN "completed" ELSE "failed"
  BY <1>2, <1>7 DEF States
<1>9. advance(c, "finalize", s)
  BY <1>7 DEF finalize
<1>10. PICK m : m = Len(commits')
  OBVIOUS
<1>11. Committed(s, m)
  BY <1>5, <1>8, <1>10 DEF Committed
<1>12. ASSUME NEW late \in BOOLEAN
       PROVE  LET t == [state |-> s, next |-> NextNode("finalize", s, late)]
              IN /\ Going("run", t, branch, worktree, m, episodes, rewards)
                 /\ require_human_review => Advances(ckpt, t, m)
  <2>1. PICK t : t = [state |-> s, next |-> NextNode("finalize", s, late)]
    OBVIOUS
  <2>2. t.state = s /\ t.next = "learn"
    BY <1>1, <2>1, NextCases
  <2>3. Learning(t, branch, worktree, m, rewards)
    BY <1>2, <1>4, <1>8, <1>11, <2>2 DEF Learning
  <2>4. VisibleStage(t) = IF _gates_ok(old) THEN "delivered" ELSE "failed"
    BY <1>8, <2>2, <2>3, TaskStage
  <2>5. Advances(ckpt, t, m)
    BY <1>5, <1>6, <1>10, <2>4 DEF Advances
  <2>6. Going("run", t, branch, worktree, m, episodes, rewards)
    BY <1>4, <2>3 DEF Going
  <2>7. QED
    BY <2>1, <2>5, <2>6
<1>13. pc' = [pc EXCEPT ![c] = "run"]
  BY <1>0, <1>1, <1>2 DEF TypeOK
<1>14. BookInv'
  BY <1>1, <1>2, <1>8, <1>9, <1>10, <1>12, <1>13, AdvanceBooks
<1>15. QED
  BY <1>2, <1>4, <1>5, <1>6, <1>14

\* The run is told to the memory once, and its lessons are rewarded with it.
LEMMA LearnBooks ==
  ASSUME IInv, SerialInv, BookInv, NEW c \in Calls, learn_episode(c) \/ learn_reward(c)
  PROVE  BookInv'
<1> DEFINE n == Len(commits)
<1>0. TypeOK
  BY DEF IInv
<1>1. CASE learn_episode(c)
  <2>1. /\ AtNode(c, "learn") /\ "learn" \in Nodes /\ pc' = [pc EXCEPT ![c] = "reward"]
        /\ episodes' = episodes + 1
        /\ UNCHANGED <<ckpt, mem, unsaved, branch, worktree, commits, rewards>>
    BY <1>1 DEF learn_episode, record_episode, Nodes, git
  <2>2. /\ Alone(c) /\ unsaved[c] = "no" /\ mem[c].next = "learn"
        /\ Going("run", mem[c], branch, worktree, n, episodes, rewards)
    BY <2>1, NodeBooks
  <2>3. Learning(mem[c], branch, worktree, n, rewards) /\ episodes = 0
    BY <2>2, Place
  <2>4. CallBooks("reward", mem[c], unsaved[c], ckpt, branch, worktree, n, episodes', rewards)
    BY <2>1, <2>2, <2>3 DEF CallBooks, Going
  <2>5. pc'[c] = "reward" /\ \A d \in Calls : d # c => pc'[d] = pc[d]
    BY <1>0, <2>1 DEF TypeOK
  <2>6. QED
    BY <1>0, <2>1, <2>2, <2>4, <2>5, BookStep
<1>2. CASE learn_reward(c)
  <2> DEFINE s == mem[c].state
  <2>1. /\ pc[c] = "reward" /\ pc' = [pc EXCEPT ![c] = "run"]
        /\ Reward(IF s.outcome = "completed" THEN s.reflections ELSE {})
        /\ advance(c, "learn", s) /\ "learn" \in Nodes
        /\ UNCHANGED <<ckpt, branch, worktree, commits, episodes>>
    BY <1>2 DEF learn_reward, git, Nodes
  <2>2. Active(c) /\ s \in States
    BY <1>0, <2>1, MemTyping DEF Active
  <2>3. Learning(mem[c], branch, worktree, n, rewards) /\ episodes = 1 /\ unsaved[c] = "no"
    BY <2>1, <2>2, MyBooks DEF CallBooks, Going
  <2>4. mem[c] = ckpt /\ ckpt.next = "learn"
    BY <2>1, <2>3 DEF SerialInv, CopyIsCurrent, Learning
  <2>5. \A l \in Lessons :
          rewards'[l] = IF s.outcome = "completed" /\ l \in s.reflections THEN 1 ELSE 0
    BY <2>1, <2>3 DEF Reward, Learning
  <2>6. Told(s, n, episodes, rewards')
    BY <2>3, <2>5 DEF Told, Learning
  <2>7. ASSUME NEW late \in BOOLEAN
        PROVE  LET t == [state |-> s, next |-> NextNode("learn", s, late)]
               IN /\ Going("run", t, branch, worktree, n, episodes, rewards')
                  /\ require_human_review => Advances(ckpt, t, n)
    <3>1. PICK t : t = [state |-> s, next |-> NextNode("learn", s, late)]
      OBVIOUS
    <3>2. t.state = s /\ t.next = "teardown"
      BY <2>1, <3>1, NextCases
    <3>3. Closing(t, branch, worktree, n, episodes, rewards')
      BY <2>3, <2>6, <3>2 DEF Closing, Learning
    <3>4. VisibleStage(t) = VisibleStage(ckpt)
      BY <2>3, <2>4, <3>2, <3>3, TaskStage
    <3>5. QED
      BY <3>1, <3>3, <3>4 DEF Going, Advances
  <2>8. QED
    BY <2>1, <2>2, <2>4, <2>7, AdvanceBooks
<1>3. QED
  BY <1>1, <1>2

\* The worktree goes at the end.
LEMMA TeardownBooks ==
  ASSUME Calm, IInv, SerialInv, BookInv, NEW c \in Calls, teardown(c)
  PROVE  BookInv'
<1> DEFINE s == mem[c].state
           n == Len(commits)
<1>1. /\ AtNode(c, "teardown") /\ "teardown" \in Nodes /\ advance(c, "teardown", s)
      /\ worktree' = (worktree /\ ~s.workspace)
      /\ UNCHANGED <<ckpt, pc, branch, commits, episodes, rewards>>
  BY DEF teardown, Nodes, memory, Calm
<1>2. /\ Active(c) /\ mem[c] = ckpt /\ mem[c].next = "teardown" /\ ckpt.next \in Nodes
      /\ pc[c] = "run" /\ s \in States
      /\ Going("run", mem[c], branch, worktree, n, episodes, rewards)
  BY <1>1, NodeBooks
<1>3. Closing(mem[c], branch, worktree, n, episodes, rewards)
  BY <1>2, Place
<1>4. ~worktree'
  BY <1>1, <1>3 DEF Closing
<1>5. worktree' = FALSE
  BY <1>1, <1>4, Zenon
<1>6. ASSUME NEW late \in BOOLEAN
      PROVE  LET t == [state |-> s, next |-> NextNode("teardown", s, late)]
             IN /\ Going("run", t, branch, worktree', n, episodes, rewards)
                /\ require_human_review => Advances(ckpt, t, n)
  <2>1. PICK t : t = [state |-> s, next |-> NextNode("teardown", s, late)]
    OBVIOUS
  <2>2. t.state = s /\ t.next = "end"
    BY <1>1, <2>1, NextCases
  <2>3. Closing(t, branch, worktree', n, episodes, rewards)
    BY <1>3, <1>5, <2>2 DEF Closing
  <2>4. VisibleStage(t) = VisibleStage(ckpt)
    BY <1>2, <1>3, <2>2, <2>3, TaskStage
  <2>5. QED
    BY <2>1, <2>3, <2>4 DEF Going, Advances
<1>7. pc' = [pc EXCEPT ![c] = "run"]
  BY <1>1, <1>2 DEF IInv, TypeOK
<1>8. QED
  BY <1>1, <1>2, <1>6, <1>7, AdvanceBooks

\* Nothing raises: a run that is underway has its worktree, and a known thread.  A call
\* returns at the review or the end.
LEMMA LeaversBooks ==
  ASSUME Calm, IInv, SerialInv, BookInv, NEW c \in Calls,
         \/ apply_raises(c) \/ verify_raises(c) \/ finalize_raises(c)
         \/ learn_unknown(c) \/ learn_raises(c) \/ node_raises(c) \/ invoke_returns(c)
  PROVE  BookInv'
<1> DEFINE n == Len(commits)
<1>1. ~(verify_raises(c) \/ learn_raises(c) \/ node_raises(c))
  BY DEF Calm, verify_raises, learn_raises, node_raises
<1>2. ASSUME apply_raises(c) \/ finalize_raises(c) PROVE FALSE
  <2>1. PICK a \in {"apply", "finalize"} : AtNode(c, a) /\ ~worktree
    BY <1>2 DEF apply_raises, finalize_raises
  <2>2. a \in Nodes \ {"bootstrap", "learn", "teardown"}
    BY DEF Nodes
  <2>3. Underway(mem[c], branch, worktree, n, episodes, rewards)
    BY <2>1, <2>2, NodeBooks, Place
  <2>4. QED
    BY <2>1, <2>3 DEF Underway
<1>3. ASSUME learn_unknown(c) PROVE FALSE
  <2>1. AtNode(c, "learn") /\ "learn" \in Nodes /\ ~mem[c].state.known
    BY <1>3 DEF learn_unknown, Nodes
  <2>2. Learning(mem[c], branch, worktree, n, rewards)
    BY <2>1, NodeBooks, Place
  <2>3. QED
    BY <2>1, <2>2 DEF Learning
<1>4. CASE invoke_returns(c)
  <2>1. /\ pc[c] = "run" /\ mem[c].next = "end" /\ unsaved[c] = "no" /\ Leave(c)
        /\ UNCHANGED <<ckpt, git, memory>>
    BY <1>4 DEF invoke_returns
  <2>2. Active(c)
    BY <2>1 DEF Active
  <2>3. Going("run", mem[c], branch, worktree, n, episodes, rewards) /\ mem[c] = ckpt
    BY <2>1, <2>2, MyBooks DEF CallBooks, SerialInv, CopyIsCurrent
  <2>4. QED
    BY <2>1, <2>2, <2>3, Place, LeaveBooks
<1>5. QED
  BY <1>1, <1>2, <1>3, <1>4

-----------------------------------------------------------------------------
(* The books: the calls and the checkpoints. *)

\* start() finds the thread at rest, and puts it back to bootstrap; approve() finds it
\* under review.
LEMMA CallBooked ==
  ASSUME Calm, IInv, SerialInv, BookInv, NEW c \in Calls, start(c) \/ approve(c)
  PROVE  BookInv'
<1> DEFINE n == Len(commits)
<1>0. TypeOK /\ ckpt.state \in States
  BY DEF IInv, TypeOK, Threads
<1>1. /\ Alone(c) /\ pc[c] = "idle"
      /\ UNCHANGED <<ckpt, branch, worktree, commits, episodes, rewards>>
  BY ArriveAlone DEF start, approve, Arrive, git, memory, Calm
<1>2. Resting(ckpt, branch, worktree, n, episodes, rewards) /\ unsaved[c] = "no"
  BY <1>1 DEF BookInv, Alone, Active, SerialInv, CopyIsCurrent
<1>3. CASE start(c)
  <2>1. PICK t : t = [state |-> initial_state(ckpt.state), next |-> "bootstrap"]
    OBVIOUS
  <2>2. /\ pc' = [pc EXCEPT ![c] = "run"] /\ unsaved' = [unsaved EXCEPT ![c] = "yes"]
        /\ mem' = [mem EXCEPT ![c] = t]
    BY <1>3, <2>1 DEF start
  <2>3. /\ pc'[c] = "run" /\ unsaved'[c] = "yes" /\ mem'[c] = t
        /\ \A d \in Calls : d # c => pc'[d] = pc[d]
    BY <1>0, <2>2 DEF TypeOK
  <2>4. /\ t.next = "bootstrap" /\ t.state.known /\ ~t.state.pending
        /\ t.state.workspace = ckpt.state.workspace /\ t.state.outcome = ckpt.state.outcome
    BY <1>0, <2>1 DEF initial_state, States
  <2>5. /\ Going("run", t, branch, worktree, n, episodes, rewards)
        /\ Advances(ckpt, t, n)
    <3>1. CASE ckpt = NoThread /\ ~branch /\ Untold(n, episodes, rewards)
      <4>1. ~ckpt.state.workspace /\ ckpt.state.outcome = "none"
        BY <3>1 DEF NoThread, Blank
      <4>2. Fresh(t)
        BY <2>4, <4>1 DEF Fresh
      <4>3. VisibleStage(ckpt) = "none" /\ VisibleStage(t) = "running"
        BY <3>1, <4>2, TaskStage
      <4>4. QED
        BY <3>1, <4>2, <4>3 DEF Going, Advances
    <3>2. CASE ~(ckpt = NoThread /\ ~branch /\ Untold(n, episodes, rewards))
      <4>1. \/ Lost(ckpt, branch, n, episodes, rewards)
            \/ Underway(ckpt, branch, worktree, n, episodes, rewards) /\ ckpt.state.pending
            \/ Closing(ckpt, branch, worktree, n, episodes, rewards)
        BY <1>2, <3>2 DEF Resting
      <4>2. VisibleStage(ckpt) \in {"lost", "review", "failed", "delivered"}
        <5>1. Closing(ckpt, branch, worktree, n, episodes, rewards) =>
                VisibleStage(ckpt) \in {"failed", "delivered"}
          BY TaskStage
        <5>2. Lost(ckpt, branch, n, episodes, rewards) => VisibleStage(ckpt) = "lost"
          BY TaskStage
        <5>3. Underway(ckpt, branch, worktree, n, episodes, rewards) /\ ckpt.state.pending
                => VisibleStage(ckpt) = "review"
          BY TaskStage
        <5>4. QED
          BY <4>1, <5>1, <5>2, <5>3
      <4>3. ckpt.state.workspace /\ branch /\ n <= 1 /\ episodes <= 1
        BY <4>1 DEF Lost, Underway, Untold, Closing, Told, Committed
      <4>4. \A l \in Lessons : rewards[l] <= 1 /\ (rewards[l] = 1 => n = 1)
        <5>1. CASE Lost(ckpt, branch, n, episodes, rewards)
          BY <5>1 DEF Lost
        <5>2. CASE Underway(ckpt, branch, worktree, n, episodes, rewards)
          BY <5>2 DEF Underway, Untold
        <5>3. CASE Closing(ckpt, branch, worktree, n, episodes, rewards)
          <6>1. /\ ckpt.state.outcome = "completed" => n = 1
                /\ \A l \in Lessons : rewards[l] =
                     IF ckpt.state.outcome = "completed" /\ l \in ckpt.state.reflections
                       THEN 1 ELSE 0
            BY <5>3 DEF Closing, Told, Committed
          <6>2. QED
            BY <6>1
        <5>4. QED
          BY <4>1, <5>1, <5>2, <5>3
      <4>5. Lost(t, branch, n, episodes, rewards)
        BY <2>4, <4>3, <4>4 DEF Lost
      <4>6. VisibleStage(t) = "lost"
        BY <4>5, TaskStage
      <4>7. QED
        BY <4>5, <4>6, <4>2 DEF Going, Advances
    <3>3. QED
      BY <3>1, <3>2
  <2>6. CallBooks("run", t, "yes", ckpt, branch, worktree, n, episodes, rewards)
    BY <1>2, <2>5 DEF CallBooks
  <2>7. QED
    BY <1>0, <1>1, <2>3, <2>6, BookStep
<1>4. CASE approve(c)
  <2>1. /\ pc' = [pc EXCEPT ![c] = "update_write"] /\ unsaved' = unsaved
        /\ mem' = [mem EXCEPT ![c] = ckpt] /\ ckpt.state.pending
    BY <1>4 DEF approve, Calm
  <2>2. /\ pc'[c] = "update_write" /\ mem'[c] = ckpt
        /\ \A d \in Calls : d # c => pc'[d] = pc[d]
    BY <1>0, <2>1 DEF TypeOK
  <2>3. Underway(ckpt, branch, worktree, n, episodes, rewards)
    BY <1>2, <2>1 DEF Resting, NoThread, Blank, Lost, Closing
  <2>4. CallBooks("update_write", ckpt, "no", ckpt, branch, worktree, n, episodes, rewards)
    BY <2>1, <2>3 DEF CallBooks
  <2>5. QED
    BY <1>0, <1>1, <1>2, <2>1, <2>2, <2>4, BookStep
<1>5. QED
  BY <1>3, <1>4

\* An approved thread is due to finalize.
LEMMA UpdateBooks ==
  ASSUME IInv, SerialInv, BookInv, NEW c \in Calls, update_state(c)
  PROVE  /\ BookInv' /\ commits' = commits
         /\ VisibleStage(ckpt) = "review" /\ VisibleStage(ckpt') = "approved"
<1> DEFINE old == mem[c].state
           n == Len(commits)
<1>0. TypeOK /\ old \in States
  BY MemTyping DEF IInv
<1>1. PICK p : p = [old EXCEPT !.status = "running", !.pending = FALSE]
  OBVIOUS
<1>2. /\ ckpt' = [state |-> p, next |-> route_after_human_review(p)]
      /\ unsaved' = Overtaken(c) /\ pc[c] = "update_write"
      /\ pc' = [pc EXCEPT ![c] = "load"]
      /\ UNCHANGED <<mem, branch, worktree, commits, episodes, rewards>>
  BY <1>1 DEF update_state, git, memory
<1>3. Active(c)
  BY <1>2 DEF Active
<1>4. /\ mem[c] = ckpt /\ Underway(ckpt, branch, worktree, n, episodes, rewards)
      /\ ckpt.state.pending /\ unsaved[c] = "no"
  BY <1>2, <1>3, MyBooks DEF CallBooks
<1>5. /\ p.known = old.known /\ p.workspace = old.workspace /\ p.outcome = old.outcome
      /\ p.verify_report = old.verify_report /\ p.status = "running" /\ ~p.pending
  BY <1>0, <1>1 DEF States
<1>6. ckpt'.state = p /\ ckpt'.next = "finalize"
  BY <1>2, <1>5 DEF route_after_human_review
<1>7. Underway(ckpt', branch, worktree, n, episodes, rewards)
  BY <1>4, <1>5, <1>6 DEF Underway, Nodes
<1>8. _gates_ok(ckpt'.state)
  BY <1>4, <1>5, <1>6 DEF SerialInv, GreenOk, _gates_ok
<1>9. VisibleStage(ckpt) = "review"
  BY <1>4, TaskStage
<1>10. VisibleStage(ckpt') = "approved"
  BY <1>6, <1>7, <1>8, TaskStage
<1>11. CallBooks("load", mem[c], "no", ckpt', branch, worktree, n, episodes, rewards)
  BY <1>6, <1>7 DEF CallBooks
<1>12. /\ pc'[c] = "load" /\ unsaved'[c] = "no"
       /\ \A d \in Calls : d # c => pc'[d] = pc[d]
  BY <1>0, <1>2, <1>4 DEF TypeOK, Overtaken
<1>13. BookInv'
  BY <1>0, <1>2, <1>3, <1>11, <1>12, AloneIfActive, BookStep
<1>14. QED
  BY <1>2, <1>9, <1>10, <1>13

\* invoke(None) works on a copy of it.
LEMMA LoadBooks ==
  ASSUME IInv, SerialInv, BookInv, NEW c \in Calls, load(c)
  PROVE  BookInv'
<1> DEFINE n == Len(commits)
<1>0. TypeOK
  BY DEF IInv
<1>1. /\ pc[c] = "load" /\ pc' = [pc EXCEPT ![c] = "run"]
      /\ mem' = [mem EXCEPT ![c] = ckpt]
      /\ UNCHANGED <<ckpt, unsaved, branch, worktree, commits, episodes, rewards>>
  BY DEF load, git, memory
<1>2. Active(c)
  BY <1>1 DEF Active
<1>3. Underway(ckpt, branch, worktree, n, episodes, rewards) /\ unsaved[c] = "no"
  BY <1>1, <1>2, MyBooks DEF CallBooks
<1>4. /\ pc'[c] = "run" /\ mem'[c] = ckpt /\ \A d \in Calls : d # c => pc'[d] = pc[d]
  BY <1>0, <1>1 DEF TypeOK
<1>5. CallBooks("run", ckpt, "no", ckpt, branch, worktree, n, episodes, rewards)
  BY <1>3 DEF CallBooks, Going
<1>6. QED
  BY <1>0, <1>1, <1>2, <1>3, <1>4, <1>5, AloneIfActive, BookStep

\* A result that is saved is the checkpoint.
LEMMA SaveBooks ==
  ASSUME IInv, SerialInv, BookInv, NEW c \in Calls, save(c)
  PROVE  /\ BookInv' /\ commits' = commits
         /\ require_human_review => Advances(ckpt, ckpt', Len(commits))
<1> DEFINE n == Len(commits)
<1>0. TypeOK
  BY DEF IInv
<1>1. /\ unsaved[c] # "overtaken" /\ CopyIsCurrent(pc[c], mem[c], unsaved[c], ckpt)
  BY DEF SerialInv, CopyIsCurrent
<1>2. /\ unsaved[c] = "yes" /\ ckpt' = mem[c]
      /\ unsaved' = [Overtaken(c) EXCEPT ![c] = "no"]
      /\ UNCHANGED <<pc, mem, branch, worktree, commits, episodes, rewards>>
  BY <1>0, <1>1 DEF save, git, memory, TypeOK
<1>3. Active(c)
  BY <1>0, <1>1, <1>2 DEF CopyIsCurrent, Active, TypeOK
<1>4. CallBooks(pc[c], mem[c], "yes", ckpt, branch, worktree, n, episodes, rewards)
  BY <1>2, <1>3, MyBooks
<1>5. pc[c] = "run" /\ (require_human_review => Advances(ckpt, mem[c], n))
  BY <1>4 DEF CallBooks
<1>6. CallBooks("run", mem[c], "no", mem[c], branch, worktree, n, episodes, rewards)
  BY <1>4, <1>5 DEF CallBooks
<1>7. unsaved'[c] = "no"
  BY <1>2 DEF Overtaken
<1>8. BookInv'
  BY <1>0, <1>2, <1>3, <1>5, <1>6, <1>7, AloneIfActive, BookStep
<1>9. QED
  BY <1>2, <1>5, <1>8

\* Before the first start() there is nothing to tell.
LEMMA InitBooks == Init => BookInv
<1> SUFFICES ASSUME Init PROVE BookInv
  OBVIOUS
<1>1. \A c \in Calls : ~Active(c)
  BY DEF Init, Active
<1>2. ckpt = NoThread /\ ~branch /\ Untold(Len(commits), episodes, rewards)
  BY DEF Init, Untold
<1>3. QED
  BY <1>1, <1>2 DEF BookInv, Resting

\* Every step keeps the books.
LEMMA NextBooks ==
  ASSUME Calm, IInv, SerialInv, BookInv, [Next]_vars
  PROVE  BookInv'
<1>1. ASSUME NEW c \in Calls, start(c) \/ approve(c) PROVE BookInv'
  BY <1>1, CallBooked
<1>2. ASSUME NEW c \in Calls, Serve(c) PROVE BookInv'
  <2>1. CASE update_state(c)
    BY <2>1, UpdateBooks
  <2>2. CASE load(c)
    BY <2>2, LoadBooks
  <2>3. CASE bootstrap_create(c) \/ bootstrap_refused(c) \/ bootstrap_provision(c)
    BY <2>3, BootstrapBooks
  <2>4. CASE load_context(c) \/ retrieve(c) \/ analyze(c) \/ plan(c) \/ implement(c)
               \/ reflect(c) \/ human_review(c)
    BY <2>4, PlainBooks
  <2>5. CASE apply(c) \/ verify(c)
    BY <2>5, FileBooks
  <2>6. CASE finalize(c)
    BY <2>6, FinalizeBooks
  <2>7. CASE learn_episode(c) \/ learn_reward(c)
    BY <2>7, LearnBooks
  <2>8. CASE teardown(c)
    BY <2>8, TeardownBooks
  <2>9. CASE save(c)
    BY <2>9, SaveBooks
  <2>10. CASE \/ apply_raises(c) \/ verify_raises(c) \/ finalize_raises(c)
              \/ learn_unknown(c) \/ learn_raises(c) \/ node_raises(c) \/ invoke_returns(c)
    BY <2>10, LeaversBooks
  <2>11. QED
    BY <1>2, <2>1, <2>2, <2>3, <2>4, <2>5, <2>6, <2>7, <2>8, <2>9, <2>10 DEF Serve
<1>3. ~Crash
  BY DEF Crash, Calm, IInv, TypeOK
<1>4. CASE UNCHANGED vars
  BY <1>4 DEF vars, BookInv, Active
<1>5. QED
  BY <1>1, <1>2, <1>3, <1>4 DEF Next, Quiet

\* The newest copy of the thread bounds what the repository and the memory hold.
LEMMA BooksBound ==
  ASSUME IInv, SerialInv, BookInv
  PROVE  /\ Len(commits) <= 1 /\ episodes <= 1
         /\ \A l \in Lessons : rewards[l] <= 1 /\ (rewards[l] = 1 => Len(commits) = 1)
<1>0. PICK n : n = Len(commits)
  OBVIOUS
<1> DEFINE Bound ==
             /\ n <= 1 /\ episodes <= 1
             /\ \A l \in Lessons : rewards[l] <= 1 /\ (rewards[l] = 1 => n = 1)
<1>1. n \in Nat /\ episodes \in Nat /\ TypeOK
  BY <1>0, CommitCount DEF IInv, TypeOK
<1>2. Untold(n, episodes, rewards) => Bound
  BY DEF Untold
<1>3. ASSUME NEW t, Lost(t, branch, n, episodes, rewards) PROVE Bound
  BY <1>1, <1>3 DEF Lost
<1>4. ASSUME NEW t, Learning(t, branch, worktree, n, rewards), episodes \in {0, 1} PROVE Bound
  <2>1. n <= 1 /\ \A l \in Lessons : rewards[l] = 0
    BY <1>4 DEF Learning, Committed
  <2>2. episodes <= 1
    BY <1>4
  <2>3. QED
    BY <2>1, <2>2
<1>5. ASSUME NEW t, Closing(t, branch, worktree, n, episodes, rewards) PROVE Bound
  <2>1. Told(t.state, n, episodes, rewards)
    BY <1>5 DEF Closing
  <2>2. n <= 1 /\ episodes = 1 /\ (t.state.outcome = "completed" => n = 1)
    BY <2>1 DEF Told, Committed
  <2>3. \A l \in Lessons :
          rewards[l] = IF t.state.outcome = "completed" /\ l \in t.state.reflections
                         THEN 1 ELSE 0
    BY <2>1 DEF Told
  <2>4. \A l \in Lessons : rewards[l] <= 1 /\ (rewards[l] = 1 => n = 1)
    BY <2>2, <2>3
  <2>5. QED
    BY <2>2, <2>4
<1> HIDE DEF Bound
<1>6. ASSUME NEW t, Resting(t, branch, worktree, n, episodes, rewards) PROVE Bound
  BY <1>2, <1>3, <1>5, <1>6 DEF Resting, Underway
<1>7. ASSUME NEW p, NEW t, Going(p, t, branch, worktree, n, episodes, rewards) PROVE Bound
  <2>1. \/ Untold(n, episodes, rewards)
        \/ Lost(t, branch, n, episodes, rewards)
        \/ Learning(t, branch, worktree, n, rewards) /\ episodes \in {0, 1}
        \/ Closing(t, branch, worktree, n, episodes, rewards)
    BY <1>7 DEF Going, Underway
  <2>2. QED
    BY <1>2, <1>3, <1>4, <1>5, <2>1
<1>8. ASSUME \A c \in Calls : ~Active(c) PROVE Bound
  BY <1>6, <1>8, <1>0 DEF BookInv
<1>9. ASSUME NEW c \in Calls, Active(c) PROVE Bound
  <2>1. CallBooks(pc[c], mem[c], unsaved[c], ckpt, branch, worktree, n, episodes, rewards)
    BY <1>9, <1>0, MyBooks
  <2>2. pc[c] \in {"update_write", "load", "run", "provision", "reward"}
    BY <1>1, <1>9 DEF TypeOK, Active
  <2>3. pc[c] \in {"update_write", "load"} => Untold(n, episodes, rewards)
    BY <2>1 DEF CallBooks, Underway
  <2>4. QED
    BY <1>2, <1>7, <2>1, <2>2, <2>3 DEF CallBooks
<1>10. Bound
  BY <1>8, <1>9
<1>11. QED
  BY <1>0, <1>10 DEF Bound

\* A thread that has ended is closed, and told in full.
LEMMA EndedIsClosed ==
  ASSUME IInv, SerialInv, BookInv, Ended
  PROVE  /\ Closing(ckpt, branch, worktree, Len(commits), episodes, rewards)
         /\ ~worktree
<1> DEFINE n == Len(commits)
<1>0. TypeOK /\ ckpt.next = "end" /\ ~ckpt.state.pending
  BY DEF IInv, Ended
<1>1. ASSUME Resting(ckpt, branch, worktree, n, episodes, rewards)
      PROVE  Closing(ckpt, branch, worktree, n, episodes, rewards)
  BY <1>0, <1>1 DEF Resting, NoThread, Lost
<1>2. ASSUME NEW c \in Calls, Active(c)
      PROVE  Closing(ckpt, branch, worktree, n, episodes, rewards)
  <2>1. CallBooks(pc[c], mem[c], unsaved[c], ckpt, branch, worktree, n, episodes, rewards)
    BY <1>2, MyBooks
  <2>2. pc[c] \in {"run", "provision", "reward"}
    <3>1. pc[c] \in {"update_write", "load", "run", "provision", "reward"}
      BY <1>0, <1>2 DEF TypeOK, Active
    <3>2. pc[c] \notin {"update_write", "load"}
      BY <1>0, <2>1 DEF CallBooks
    <3>3. QED
      BY <3>1, <3>2
  <2>3. CASE unsaved[c] = "yes"
    <3>1. "end" \notin Nodes
      BY DEF Nodes
    <3>2. QED
      BY <1>0, <1>1, <2>1, <2>3, <3>1 DEF CallBooks
  <2>4. CASE unsaved[c] = "no"
    <3>1. mem[c] = ckpt
      BY <2>2, <2>4 DEF SerialInv, CopyIsCurrent
    <3>2. Going(pc[c], ckpt, branch, worktree, n, episodes, rewards)
      BY <2>1, <2>2, <3>1 DEF CallBooks
    <3>3. QED
      BY <1>0, <3>2 DEF Going, Fresh, Lost, Underway, Learning
  <2>5. QED
    BY <1>0, <2>3, <2>4 DEF SerialInv, CopyIsCurrent, TypeOK
<1>3. Closing(ckpt, branch, worktree, n, episodes, rewards)
  BY <1>1, <1>2 DEF BookInv
<1>4. QED
  BY <1>0, <1>3 DEF Closing

\* The three properties of the books.
LEMMA BooksHold ==
  ASSUME IInv, SerialInv, BookInv
  PROVE  RecordedOnce /\ RewardedOnce /\ WorktreeReleased
<1> DEFINE n == Len(commits)
<1>0. TypeOK /\ n \in Nat
  BY CommitCount DEF IInv
<1>1. Ended => /\ Told(ckpt.state, n, episodes, rewards) /\ ~worktree
  BY EndedIsClosed DEF Closing
<1>2. RecordedOnce
  <2>1. episodes <= 1 /\ n <= 1
    BY BooksBound
  <2>2. ASSUME Ended
        PROVE  episodes = 1 /\ n = IF ckpt.state.outcome = "completed" THEN 1 ELSE 0
    BY <1>1, <2>2 DEF Told, Committed
  <2>3. QED
    BY <2>1, <2>2 DEF RecordedOnce
<1>3. RewardedOnce
  <2>1. \A l \in Lessons : rewards[l] <= 1 /\ (rewards[l] = 1 => n = 1)
    BY BooksBound
  <2>2. n = 1 => commits # <<>>
    OBVIOUS
  <2>3. ASSUME Ended, NEW l \in Lessons
        PROVE  rewards[l] = 1 <=> ckpt.state.outcome = "completed" /\ l \in ckpt.state.reflections
    <3>1. rewards[l] = IF ckpt.state.outcome = "completed" /\ l \in ckpt.state.reflections
                         THEN 1 ELSE 0
      BY <1>1, <2>3 DEF Told
    <3>2. QED
      BY <3>1
  <2>4. QED
    BY <2>1, <2>2, <2>3 DEF RewardedOnce
<1>4. WorktreeReleased
  <2>1. ASSUME worktree, \A c \in Calls : ~Active(c)
        PROVE  ckpt.state.pending \/ ckpt.next = "bootstrap"
    <3>1. Resting(ckpt, branch, worktree, n, episodes, rewards) /\ branch
      BY <2>1 DEF BookInv, IInv, WorktreeOk
    <3>2. QED
      BY <2>1, <3>1 DEF Resting, Lost, Closing
  <2>2. QED
    BY <1>1, <2>1 DEF WorktreeReleased
<1>5. QED
  BY <1>2, <1>3, <1>4

\* When nothing fails and only parked runs are approved, the newest copy of the
\* thread tells what the repository and the memory hold, in every reachable state.
THEOREM BookInvariance ==
  ASSUME MaxActive <= 1, MaxCrashes = 0, ~ToolsFail, ~ApproveUnparked
  PROVE  Spec => []BookInv
<1>1. IInv /\ SerialInv /\ BookInv /\ [Next]_vars => BookInv'
  BY NextBooks DEF Calm
<1>2. QED
  BY <1>1, InitBooks, Invariance, SerialInvariance, PTL DEF Spec

\* A run is told to the memory once and committed at most once, whatever calls come
\* after its end, and a run that has ended was told, and committed if it was completed.
THEOREM RunsRecordedOnce ==
  ASSUME MaxActive <= 1, MaxCrashes = 0, ~ToolsFail, ~ApproveUnparked
  PROVE  Spec => []RecordedOnce
<1>1. IInv /\ SerialInv /\ BookInv => RecordedOnce
  BY BooksHold
<1>2. QED
  BY <1>1, Invariance, SerialInvariance, BookInvariance, PTL

\* A lesson is rewarded at most once, of a run that was committed; one that has ended
\* has rewarded all it reflected on, and nothing else.
THEOREM RunsRewardedOnce ==
  ASSUME MaxActive <= 1, MaxCrashes = 0, ~ToolsFail, ~ApproveUnparked
  PROVE  Spec => []RewardedOnce
<1>1. IInv /\ SerialInv /\ BookInv => RewardedOnce
  BY BooksHold
<1>2. QED
  BY <1>1, Invariance, SerialInvariance, BookInvariance, PTL

\* A run that has ended has no worktree; between calls, one is only left to a run
\* under review or one that a second start() has reset.
THEOREM WorktreesReleased ==
  ASSUME MaxActive <= 1, MaxCrashes = 0, ~ToolsFail, ~ApproveUnparked
  PROVE  Spec => []WorktreeReleased
<1>1. IInv /\ SerialInv /\ BookInv => WorktreeReleased
  BY BooksHold
<1>2. QED
  BY <1>1, Invariance, SerialInvariance, BookInvariance, PTL

-----------------------------------------------------------------------------
(* The task that a client sees. *)

\* What the task reads of the state.
shown == <<VisibleStage(ckpt), Len(commits)>>

\* A step that moves the stage on, and leaves the commits alone, is one of the task's.
LEMMA StageMoves ==
  ASSUME Advances(ckpt, ckpt', Len(commits)), commits' = commits
  PROVE  [Task!Next]_shown
<1> DEFINE old == VisibleStage(ckpt)
           new == VisibleStage(ckpt')
<1>1. CASE old = new
  BY <1>1 DEF shown
<1>2. CASE old # new
  <2>1. \/ <<old, new>> \in
             {<<"none", "running">>, <<"running", "review">>, <<"running", "failed">>,
              <<"review", "lost">>, <<"failed", "lost">>, <<"delivered", "lost">>}
        \/ old = "approved" /\ new = "delivered" /\ Len(commits) = 1
    BY <1>2 DEF Advances
  <2> HIDE DEF old, new
  <2>2. \/ old = "none" /\ new = "running"
        \/ old = "running" /\ new = "review"
        \/ old = "running" /\ new = "failed"
        \/ old \in {"review", "failed", "delivered"} /\ new = "lost"
        \/ old = "approved" /\ new = "delivered" /\ Len(commits) = 1
    BY <2>1
  <2>3. \A S : old \in S => Task!Move(S, new)
    BY DEF Task!Move, old, new
  <2>4. QED
    BY <2>2, <2>3 DEF Task!Next, Task!Start, Task!Review, Task!Fail, Task!Deliver, Task!Restart
<1>3. QED
  BY <1>1, <1>2

\* When nothing fails, calls are made one at a time and only parked runs are approved,
\* every step of the graph is a step of the task or shows nothing of it.
THEOREM RefinesTask ==
  ASSUME MaxActive <= 1, MaxCrashes = 0, ~ToolsFail, ~ApproveUnparked, require_human_review
  PROVE  Spec => Task!Safety
<1>1. Init => Task!Init
  BY TaskStage DEF Init, Task!Init
<1>2. ASSUME IInv, SerialInv, BookInv, [Next]_vars PROVE [Task!Next]_shown
  <2>1. ASSUME NEW c \in Calls, update_state(c) PROVE [Task!Next]_shown
    <3>1. VisibleStage(ckpt) = "review" /\ VisibleStage(ckpt') = "approved" /\ commits' = commits
      BY <1>2, <2>1, UpdateBooks
    <3>2. QED
      BY <3>1 DEF Task!Next, Task!Approve, Task!Move
  <2>2. ASSUME NEW c \in Calls, finalize(c) PROVE [Task!Next]_shown
    <3>1. /\ ckpt' = ckpt /\ Len(commits) = 0
          /\ Len(commits') = IF _gates_ok(ckpt.state) THEN 1 ELSE 0
          /\ _gates_ok(ckpt.state) => VisibleStage(ckpt) = "approved"
      BY <1>2, <2>2, FinalizeBooks DEF finalize
    <3>2. VisibleStage(ckpt') = VisibleStage(ckpt)
      BY <3>1
    <3>3. CASE _gates_ok(ckpt.state)
      BY <3>1, <3>2, <3>3 DEF Task!Next, Task!Commit
    <3>4. CASE ~_gates_ok(ckpt.state)
      BY <3>1, <3>2, <3>4 DEF shown
    <3>5. QED
      BY <3>3, <3>4
  <2>3. ASSUME NEW c \in Calls, save(c) PROVE [Task!Next]_shown
    BY <1>2, <2>3, SaveBooks, StageMoves
  <2>4. ASSUME UNCHANGED <<ckpt, commits>> PROVE [Task!Next]_shown
    BY <2>4 DEF shown
  <2>5. ASSUME NEW c \in Calls, start(c) \/ approve(c)
        PROVE  UNCHANGED <<ckpt, commits>>
    BY <2>5 DEF start, approve, git
  <2>6. ASSUME NEW c \in Calls, Serve(c), ~update_state(c), ~finalize(c), ~save(c)
        PROVE  UNCHANGED <<ckpt, commits>>
    BY <2>6 DEF Serve, load, bootstrap_create, bootstrap_refused, bootstrap_provision,
                load_context, retrieve, analyze, plan, implement, apply, apply_raises,
                verify, verify_raises, reflect, human_review, finalize_raises,
                learn_episode, learn_unknown, learn_reward, learn_raises, teardown,
                node_raises, invoke_returns, git
  <2>7. Crash \/ UNCHANGED vars => UNCHANGED <<ckpt, commits>>
    BY DEF Crash, vars, git
  <2>8. QED
    BY <1>2, <2>1, <2>2, <2>3, <2>4, <2>5, <2>6, <2>7 DEF Next, Quiet
<1>3. QED
  BY <1>1, <1>2, Invariance, SerialInvariance, BookInvariance, PTL
     DEF Spec, Task!Safety, Task!vars, shown

=============================================================================
