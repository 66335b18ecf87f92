------------------------- MODULE WorkflowApiProofs -------------------------
(***************************************************************************)
(* The approval gate holds of every run of WorkflowApi, for any number of  *)
(* workflows, approvals, requests and crashes and any checkpoint lag.      *)
(***************************************************************************)
EXTENDS WorkflowApi, TLAPS

-----------------------------------------------------------------------------
(* Typing. *)

\* A state of the graph is typed, and so is the thread it is part of.
LEMMA ThreadTyping ==
  ASSUME NEW s \in States, NEW n \in Nodes \cup {"end", "none"}
  PROVE  [state |-> s, next |-> n] \in Threads
  BY DEF Threads

\* The constants the initial predicate and the start of a run use are typed.
LEMMA InitialTyping ==
  /\ Blank \in States /\ initial_state \in States
  /\ NoThread \in Threads
<1>1. <<>> \in Seq(Nodes)
  OBVIOUS
<1>2. Blank \in States
  BY <1>1 DEF Blank, States, AllPlans
<1>3. initial_state \in States
  BY <1>2 DEF initial_state, States, WorkflowStatus
<1> QED
  BY <1>2, <1>3, ThreadTyping DEF NoThread

\* What the graph runs next is a node or the end.
LEMMA NextNodeTyping ==
  ASSUME NEW n \in Nodes, NEW s
  PROVE  NextNode(n, s) \in Nodes \cup {"end", "none"}
  BY DEF Nodes, NextNode, route_after_verify, route_after_human_review

\* A step of a node leaves the request's memory and queue typed.
LEMMA StepTyping ==
  ASSUME TypeOK, NEW r \in Requests, NEW n \in Nodes, NEW s \in States,
         Step(r, n, s)
  PROVE  /\ mem' \in [Requests -> Threads]
         /\ unsaved' \in [Requests -> Seq(Unsaved)]
<1> DEFINE t == [state |-> s, next |-> NextNode(n, s)]
<1>1. t \in Threads
  BY NextNodeTyping, ThreadTyping
<1>2. [thread |-> t, overtaken |-> FALSE] \in Unsaved
  BY <1>1 DEF Unsaved
<1>3. mem' = [mem EXCEPT ![r] = t]
      /\ unsaved' = [unsaved EXCEPT ![r] = Append(@, [thread |-> t, overtaken |-> FALSE])]
  BY DEF Step
<1> QED
  BY <1>1, <1>2, <1>3 DEF TypeOK

\* Marking queued results as overtaken leaves the queues typed.
LEMMA OvertakeTyping ==
  ASSUME TypeOK, NEW r \in Requests
  PROVE  OthersOvertaken(r) \in [Requests -> Seq(Unsaved)]
<1>1. ASSUME NEW q \in Seq(Unsaved) PROVE Overtake(q) \in Seq(Unsaved)
  <2>1. ASSUME NEW u \in Unsaved PROVE [u EXCEPT !.overtaken = TRUE] \in Unsaved
    BY DEF Unsaved
  <2> QED
    BY <2>1 DEF Overtake
<1> QED
  BY <1>1 DEF TypeOK, OthersOvertaken

-----------------------------------------------------------------------------
\* A call leaves the state typed.
LEMMA CallTyping ==
  ASSUME TypeOK, NEW r \in Requests, Call(r)
  PROVE  TypeOK'
<1>1. ASSUME NEW w \in Workflows, start_workflow(r, w) PROVE TypeOK'
  <2> DEFINE input == [state |-> initial_state, next |-> "plan"]
  <2>1. input \in Threads
    BY InitialTyping, ThreadTyping DEF Nodes
  <2>2. <<[thread |-> input, overtaken |-> FALSE]>> \in Seq(Unsaved)
    BY <2>1 DEF Unsaved
  <2>3. row' \in [Workflows -> [status : WorkflowStatus \cup {"none"},
                                node : Nodes \cup {"none"}, completed : BOOLEAN]]
    BY <1>1 DEF start_workflow, TypeOK, WorkflowStatus
  <2> QED
    BY <1>1, <2>1, <2>2, <2>3 DEF start_workflow, TypeOK, PCs
<1>2. ASSUME NEW w \in Workflows, resume_workflow(r, w) PROVE TypeOK'
  BY <1>2 DEF resume_workflow, TypeOK, db, PCs
<1>3. ASSUME NEW a \in Approvals, approve(r, a) PROVE TypeOK'
  BY <1>3 DEF approve, TypeOK, db, PCs
<1>4. ASSUME NEW a \in Approvals, approve_refused(r, a) PROVE TypeOK'
  BY <1>4 DEF approve_refused, TypeOK, db, PCs
<1> QED
  BY <1>1, <1>2, <1>3, <1>4 DEF Call

\* A step of the server leaves the state typed.
LEMMA ServeTyping ==
  ASSUME TypeOK, Assigned, NEW r \in Requests, Serve(r)
  PROVE  TypeOK'
<1> USE DEF PCs
<1>0. mem[r].state \in States
  BY DEF TypeOK, Threads
<1>s. \A n \in Nodes : Append(mem[r].state.steps, n) \in Seq(Nodes)
  BY <1>0 DEF States
<1>1. CASE decide(r)
  <2>1. target[r] \in Approvals
    BY <1>1 DEF decide, append_granted, Assigned
  <2> DEFINE R == [wf : Workflows \cup {NoWorkflow},
                   status : {"none", "pending", "approved"}, plan : AllPlans]
  <2>2. approval \in [Approvals -> R]
    BY DEF TypeOK
  <2>3. \A x \in R : [x EXCEPT !.status = "approved"] \in R
    OBVIOUS
  <2> HIDE DEF R
  <2>4. approval' \in [Approvals -> R]
    BY <1>1, <2>1, <2>2, <2>3 DEF decide, append_granted
  <2>5. granted' \in [Approvals -> Nat]
    <3>1. granted \in [Approvals -> Nat] /\ granted' = [granted EXCEPT ![target[r]] = @ + 1]
      BY <1>1 DEF decide, append_granted, TypeOK
    <3> QED
      BY <2>1, <3>1
  <2>6. pc' \in [Requests -> PCs]
    BY <1>1 DEF decide, append_granted, TypeOK
  <2> QED
    BY <1>1, <2>4, <2>5, <2>6 DEF decide, append_granted, TypeOK, R
<1>2. CASE update_state_read(r)
  <2>1. job[r] \in Workflows
    BY <1>2 DEF update_state_read, Assigned, Active
  <2> QED
    BY <1>2, <2>1 DEF update_state_read, TypeOK, db
<1>3. CASE update_state_write(r)
  <2> DEFINE patched == [mem[r].state EXCEPT !.status = "running", !.pending = NoApproval]
             n == route_after_human_review(patched)
  <2>1. patched \in States
    BY <1>0 DEF States, WorkflowStatus
  <2>2. n \in Nodes \cup {"end", "none"}
    BY DEF route_after_human_review, Nodes
  <2>3. [state |-> patched, next |-> n] \in Threads
    BY <2>1, <2>2, ThreadTyping
  <2> HIDE DEF patched, n
  <2>4. ckpt' = [ckpt EXCEPT ![job[r]] = [state |-> patched, next |-> n]]
    BY <1>3 DEF update_state_write, patched, n
  <2>5. ckpt' \in [Workflows -> Threads]
    BY <2>3, <2>4 DEF TypeOK
  <2>6. unsaved' \in [Requests -> Seq(Unsaved)]
    BY <1>3, OvertakeTyping DEF update_state_write
  <2> QED
    BY <1>3, <2>5, <2>6 DEF update_state_write, TypeOK, db
<1>4. CASE load(r) \/ load_no_checkpoint(r)
  <2>1. job[r] \in Workflows
    BY <1>4 DEF load, load_no_checkpoint, Assigned, Active
  <2>2. CASE load(r)
    BY <2>1, <2>2 DEF load, TypeOK, db
  <2>3. CASE load_no_checkpoint(r)
    BY <2>3 DEF load_no_checkpoint, TypeOK, db
  <2> QED
    BY <1>4, <2>2, <2>3
<1>5. CASE plan_node(r)
  <2>1. PICK p \in Plans \cup {EmptyPlan} :
          Step(r, "plan", [mem[r].state EXCEPT !.plan = p, !.node = "plan",
                          !.status = "running", !.steps = Append(@, "plan")])
    BY <1>5 DEF plan_node
  <2>2. [mem[r].state EXCEPT !.plan = p, !.node = "plan",
                          !.status = "running", !.steps = Append(@, "plan")] \in States
    BY <1>0, <1>s DEF States, WorkflowStatus, Nodes, AllPlans
  <2>3. mem' \in [Requests -> Threads] /\ unsaved' \in [Requests -> Seq(Unsaved)]
    BY <2>1, <2>2, StepTyping DEF Nodes
  <2> QED
    BY <1>5, <2>3 DEF plan_node, TypeOK, db
<1>6. CASE plan_raises(r) \/ finalize_raises(r)
  BY <1>6 DEF plan_raises, finalize_raises, TypeOK, db
<1>7. CASE verify_node(r)
  <2> DEFINE s  == mem[r].state
             ok == ~s.errors /\ s.plan \in Plans
             t  == [s EXCEPT !.node = "verify", !.errors = ~ok,
                      !.status = IF ok THEN "running" ELSE "failed",
                      !.steps = IF ok THEN Append(@, "verify") ELSE @]
  <2>1. t \in States
    BY <1>0, <1>s DEF States, WorkflowStatus, Nodes
  <2>2. mem' \in [Requests -> Threads] /\ unsaved' \in [Requests -> Seq(Unsaved)]
    <3>1. Step(r, "verify", t)
      BY <1>7 DEF verify_node
    <3> HIDE DEF t
    <3> QED
      BY <3>1, <2>1, StepTyping DEF Nodes
  <2> QED
    BY <1>7, <2>2 DEF verify_node, TypeOK, db
<1>8. CASE human_review_node(r)
  <2> DEFINE s == mem[r].state
             parked(a) == [s EXCEPT !.node = "human_review",
                             !.status = "waiting_for_human", !.pending = a]
  <2>1. PICK a \in Approvals :
          /\ IF s.pending = NoApproval
               THEN /\ approval[a].status = "none"
                    /\ approval' = [approval EXCEPT ![a] =
                         [wf |-> job[r], status |-> "pending", plan |-> s.plan]]
               ELSE a = s.pending /\ UNCHANGED approval
          /\ Step(r, "human_review", parked(a))
    BY <1>8 DEF human_review_node, Parked
  <2>2. parked(a) \in States
    BY <1>0 DEF States, WorkflowStatus, Nodes
  <2>3. mem' \in [Requests -> Threads] /\ unsaved' \in [Requests -> Seq(Unsaved)]
    BY <2>1, <2>2, StepTyping DEF Nodes
  <2>4. s.plan \in AllPlans /\ job[r] \in Workflows \cup {NoWorkflow}
    BY <1>0 DEF TypeOK, States
  <2>5. approval' \in [Approvals -> [wf : Workflows \cup {NoWorkflow},
                                     status : {"none", "pending", "approved"},
                                     plan : AllPlans]]
    <3> HIDE DEF s
    <3>1. CASE s.pending = NoApproval
      <4>1. approval' = [approval EXCEPT ![a] =
                           [wf |-> job[r], status |-> "pending", plan |-> s.plan]]
        BY <2>1, <3>1
      <4>2. [wf |-> job[r], status |-> "pending", plan |-> s.plan] \in
              [wf : Workflows \cup {NoWorkflow},
               status : {"none", "pending", "approved"}, plan : AllPlans]
        BY <2>4
      <4> QED
        BY <4>1, <4>2 DEF TypeOK
    <3>2. CASE s.pending # NoApproval
      BY <2>1, <3>2 DEF TypeOK
    <3> QED
      BY <3>1, <3>2
  <2> QED
    BY <1>8, <2>3, <2>5 DEF human_review_node, Parked, TypeOK, db
<1>9. CASE finalize_node(r)
  <2>1. mem[r].state.plan \in AllPlans /\ EmptyPlan \in AllPlans
    BY DEF TypeOK, Threads, States, AllPlans
  <2> QED
    BY <1>9, <2>1 DEF finalize_node, put_json, TypeOK
<1>10. CASE finalize_record(r)
  <2> DEFINE t == [mem[r].state EXCEPT !.node = "finalize",
                     !.status = "completed", !.steps = Append(@, "finalize")]
  <2>1. t \in States
    BY <1>0, <1>s DEF States, WorkflowStatus, Nodes
  <2>2. mem' \in [Requests -> Threads] /\ unsaved' \in [Requests -> Seq(Unsaved)]
    <3>1. Step(r, "finalize", t)
      BY <1>10 DEF finalize_record, create_artifact
    <3> HIDE DEF t
    <3> QED
      BY <3>1, <2>1, StepTyping DEF Nodes
  <2>3. completions' \in [Workflows -> Nat]
    <3>1. job[r] \in Workflows
      BY <1>10 DEF finalize_record, create_artifact, Assigned, Active
    <3>2. completions \in [Workflows -> Nat]
          /\ completions' = [completions EXCEPT ![job[r]] = @ + 1]
      BY <1>10 DEF finalize_record, create_artifact, TypeOK
    <3> QED
      BY <3>1, <3>2
  <2> QED
    BY <1>10, <2>2, <2>3 DEF finalize_record, create_artifact, TypeOK
<1>11. CASE save(r)
  <2>1. Head(unsaved[r]) \in Unsaved /\ Tail(unsaved[r]) \in Seq(Unsaved)
    BY <1>11 DEF save, TypeOK
  <2>2. ckpt' \in [Workflows -> Threads]
    BY <1>11, <2>1 DEF save, TypeOK, Unsaved
  <2>3. Tail(OthersOvertaken(r)[r]) \in Seq(Unsaved)
    BY <2>1 DEF OthersOvertaken
  <2>4. unsaved' \in [Requests -> Seq(Unsaved)]
    BY <1>11, <2>3, OvertakeTyping DEF save
  <2> QED
    BY <1>11, <2>2, <2>4 DEF save, TypeOK, db
<1>12. CASE save_superseded(r)
  <2>1. Tail(unsaved[r]) \in Seq(Unsaved)
    BY <1>12 DEF save_superseded, TypeOK
  <2> QED
    BY <1>12, <2>1 DEF save_superseded, TypeOK, db
<1>13. CASE invoke_returns(r)
  BY <1>13 DEF invoke_returns, TypeOK, db
<1>14. CASE _persist_state(r)
  <2>1. mem[r].state.status \in WorkflowStatus \cup {"none"}
        /\ mem[r].state.node \in Nodes \cup {"none"}
    BY DEF TypeOK, Threads, States
  <2> QED
    BY <1>14, <2>1 DEF _persist_state, TypeOK
<1> QED
  BY <1>1, <1>2, <1>3, <1>4, <1>5, <1>6, <1>7, <1>8, <1>9, <1>10, <1>11, <1>12,
     <1>13, <1>14 DEF Serve

\* A crash leaves the state typed.
LEMMA CrashTyping ==
  ASSUME TypeOK, Crash
  PROVE  TypeOK'
<1>1. [r \in Requests |-> <<>>] \in [Requests -> Seq(Unsaved)]
  OBVIOUS
<1> QED
  BY <1>1, ConstantsAssumption DEF Crash, TypeOK, db, PCs

-----------------------------------------------------------------------------
(* The tables only grow. *)

\* What no step takes back: rows of approvals keep their workflow and plan, an
\* approval stays granted, a report stays written, a completion stays recorded.
Grows ==
  /\ \A a \in Approvals : approval[a].status # "none" =>
       /\ approval'[a].status # "none"
       /\ approval'[a].wf = approval[a].wf
       /\ approval'[a].plan = approval[a].plan
       /\ approval[a].status = "approved" => approval'[a].status = "approved"
  /\ \A w \in Workflows :
       /\ report[w] # NoPlan => report'[w] # NoPlan
       /\ completions[w] > 0 => completions'[w] > 0

\* The rows of the approvals table.
ApprovalRows ==
  [wf : Workflows \cup {NoWorkflow}, status : {"none", "pending", "approved"},
   plan : AllPlans]

\* A step of the server only ever adds to the tables: an approval keeps its
\* workflow and plan and is never withdrawn, a completion is never undone.
LEMMA ServeGrows ==
  ASSUME IInv, NEW r \in Requests, Serve(r)
  PROVE  Grows
<1>0. approval \in [Approvals -> ApprovalRows] /\ completions \in [Workflows -> Nat]
      /\ report \in [Workflows -> AllPlans]
  BY DEF IInv, TypeOK, ApprovalRows
<1>1. CASE decide(r)
  <2>1. target[r] \in Approvals /\ approval[target[r]].status # "none"
    BY <1>1 DEF decide, append_granted, IInv, Assigned, Granted
  <2>2. approval' = [approval EXCEPT ![target[r]].status = "approved"]
        /\ report' = report /\ completions' = completions
    BY <1>1 DEF decide, append_granted
  <2> QED
    BY <1>0, <2>1, <2>2 DEF Grows, ApprovalRows
<1>2. CASE human_review_node(r)
  <2> DEFINE s == mem[r].state
  <2>1. PICK a \in Approvals :
          IF s.pending = NoApproval
            THEN /\ approval[a].status = "none"
                 /\ approval' = [approval EXCEPT ![a] =
                      [wf |-> job[r], status |-> "pending", plan |-> s.plan]]
            ELSE a = s.pending /\ UNCHANGED approval
    BY <1>2 DEF human_review_node, Parked
  <2>2. report' = report /\ completions' = completions
    BY <1>2 DEF human_review_node, Parked
  <2> HIDE DEF s
  <2>3. \A b \in Approvals : approval[b].status # "none" => approval'[b] = approval[b]
    BY <1>0, <2>1
  <2> QED
    BY <2>2, <2>3 DEF Grows
<1>3. CASE finalize_node(r)
  <2>1. report' = [report EXCEPT ![job[r]] =
                     IF mem[r].state.plan = NoPlan THEN EmptyPlan ELSE mem[r].state.plan]
        /\ approval' = approval /\ completions' = completions
    BY <1>3 DEF finalize_node, put_json
  <2> QED
    BY <1>0, <2>1, ConstantsAssumption DEF Grows
<1>4. CASE finalize_record(r)
  <2>1. completions' = [completions EXCEPT ![job[r]] = @ + 1]
        /\ approval' = approval /\ report' = report
    BY <1>4 DEF finalize_record, create_artifact
  <2>2. \A w \in Workflows : completions[w] > 0 => completions'[w] > 0
    BY <1>0, <2>1
  <2> QED
    BY <2>1, <2>2 DEF Grows
<1>5. CASE UNCHANGED <<approval, report, completions>>
  BY <1>5 DEF Grows
<1> QED
  BY <1>1, <1>2, <1>3, <1>4, <1>5 DEF Serve, update_state_read, update_state_write,
     load, load_no_checkpoint, plan_node, plan_raises, verify_node, finalize_raises,
     save, save_superseded, invoke_returns, _persist_state, db

\* A thread that was in order stays in order as the tables grow.
LEMMA ThreadOkKept ==
  ASSUME TypeOK, Grows, NEW t \in Threads, NEW w,
         ThreadOk(t, w, approval, completions)
  PROVE  ThreadOk(t, w, approval', completions')
<1>1. t.state.pending \in Approvals \cup {NoApproval}
  BY DEF Threads, States
<1> QED
  BY <1>1 DEF ThreadOk, Grows

\* ... so the copies of threads that a step leaves alone stay in order.
LEMMA CopiesKept ==
  ASSUME IInv, Grows
  PROVE  /\ \A w \in Workflows : ckpt'[w] = ckpt[w] =>
              ThreadOk(ckpt'[w], w, approval', completions')
         /\ \A r \in Requests : mem'[r] = mem[r] /\ job'[r] = job[r] =>
              ThreadOk(mem'[r], job'[r], approval', completions')
         /\ \A r \in Requests : \A i \in DOMAIN unsaved[r] :
              ThreadOk(unsaved[r][i].thread, job[r], approval', completions')
<1>1. /\ ckpt \in [Workflows -> Threads] /\ mem \in [Requests -> Threads]
      /\ \A r \in Requests : \A i \in DOMAIN unsaved[r] : unsaved[r][i].thread \in Threads
  <2>1. ASSUME NEW q \in Seq(Unsaved), NEW i \in DOMAIN q PROVE q[i].thread \in Threads
    <3>1. q[i] \in Unsaved
      OBVIOUS
    <3> QED
      BY <3>1 DEF Unsaved
  <2> QED
    BY <2>1 DEF IInv, TypeOK
<1>2. \A t \in Threads : \A w :
        ThreadOk(t, w, approval, completions) => ThreadOk(t, w, approval', completions')
  BY ThreadOkKept DEF IInv
<1>3. ASSUME NEW w \in Workflows, ckpt'[w] = ckpt[w]
      PROVE  ThreadOk(ckpt'[w], w, approval', completions')
  BY <1>1, <1>2, <1>3 DEF IInv, CheckpointsOk
<1>4. ASSUME NEW r \in Requests, mem'[r] = mem[r], job'[r] = job[r]
      PROVE  ThreadOk(mem'[r], job'[r], approval', completions')
  BY <1>1, <1>2, <1>4 DEF IInv, MemoryOk
<1>5. ASSUME NEW r \in Requests, NEW i \in DOMAIN unsaved[r]
      PROVE  ThreadOk(unsaved[r][i].thread, job[r], approval', completions')
  BY <1>1, <1>2 DEF IInv, QueuesOk
<1> QED
  BY <1>3, <1>4, <1>5

-----------------------------------------------------------------------------
(* The copies of the threads stay in order. *)

\* A step of a node that leaves a thread in order keeps every copy in order.
LEMMA StepCopies ==
  ASSUME IInv, Grows, NEW r \in Requests, NEW n, NEW s, Step(r, n, s),
         UNCHANGED <<ckpt, job>>,
         ThreadOk([state |-> s, next |-> NextNode(n, s)], job[r], approval', completions')
  PROVE  CheckpointsOk' /\ MemoryOk' /\ QueuesOk'
<1> DEFINE t == [state |-> s, next |-> NextNode(n, s)]
           u == [thread |-> t, overtaken |-> FALSE]
<1>1. mem' = [mem EXCEPT ![r] = t] /\ unsaved' = [unsaved EXCEPT ![r] = Append(@, u)]
  BY DEF Step
<1>2. mem \in [Requests -> Threads] /\ unsaved \in [Requests -> Seq(Unsaved)]
  BY DEF IInv, TypeOK
<1>3. ThreadOk(t, job[r], approval', completions')
  OBVIOUS
<1>4. u.thread = t
  OBVIOUS
<1> HIDE DEF t, u
<1>5. CheckpointsOk'
  BY CopiesKept DEF CheckpointsOk
<1>6. MemoryOk'
  BY CopiesKept, <1>1, <1>2, <1>3 DEF MemoryOk
<1>7. QueuesOk'
  <2>1. SUFFICES ASSUME NEW q \in Requests, NEW i \in DOMAIN unsaved'[q]
                 PROVE  ThreadOk(unsaved'[q][i].thread, job'[q], approval', completions')
    BY DEF QueuesOk
  <2>2. CASE q # r \/ i \in DOMAIN unsaved[q]
    <3>1. unsaved'[q][i] = unsaved[q][i] /\ i \in DOMAIN unsaved[q]
      BY <1>1, <1>2, <2>1, <2>2
    <3> QED
      BY <3>1, CopiesKept
  <2>3. CASE q = r /\ i \notin DOMAIN unsaved[q]
    <3>1. unsaved'[q][i] = u
      BY <1>1, <1>2, <2>1, <2>3
    <3> QED
      BY <3>1, <1>3, <1>4, <2>3
  <2> QED
    BY <2>2, <2>3
<1> QED
  BY <1>5, <1>6, <1>7

\* The thread a request holds, when it is about to run a node.
LEMMA NodeReady ==
  ASSUME IInv, NEW r \in Requests, mem[r].next \in Nodes
  PROVE  /\ job[r] \in Workflows
         /\ mem[r].state.pending = NoApproval
         /\ mem[r].next = "finalize" => Approved(job[r])
<1>1. mem[r] # NoThread
  BY DEF NoThread, Nodes
<1>2. ThreadOk(mem[r], job[r], approval, completions)
  BY DEF IInv, MemoryOk
<1> QED
  BY <1>1, <1>2 DEF ThreadOk, Nodes, Approved

\* Every node leaves a thread that is in order.
LEMMA NodesOk ==
  ASSUME IInv, Grows, NEW r \in Requests,
         plan_node(r) \/ verify_node(r) \/ human_review_node(r) \/ finalize_record(r)
  PROVE  CheckpointsOk' /\ MemoryOk' /\ QueuesOk'
<1>0. /\ mem[r] \in Threads /\ mem[r].state \in States
      /\ approval \in [Approvals -> ApprovalRows] /\ completions \in [Workflows -> Nat]
  BY DEF IInv, TypeOK, Threads, ApprovalRows
<1>1. CASE plan_node(r)
  <2>1. PICK p \in Plans \cup {EmptyPlan} :
          Step(r, "plan", [mem[r].state EXCEPT !.plan = p, !.node = "plan",
                             !.status = "running", !.steps = Append(@, "plan")])
    BY <1>1 DEF plan_node
  <2> DEFINE t == [mem[r].state EXCEPT !.plan = p, !.node = "plan",
                     !.status = "running", !.steps = Append(@, "plan")]
  <2>2. t.status = "running" /\ t.pending = mem[r].state.pending
    BY <1>0 DEF States
  <2>3. job[r] \in Workflows /\ mem[r].state.pending = NoApproval
    BY <1>1, NodeReady DEF plan_node, AtNode, Nodes
  <2> HIDE DEF t
  <2>4. ThreadOk([state |-> t, next |-> NextNode("plan", t)], job[r],
                 approval', completions')
    BY <2>2, <2>3 DEF ThreadOk, NextNode
  <2>5. Step(r, "plan", t) /\ UNCHANGED <<ckpt, job>>
    BY <1>1, <2>1 DEF plan_node, t
  <2> QED
    BY <2>4, <2>5, StepCopies
<1>2. CASE verify_node(r)
  <2> DEFINE s  == mem[r].state
             ok == ~s.errors /\ s.plan \in Plans
             t  == [s EXCEPT !.node = "verify", !.errors = ~ok,
                      !.status = IF ok THEN "running" ELSE "failed",
                      !.steps = IF ok THEN Append(@, "verify") ELSE @]
  <2>1. t.status \in {"running", "failed"} /\ t.pending = mem[r].state.pending
    BY <1>0 DEF States
  <2>2. job[r] \in Workflows /\ mem[r].state.pending = NoApproval
    BY <1>2, NodeReady DEF verify_node, AtNode, Nodes
  <2>3. Step(r, "verify", t) /\ UNCHANGED <<ckpt, job>>
    BY <1>2 DEF verify_node
  <2> HIDE DEF t
  <2>4. ThreadOk([state |-> t, next |-> NextNode("verify", t)], job[r],
                 approval', completions')
    BY <2>1, <2>2 DEF ThreadOk, NextNode, route_after_verify
  <2> QED
    BY <2>3, <2>4, StepCopies
<1>3. CASE human_review_node(r)
  <2> DEFINE s == mem[r].state
             parked(a) == [s EXCEPT !.node = "human_review",
                             !.status = "waiting_for_human", !.pending = a]
  <2>1. job[r] \in Workflows /\ s.pending = NoApproval
    BY <1>3, NodeReady DEF human_review_node, Parked, AtNode, Nodes
  <2>2. PICK a \in Approvals :
          /\ approval[a].status = "none"
          /\ approval' = [approval EXCEPT ![a] =
               [wf |-> job[r], status |-> "pending", plan |-> s.plan]]
          /\ Step(r, "human_review", parked(a))
    BY <1>3, <2>1 DEF human_review_node, Parked
  <2> DEFINE t == parked(a)
  <2>3. t.status = "waiting_for_human" /\ t.pending = a /\ t.plan = s.plan
    BY <1>0 DEF States
  <2>4. Step(r, "human_review", t) /\ UNCHANGED <<ckpt, job>>
    BY <1>3, <2>2 DEF human_review_node, Parked
  <2>5. approval'[a].status = "pending" /\ approval'[a].wf = job[r]
        /\ approval'[a].plan = s.plan
    BY <1>0, <2>2
  <2>6. a # NoApproval
    BY ConstantsAssumption
  <2> HIDE DEF t, s
  <2>7. ThreadOk([state |-> t, next |-> NextNode("human_review", t)], job[r],
                 approval', completions')
    BY <2>1, <2>3, <2>5, <2>6 DEF ThreadOk, NextNode, route_after_human_review
  <2> QED
    BY <2>4, <2>7, StepCopies
<1>4. CASE finalize_record(r)
  <2> DEFINE t == [mem[r].state EXCEPT !.node = "finalize",
                     !.status = "completed", !.steps = Append(@, "finalize")]
  <2>1. mem[r].next = "finalize"
    BY <1>4 DEF finalize_record, create_artifact, IInv, Granted
  <2>2. job[r] \in Workflows /\ mem[r].state.pending = NoApproval /\ Approved(job[r])
    BY <2>1, NodeReady DEF Nodes
  <2>3. t.status = "completed" /\ t.pending = mem[r].state.pending
    BY <1>0 DEF States
  <2>4. Step(r, "finalize", t) /\ UNCHANGED <<approval, ckpt, job>>
    BY <1>4 DEF finalize_record, create_artifact
  <2>5. completions' = [completions EXCEPT ![job[r]] = @ + 1]
    BY <1>4 DEF finalize_record, create_artifact
  <2>6. completions'[job[r]] > 0
    BY <1>0, <2>2, <2>5
  <2> HIDE DEF t
  <2>7. ThreadOk([state |-> t, next |-> NextNode("finalize", t)], job[r],
                 approval', completions')
    BY <2>2, <2>3, <2>4, <2>6 DEF ThreadOk, NextNode, Approved
  <2> QED
    BY <2>4, <2>7, StepCopies
<1> QED
  BY <1>1, <1>2, <1>3, <1>4

\* Marking results as overtaken changes no thread.
LEMMA OvertakeKeepsThreads ==
  ASSUME TypeOK, NEW r \in Requests, NEW q \in Requests
  PROVE  /\ DOMAIN OthersOvertaken(r)[q] = DOMAIN unsaved[q]
         /\ \A i \in DOMAIN unsaved[q] :
              OthersOvertaken(r)[q][i].thread = unsaved[q][i].thread
         /\ OthersOvertaken(r)[r] = unsaved[r]
<1>1. unsaved[q] \in Seq(Unsaved)
  BY DEF TypeOK
<1>2. ASSUME NEW i \in DOMAIN unsaved[q]
      PROVE  Overtake(unsaved[q])[i].thread = unsaved[q][i].thread
  <2>1. unsaved[q][i] \in Unsaved
    BY <1>1
  <2> QED
    BY <2>1 DEF Overtake, Unsaved
<1>3. DOMAIN Overtake(unsaved[q]) = DOMAIN unsaved[q]
  BY DEF Overtake
<1> QED
  BY <1>2, <1>3 DEF OthersOvertaken

\* Dropping the oldest result of a queue keeps the others.
LEMMA TailKeeps ==
  ASSUME NEW q \in Seq(Unsaved), q # <<>>, NEW i \in DOMAIN Tail(q)
  PROVE  i + 1 \in DOMAIN q /\ Tail(q)[i] = q[i + 1]
  OBVIOUS

\* update_state and the checkpointer write only threads that are in order.
LEMMA WritesOk ==
  ASSUME IInv, Grows, NEW r \in Requests,
         update_state_write(r) \/ save(r) \/ save_superseded(r)
  PROVE  CheckpointsOk' /\ MemoryOk' /\ QueuesOk'
<1>0. /\ TypeOK /\ ckpt \in [Workflows -> Threads] /\ unsaved \in [Requests -> Seq(Unsaved)]
      /\ mem[r].state \in States
  BY DEF IInv, TypeOK, Threads
<1>1. UNCHANGED <<mem, job, approval, completions>>
  BY DEF update_state_write, save, save_superseded, db
<1>2. MemoryOk'
  BY <1>1, CopiesKept DEF MemoryOk
<1>3. CASE update_state_write(r)
  <2> DEFINE patched == [mem[r].state EXCEPT !.status = "running", !.pending = NoApproval]
             t == [state |-> patched, next |-> route_after_human_review(patched)]
  <2>1. job[r] \in Workflows /\ Approved(job[r])
    BY <1>3 DEF update_state_write, IInv, Assigned, Active, Granted
  <2>2. t.state.status = "running" /\ t.state.pending = NoApproval
    BY <1>0 DEF States
  <2>3. ckpt' = [ckpt EXCEPT ![job[r]] = t] /\ unsaved' = OthersOvertaken(r)
    BY <1>3 DEF update_state_write
  <2> HIDE DEF t
  <2>4. ThreadOk(t, job[r], approval', completions')
    BY <1>1, <2>1, <2>2 DEF ThreadOk, Approved
  <2>5. CheckpointsOk'
    BY <1>0, <2>3, <2>4, CopiesKept DEF CheckpointsOk
  <2>6. QueuesOk'
    BY <1>0, <1>1, <2>3, CopiesKept, OvertakeKeepsThreads DEF QueuesOk
  <2> QED
    BY <1>2, <2>5, <2>6
<1>4. CASE save(r)
  <2>1. unsaved[r] # <<>> /\ unsaved[r] \in Seq(Unsaved)
    BY <1>0, <1>4 DEF save
  <2>2. 1 \in DOMAIN unsaved[r] /\ Head(unsaved[r]) = unsaved[r][1]
    BY <2>1
  <2>3. ThreadOk(Head(unsaved[r]).thread, job[r], approval', completions')
    BY <2>2, CopiesKept
  <2>4. ckpt' = [ckpt EXCEPT ![job[r]] = Head(unsaved[r]).thread]
        /\ unsaved' = [OthersOvertaken(r) EXCEPT ![r] = Tail(@)]
    BY <1>4 DEF save
  <2>5. CheckpointsOk'
    BY <1>0, <2>3, <2>4, CopiesKept DEF CheckpointsOk
  <2>6. QueuesOk'
    <3>1. SUFFICES ASSUME NEW q \in Requests, NEW i \in DOMAIN unsaved'[q]
                   PROVE  ThreadOk(unsaved'[q][i].thread, job'[q], approval', completions')
      BY DEF QueuesOk
    <3>2. CASE q = r
      <4>1. unsaved'[r] = Tail(unsaved[r])
        BY <1>0, <2>4, OvertakeKeepsThreads DEF OthersOvertaken
      <4>2. i + 1 \in DOMAIN unsaved[r] /\ unsaved'[r][i] = unsaved[r][i + 1]
        BY <2>1, <3>1, <3>2, <4>1, TailKeeps
      <4> QED
        BY <1>1, <3>2, <4>2, CopiesKept
    <3>3. CASE q # r
      <4>1. unsaved'[q] = OthersOvertaken(r)[q]
        BY <2>4, <3>3 DEF OthersOvertaken
      <4> QED
        BY <1>0, <1>1, <3>1, <4>1, CopiesKept, OvertakeKeepsThreads
    <3> QED
      BY <3>2, <3>3
  <2> QED
    BY <1>2, <2>5, <2>6
<1>5. CASE save_superseded(r)
  <2>1. unsaved[r] # <<>> /\ unsaved[r] \in Seq(Unsaved)
    BY <1>0, <1>5 DEF save_superseded
  <2>2. unsaved' = [unsaved EXCEPT ![r] = Tail(@)] /\ ckpt' = ckpt
    BY <1>5 DEF save_superseded
  <2>3. CheckpointsOk'
    BY <2>2, CopiesKept DEF CheckpointsOk
  <2>4. QueuesOk'
    <3>1. SUFFICES ASSUME NEW q \in Requests, NEW i \in DOMAIN unsaved'[q]
                   PROVE  ThreadOk(unsaved'[q][i].thread, job'[q], approval', completions')
      BY DEF QueuesOk
    <3>2. CASE q = r
      <4>1. unsaved'[r] = Tail(unsaved[r])
        BY <1>0, <2>2
      <4>2. i + 1 \in DOMAIN unsaved[r] /\ unsaved'[r][i] = unsaved[r][i + 1]
        BY <2>1, <3>1, <3>2, <4>1, TailKeeps
      <4> QED
        BY <1>1, <3>2, <4>2, CopiesKept
    <3>3. CASE q # r
      BY <1>0, <1>1, <2>2, <3>1, <3>3, CopiesKept
    <3> QED
      BY <3>2, <3>3
  <2> QED
    BY <1>2, <2>3, <2>4
<1> QED
  BY <1>3, <1>4, <1>5

\* A step of the server keeps every copy of every thread in order.
LEMMA ServeCopies ==
  ASSUME IInv, Grows, NEW r \in Requests, Serve(r)
  PROVE  CheckpointsOk' /\ MemoryOk' /\ QueuesOk'
<1>0. mem \in [Requests -> Threads]
  BY DEF IInv, TypeOK
<1>1. CASE update_state_read(r) \/ load(r)
  <2>1. mem' = [mem EXCEPT ![r] = ckpt[job[r]]] /\ UNCHANGED <<ckpt, job, unsaved>>
    BY <1>1 DEF update_state_read, load
  <2>2. job[r] \in Workflows
    BY <1>1 DEF update_state_read, load, IInv, Assigned, Active
  <2>3. ThreadOk(ckpt[job[r]], job[r], approval', completions')
    BY <2>1, <2>2, CopiesKept
  <2>4. MemoryOk'
    BY <1>0, <2>1, <2>3, CopiesKept DEF MemoryOk
  <2> QED
    BY <2>1, <2>4, CopiesKept DEF CheckpointsOk, QueuesOk
<1>2. CASE UNCHANGED <<ckpt, job, mem, unsaved>>
  BY <1>2, CopiesKept DEF CheckpointsOk, MemoryOk, QueuesOk
<1> QED
  BY <1>1, <1>2, NodesOk, WritesOk DEF Serve, decide, append_granted,
     load_no_checkpoint, plan_raises, finalize_node, put_json, finalize_raises,
     invoke_returns, _persist_state

-----------------------------------------------------------------------------
(* The requests and the tables stay in order. *)

\* A workflow that was approved stays approved.
LEMMA ApprovedKept ==
  ASSUME Grows, NEW w, Approved(w)
  PROVE  Approved(w)'
  BY DEF Grows, Approved

\* A step of the server leaves each request on the workflow it was called for.
LEMMA ServeAssigned ==
  ASSUME IInv, NEW r \in Requests, Serve(r)
  PROVE  Assigned'
<1>1. /\ TypeOK /\ Assigned /\ UNCHANGED <<job, target>>
      /\ pc \in [Requests -> PCs] /\ mem \in [Requests -> Threads]
      /\ unsaved \in [Requests -> Seq(Unsaved)]
  BY DEF IInv, TypeOK, Serve, decide, append_granted, update_state_read,
     update_state_write, load, load_no_checkpoint, plan_node, plan_raises,
     verify_node, human_review_node, Parked, finalize_node, put_json,
     finalize_raises, finalize_record, create_artifact, save, save_superseded,
     invoke_returns, _persist_state
<1>2. Active(r) \/ unsaved[r] # <<>>
  BY DEF Active, Serve, decide, append_granted, update_state_read,
     update_state_write, load, load_no_checkpoint, plan_node, plan_raises,
     verify_node, human_review_node, Parked, finalize_node, put_json,
     finalize_raises, finalize_record, create_artifact, save, save_superseded,
     invoke_returns, _persist_state, AtNode
<1>3. job[r] \in Workflows /\ pc[r] # "idle"
  BY <1>1, <1>2 DEF Assigned, Active
<1>4. pc' = pc \/ \E c \in PCs \ {"idle", "decide"} : pc' = [pc EXCEPT ![r] = c]
  BY DEF PCs, Serve, decide, append_granted, update_state_read,
     update_state_write, load, load_no_checkpoint, plan_node, plan_raises,
     verify_node, human_review_node, Parked, finalize_node, put_json,
     finalize_raises, finalize_record, create_artifact, save, save_superseded,
     invoke_returns, _persist_state
<1>5. mem' = mem \/ \E t : mem' = [mem EXCEPT ![r] = t]
  BY DEF Serve, decide, append_granted, update_state_read, update_state_write,
     load, load_no_checkpoint, plan_node, plan_raises, verify_node,
     human_review_node, Parked, finalize_node, put_json, finalize_raises,
     finalize_record, create_artifact, save, save_superseded, invoke_returns,
     _persist_state, Step
<1>6. ASSUME NEW q \in Requests, q # r, unsaved[q] = <<>> PROVE unsaved'[q] = <<>>
  <2>1. OthersOvertaken(r)[q] = <<>>
    BY <1>6 DEF OthersOvertaken, Overtake
  <2>2. CASE update_state_write(r)
    BY <2>1, <2>2 DEF update_state_write
  <2>3. CASE save(r)
    BY <2>1, <2>3, <1>6 DEF save, OthersOvertaken
  <2>4. CASE UNCHANGED unsaved \/ \E x : unsaved' = [unsaved EXCEPT ![r] = x]
    BY <1>1, <1>6, <2>4
  <2> QED
    BY <2>2, <2>3, <2>4 DEF Serve, decide, append_granted, update_state_read,
       load, load_no_checkpoint, plan_node, plan_raises, verify_node,
       human_review_node, Parked, finalize_node, put_json, finalize_raises,
       finalize_record, create_artifact, save_superseded, invoke_returns,
       _persist_state, Step
<1>7. SUFFICES ASSUME NEW q \in Requests
               PROVE  /\ (Active(q) \/ unsaved[q] # <<>> => job[q] \in Workflows)'
                      /\ (pc[q] = "idle" => mem[q] = NoThread /\ unsaved[q] = <<>>)'
                      /\ (pc[q] = "decide" => target[q] \in Approvals)'
  BY DEF Assigned
<1>8. CASE q = r
  <2>1. pc'[r] # "idle" /\ (pc'[r] = "decide" => pc[r] = "decide")
    BY <1>1, <1>3, <1>4
  <2> QED
    BY <1>1, <1>3, <1>8, <2>1 DEF Assigned
<1>9. CASE q # r
  <2>1. pc'[q] = pc[q] /\ mem'[q] = mem[q]
    BY <1>1, <1>4, <1>5, <1>9
  <2> QED
    BY <1>1, <1>6, <1>9, <2>1 DEF Assigned, Active
<1> QED
  BY <1>8, <1>9

\* A step of the server writes the tables in the order ask, approve, report,
\* complete.
LEMMA ServeLedger ==
  ASSUME IInv, Grows, NEW r \in Requests, Serve(r)
  PROVE  Ledger'
<1>0. /\ TypeOK /\ Ledger /\ Granted /\ Assigned
      /\ row \in [Workflows -> [status : WorkflowStatus \cup {"none"},
                                node : Nodes \cup {"none"}, completed : BOOLEAN]]
      /\ approval \in [Approvals -> ApprovalRows]
      /\ report \in [Workflows -> AllPlans] /\ completions \in [Workflows -> Nat]
  BY DEF IInv, TypeOK, ApprovalRows
<1>1. CASE decide(r)
  <2>1. /\ approval' = [approval EXCEPT ![target[r]].status = "approved"]
        /\ UNCHANGED <<row, report, completions>>
    BY <1>1 DEF decide, append_granted
  <2>2. \A a \in Approvals : approval'[a].status # "none" => approval'[a].wf \in Workflows
    <3>1. target[r] \in Approvals /\ approval[target[r]].wf = job[r] /\ job[r] \in Workflows
      BY <1>0, <1>1 DEF decide, append_granted, Assigned, Active, Granted
    <3> QED
      BY <1>0, <2>1, <3>1 DEF Ledger, ApprovalRows
  <2>3. \A w \in Workflows : report'[w] # NoPlan => Approved(w)'
    BY <1>0, <2>1, ApprovedKept DEF Ledger
  <2> QED
    BY <1>0, <2>1, <2>2, <2>3 DEF Ledger
<1>2. CASE human_review_node(r)
  <2>1. UNCHANGED <<row, report, completions>> /\ job[r] \in Workflows
    BY <1>0, <1>2 DEF human_review_node, Parked, AtNode, Assigned, Active
  <2>2. \A a \in Approvals : approval'[a].status # "none" => approval'[a].wf \in Workflows
    <3> DEFINE s == mem[r].state
    <3>1. PICK a \in Approvals :
            IF s.pending = NoApproval
              THEN /\ approval[a].status = "none"
                   /\ approval' = [approval EXCEPT ![a] =
                        [wf |-> job[r], status |-> "pending", plan |-> s.plan]]
              ELSE a = s.pending /\ UNCHANGED approval
      BY <1>2 DEF human_review_node, Parked
    <3> HIDE DEF s
    <3> QED
      BY <1>0, <2>1, <3>1 DEF Ledger
  <2>3. \A w \in Workflows : report'[w] # NoPlan => Approved(w)'
    BY <1>0, <2>1, ApprovedKept DEF Ledger
  <2> QED
    BY <1>0, <2>1, <2>2, <2>3 DEF Ledger
<1>3. CASE finalize_node(r)
  <2>1. /\ UNCHANGED <<row, approval, completions>>
        /\ report' = [report EXCEPT ![job[r]] =
             IF mem[r].state.plan = NoPlan THEN EmptyPlan ELSE mem[r].state.plan]
    BY <1>3 DEF finalize_node, put_json
  <2>2. Approved(job[r])
    BY <1>3, NodeReady DEF finalize_node, put_json, AtNode, Nodes
  <2>3. \A w \in Workflows : report'[w] # NoPlan => Approved(w)
    BY <1>0, <2>1, <2>2 DEF Ledger
  <2>4. \A w \in Workflows : completions[w] > 0 => report'[w] # NoPlan
    BY <1>0 DEF Ledger, Grows
  <2> QED
    BY <1>0, <2>1, <2>3, <2>4 DEF Ledger, Approved
<1>4. CASE finalize_record(r)
  <2>1. /\ UNCHANGED <<row, approval, report>>
        /\ completions' = [completions EXCEPT ![job[r]] = @ + 1]
    BY <1>4 DEF finalize_record, create_artifact
  <2>2. report[job[r]] # NoPlan
    BY <1>0, <1>4 DEF finalize_record, create_artifact, Granted
  <2>3. \A w \in Workflows : completions'[w] > 0 => report[w] # NoPlan
    BY <1>0, <2>1, <2>2 DEF Ledger
  <2>4. \A w \in Workflows : completions[w] > 0 => completions'[w] > 0
    BY DEF Grows
  <2> QED
    BY <1>0, <2>1, <2>3, <2>4 DEF Ledger, Approved
<1>5. CASE _persist_state(r)
  <2>1. /\ UNCHANGED <<approval, report, completions>>
        /\ \A w \in Workflows : row'[w].completed =>
             row[w].completed \/ (w = job[r] /\ mem[r].state.status = "completed")
    BY <1>0, <1>5 DEF _persist_state
  <2>2. mem[r].state.status = "completed" => completions[job[r]] > 0
    BY DEF IInv, MemoryOk, ThreadOk, NoThread, Blank
  <2> QED
    BY <1>0, <2>1, <2>2 DEF Ledger, Approved
<1>6. CASE UNCHANGED db
  BY <1>0, <1>6 DEF Ledger, Approved, db
<1> QED
  BY <1>1, <1>2, <1>3, <1>4, <1>5, <1>6 DEF Serve, update_state_read,
     update_state_write, load, load_no_checkpoint, plan_node, plan_raises,
     verify_node, finalize_raises, save, save_superseded, invoke_returns

\* A request past the decision still acts for an approval that was granted.
LEMMA ServeGranted ==
  ASSUME IInv, Grows, NEW r \in Requests, Serve(r)
  PROVE  Granted'
<1>0. /\ TypeOK /\ Granted /\ Assigned /\ UNCHANGED <<job, target>>
      /\ pc \in [Requests -> PCs] /\ mem \in [Requests -> Threads]
      /\ approval \in [Approvals -> ApprovalRows] /\ report \in [Workflows -> AllPlans]
  BY DEF IInv, TypeOK, ApprovalRows, Serve, decide, append_granted,
     update_state_read, update_state_write, load, load_no_checkpoint, plan_node,
     plan_raises, verify_node, human_review_node, Parked, finalize_node, put_json,
     finalize_raises, finalize_record, create_artifact, save, save_superseded,
     invoke_returns, _persist_state
<1>1. SUFFICES ASSUME NEW q \in Requests
               PROVE  /\ pc'[q] = "decide" => /\ approval'[target[q]].wf = job[q]
                                              /\ approval'[target[q]].status # "none"
                      /\ pc'[q] \in {"update_read", "update_write"} => Approved(job[q])'
                      /\ pc'[q] = "record" => /\ report'[job[q]] # NoPlan
                                              /\ mem'[q].next = "finalize"
  BY <1>0 DEF Granted, Approved
<1>2. CASE pc'[q] = pc[q] /\ mem'[q] = mem[q]
  <2>1. pc[q] \in {"decide", "record"} => job[q] \in Workflows
    BY <1>0 DEF Assigned, Active
  <2>2. pc[q] = "decide" => target[q] \in Approvals
    BY <1>0 DEF Assigned
  <2>3. Approved(job[q]) => Approved(job[q])'
    BY <1>0, ApprovedKept DEF Approved
  <2> QED
    BY <1>0, <1>2, <2>1, <2>2, <2>3 DEF Granted, Grows
<1>3. CASE q = r /\ decide(r)
  <2>1. target[r] \in Approvals /\ approval[target[r]].wf = job[r]
    BY <1>0, <1>3 DEF decide, append_granted, Assigned, Granted
  <2>2. approval' = [approval EXCEPT ![target[r]].status = "approved"]
    BY <1>3 DEF decide, append_granted
  <2>3. approval'[target[r]].wf = job[r] /\ approval'[target[r]].status = "approved"
    BY <1>0, <2>1, <2>2 DEF ApprovalRows
  <2>4. pc'[r] = "update_read"
    BY <1>0, <1>3 DEF decide, append_granted
  <2> QED
    BY <1>0, <1>3, <2>1, <2>3, <2>4 DEF Approved
<1>4. CASE q = r /\ update_state_read(r)
  <2>1. pc'[r] = "update_write" /\ Approved(job[r]) /\ approval' = approval
    BY <1>0, <1>4 DEF update_state_read, Granted, db
  <2> QED
    BY <1>0, <1>4, <2>1 DEF Approved
<1>5. CASE q = r /\ finalize_node(r)
  <2>1. pc'[r] = "record" /\ mem'[r] = mem[r] /\ mem[r].next = "finalize"
    BY <1>0, <1>5 DEF finalize_node, put_json, AtNode
  <2>2. job[r] \in Workflows
    BY <2>1, NodeReady DEF Nodes
  <2>3. report' = [report EXCEPT ![job[r]] =
          IF mem[r].state.plan = NoPlan THEN EmptyPlan ELSE mem[r].state.plan]
    BY <1>5 DEF finalize_node, put_json
  <2>4. report'[job[r]] # NoPlan
    BY <1>0, <2>2, <2>3, ConstantsAssumption
  <2> QED
    BY <1>5, <2>1, <2>4
<1>6. CASE q # r
  <2>1. pc'[q] = pc[q] /\ mem'[q] = mem[q]
    BY <1>0, <1>6 DEF Serve, decide, append_granted, update_state_read,
       update_state_write, load, load_no_checkpoint, plan_node, plan_raises,
       verify_node, human_review_node, Parked, finalize_node, put_json,
       finalize_raises, finalize_record, create_artifact, save, save_superseded,
       invoke_returns, _persist_state, Step
  <2> QED
    BY <1>2, <2>1
<1>7. CASE q = r /\ pc'[r] \notin {"decide", "update_read", "update_write", "record"}
  BY <1>7
<1>8. CASE q = r /\ (plan_node(r) \/ verify_node(r) \/ human_review_node(r)
                       \/ update_state_write(r) \/ load(r) \/ load_no_checkpoint(r)
                       \/ plan_raises(r) \/ finalize_raises(r) \/ finalize_record(r)
                       \/ invoke_returns(r) \/ _persist_state(r))
  <2>1. pc'[r] \notin {"decide", "update_read", "update_write", "record"}
    BY <1>0, <1>8 DEF update_state_write, load, load_no_checkpoint, plan_node,
       plan_raises, verify_node, human_review_node, Parked, finalize_raises,
       finalize_record, create_artifact, invoke_returns, _persist_state, AtNode
  <2> QED
    BY <1>7, <1>8, <2>1
<1>9. CASE q = r /\ (save(r) \/ save_superseded(r))
  BY <1>2, <1>9 DEF save, save_superseded
<1> QED
  BY <1>3, <1>4, <1>5, <1>6, <1>8, <1>9 DEF Serve

-----------------------------------------------------------------------------
\* A new call keeps the invariant.
LEMMA CallInv ==
  ASSUME IInv, NEW r \in Requests, Call(r)
  PROVE  IInv'
<1>0. /\ TypeOK /\ Assigned /\ Ledger /\ Granted
      /\ CheckpointsOk /\ MemoryOk /\ QueuesOk
      /\ pc \in [Requests -> PCs] /\ job \in [Requests -> Workflows \cup {NoWorkflow}]
      /\ mem \in [Requests -> Threads] /\ unsaved \in [Requests -> Seq(Unsaved)]
      /\ target \in [Requests -> Approvals \cup {NoApproval}]
  BY DEF IInv, TypeOK
<1>1. TypeOK'
  BY CallTyping DEF IInv
<1>2. UNCHANGED <<approval, granted, report, completions, ckpt, crashes>> /\ pc[r] = "idle"
  BY DEF Call, start_workflow, resume_workflow, approve, approve_refused, Arrive, db
<1>3. mem[r] = NoThread /\ unsaved[r] = <<>>
  BY <1>0, <1>2 DEF Assigned
<1>4. CheckpointsOk'
  BY <1>0, <1>2 DEF CheckpointsOk
<1>5. ASSUME NEW w \in Workflows, start_workflow(r, w) PROVE IInv'
  <2> DEFINE input == [state |-> initial_state, next |-> "plan"]
             item  == [thread |-> input, overtaken |-> FALSE]
  <2>1. /\ pc' = [pc EXCEPT ![r] = "run"] /\ job' = [job EXCEPT ![r] = w]
        /\ mem' = [mem EXCEPT ![r] = input] /\ unsaved' = [unsaved EXCEPT ![r] = <<item>>]
        /\ row' = [row EXCEPT ![w].status = "created"] /\ target' = target
    BY <1>5 DEF start_workflow
  <2>2. ThreadOk(input, w, approval, completions)
    BY DEF ThreadOk, initial_state, Blank
  <2>3. item.thread = input /\ DOMAIN <<item>> = {1} /\ <<item>>[1] = item
    OBVIOUS
  <2> HIDE DEF input, item
  <2>4. Assigned'
    BY <1>0, <2>1 DEF Assigned, Active
  <2>5. Ledger'
    BY <1>0, <1>2, <2>1 DEF Ledger, Approved, TypeOK
  <2>6. Granted'
    BY <1>0, <1>2, <2>1 DEF Granted, Approved
  <2>7. MemoryOk'
    BY <1>0, <1>2, <2>1, <2>2 DEF MemoryOk
  <2>8. QueuesOk'
    BY <1>0, <1>2, <2>1, <2>2, <2>3 DEF QueuesOk
  <2> QED
    BY <1>1, <1>4, <2>4, <2>5, <2>6, <2>7, <2>8 DEF IInv
<1>6. ASSUME UNCHANGED <<row, mem, unsaved>>, NEW c \in {"load", "done"},
             NEW w \in Workflows \cup {NoWorkflow}, c = "load" => w \in Workflows,
             pc' = [pc EXCEPT ![r] = c],
             job' = [job EXCEPT ![r] = w],
             \A q \in Requests : q # r => target'[q] = target[q]
      PROVE  IInv'
  <2>1. Assigned'
    BY <1>0, <1>3, <1>6 DEF Assigned, Active
  <2>2. Ledger'
    BY <1>0, <1>2, <1>6 DEF Ledger, Approved
  <2>3. Granted'
    BY <1>0, <1>2, <1>6 DEF Granted, Approved
  <2>4. MemoryOk'
    BY <1>0, <1>2, <1>3, <1>6 DEF MemoryOk, ThreadOk
  <2>5. QueuesOk'
    BY <1>0, <1>2, <1>3, <1>6 DEF QueuesOk
  <2> QED
    BY <1>1, <1>4, <2>1, <2>2, <2>3, <2>4, <2>5 DEF IInv
<1>7. ASSUME NEW w \in Workflows, resume_workflow(r, w) PROVE IInv'
  BY <1>6, <1>7 DEF resume_workflow, db
<1>8. ASSUME NEW a \in Approvals, approve_refused(r, a) PROVE IInv'
  <2>1. job' = [job EXCEPT ![r] = job[r]]
    BY <1>0, <1>8 DEF approve_refused
  <2> QED
    BY <1>0, <1>6, <1>8, <2>1 DEF approve_refused, db
<1>9. ASSUME NEW a \in Approvals, approve(r, a) PROVE IInv'
  <2>1. /\ pc' = [pc EXCEPT ![r] = "decide"] /\ job' = [job EXCEPT ![r] = approval[a].wf]
        /\ target' = [target EXCEPT ![r] = a] /\ UNCHANGED <<row, mem, unsaved>>
        /\ approval[a].status = "pending"
    BY <1>9 DEF approve, db
  <2>2. approval[a].wf \in Workflows
    BY <1>0, <2>1 DEF Ledger
  <2>3. Assigned'
    BY <1>0, <1>3, <2>1, <2>2 DEF Assigned, Active
  <2>4. Ledger'
    BY <1>0, <1>2, <2>1 DEF Ledger, Approved
  <2>5. Granted'
    BY <1>0, <1>2, <2>1 DEF Granted, Approved
  <2>6. MemoryOk'
    BY <1>0, <1>2, <1>3, <2>1 DEF MemoryOk, ThreadOk
  <2>7. QueuesOk'
    BY <1>0, <1>2, <1>3, <2>1 DEF QueuesOk
  <2> QED
    BY <1>1, <1>4, <2>3, <2>4, <2>5, <2>6, <2>7 DEF IInv
<1> QED
  BY <1>5, <1>7, <1>8, <1>9 DEF Call

\* A crash keeps the invariant: what survives is what was committed.
LEMMA CrashInv ==
  ASSUME IInv, Crash
  PROVE  IInv'
<1>0. TypeOK /\ Assigned /\ Ledger /\ Granted /\ CheckpointsOk /\ MemoryOk
  BY DEF IInv
<1>1. /\ UNCHANGED <<row, approval, granted, report, completions, ckpt, job, target, mem>>
      /\ pc' = [r \in Requests |-> IF Active(r) THEN "done" ELSE pc[r]]
      /\ unsaved' = [r \in Requests |-> <<>>]
  BY DEF Crash, db
<1>2. TypeOK'
  BY CrashTyping DEF IInv
<1>3. Assigned'
  BY <1>0, <1>1 DEF Assigned, Active
<1>4. Ledger' /\ CheckpointsOk' /\ MemoryOk'
  BY <1>0, <1>1 DEF Ledger, CheckpointsOk, MemoryOk, Approved
<1>5. Granted'
  BY <1>0, <1>1 DEF Granted, Active, Approved
<1>6. QueuesOk'
  BY <1>1 DEF QueuesOk
<1> QED
  BY <1>2, <1>3, <1>4, <1>5, <1>6 DEF IInv

-----------------------------------------------------------------------------
\* The invariant holds when the server is first started.
LEMMA InitInv == Init => IInv
<1> SUFFICES ASSUME Init PROVE IInv
  OBVIOUS
<1>1. TypeOK
  <2>1. NoThread \in Threads /\ NoRow \in [status : WorkflowStatus \cup {"none"},
                                           node : Nodes \cup {"none"}, completed : BOOLEAN]
        /\ NoApprovalRow \in [wf : Workflows \cup {NoWorkflow},
                              status : {"none", "pending", "approved"}, plan : AllPlans]
    BY InitialTyping DEF NoRow, NoApprovalRow, AllPlans
  <2>2. [r \in Requests |-> <<>>] \in [Requests -> Seq(Unsaved)]
    OBVIOUS
  <2> QED
    BY <2>1, <2>2 DEF Init, TypeOK, PCs, AllPlans
<1>2. Assigned /\ Ledger /\ Granted
  BY DEF Init, Assigned, Active, Ledger, Granted, NoApprovalRow, NoRow
<1>3. CheckpointsOk /\ MemoryOk /\ QueuesOk
  BY DEF Init, CheckpointsOk, MemoryOk, QueuesOk, ThreadOk
<1> QED
  BY <1>1, <1>2, <1>3 DEF IInv

\* Every step keeps the invariant.
LEMMA NextInv == IInv /\ [Next]_vars => IInv'
<1> SUFFICES ASSUME IInv, [Next]_vars PROVE IInv'
  OBVIOUS
<1>1. ASSUME NEW r \in Requests, Serve(r) PROVE IInv'
  <2>1. Grows
    BY <1>1, ServeGrows
  <2>2. TypeOK'
    BY <1>1, ServeTyping DEF IInv
  <2> QED
    BY <1>1, <2>1, <2>2, ServeAssigned, ServeLedger, ServeGranted, ServeCopies DEF
       IInv
<1>2. CASE UNCHANGED vars
  BY <1>2 DEF vars, IInv, TypeOK, Assigned, Active, Ledger, Granted, CheckpointsOk,
     MemoryOk, QueuesOk, Approved
<1> QED
  BY <1>1, <1>2, CallInv, CrashInv DEF Next, AllAnswered

\* The inductive invariant holds in every reachable state.
THEOREM Invariance == Spec => []IInv
  BY InitInv, NextInv, PTL DEF Spec

\* The tables, the threads and the requests keep their types.
THEOREM TypeCorrect == Spec => []TypeOK
  BY Invariance, PTL DEF IInv

\* Nothing is completed without a human's approval, for any number of concurrent
\* requests, crashes, lost checkpoints and workflows.
THEOREM GateHolds == Spec => []HumanGate
<1>1. IInv => HumanGate
  BY DEF IInv, Ledger, CheckpointsOk, ThreadOk, HumanGate, NoThread, Blank
<1> QED
  BY Invariance, <1>1, PTL

\* A completed row or thread has its workflow_completed event, and the event its report.
THEOREM CompletionBacked == Spec => []CompletionIsBacked
<1>1. IInv => CompletionIsBacked
  BY DEF IInv, Ledger, CheckpointsOk, ThreadOk, CompletionIsBacked, NoThread, Blank
<1> QED
  BY Invariance, <1>1, PTL

\* A parked thread waits for an approval of its own workflow, and that approval
\* shows the plan the thread would report.
THEOREM ParkedOwn == Spec => []ParkedOnOwnApproval
<1>1. IInv => ParkedOnOwnApproval
  <2> SUFFICES ASSUME IInv, NEW w \in Workflows, ckpt[w].state.status = "waiting_for_human"
               PROVE  /\ ckpt[w].state.pending \in Approvals
                      /\ approval[ckpt[w].state.pending].wf = w
                      /\ approval[ckpt[w].state.pending].plan = ckpt[w].state.plan
    BY DEF ParkedOnOwnApproval
  <2>1. ckpt[w].state.pending \in Approvals \cup {NoApproval}
    BY DEF IInv, TypeOK, Threads, States
  <2> QED
    BY <2>1 DEF IInv, CheckpointsOk, ThreadOk, NoThread, Blank
<1> QED
  BY Invariance, <1>1, PTL

-----------------------------------------------------------------------------
(* WorkflowApi implements ApprovalGate. *)

\* The sets of the abstract specification, and a step that changes none.
asked     == {w \in Workflows :
                \E a \in Approvals : approval[a].wf = w /\ approval[a].status # "none"}
approved  == {w \in Workflows : Approved(w)}
written   == {w \in Workflows : report[w] # NoPlan}
announced == {w \in Workflows : completions[w] > 0}
gateVars  == <<asked, approved, written, announced>>

\* Every step of the server is a step of the abstract specification, or none.
LEMMA ServeRefines ==
  ASSUME IInv, NEW r \in Requests, Serve(r)
  PROVE  Gate!Next \/ UNCHANGED gateVars
<1> USE DEF asked, approved, written, announced, gateVars
<1>0. /\ TypeOK /\ Ledger /\ Granted /\ Assigned
      /\ approval \in [Approvals -> ApprovalRows]
      /\ report \in [Workflows -> AllPlans] /\ completions \in [Workflows -> Nat]
      /\ job[r] \in Workflows
  BY DEF IInv, TypeOK, ApprovalRows, Assigned, Active, Serve, decide,
     append_granted, update_state_read, update_state_write, load,
     load_no_checkpoint, plan_node, plan_raises, verify_node, human_review_node,
     Parked, finalize_node, put_json, finalize_raises, finalize_record,
     create_artifact, save, save_superseded, invoke_returns, _persist_state,
     AtNode
<1>w. PICK w \in Workflows : w = job[r]
  BY <1>0
<1>1. CASE decide(r)
  <2>1. /\ approval' = [approval EXCEPT ![target[r]].status = "approved"]
        /\ UNCHANGED <<report, completions>>
    BY <1>1 DEF decide, append_granted
  <2>2. /\ target[r] \in Approvals /\ approval[target[r]].wf = job[r]
        /\ approval[target[r]].status # "none"
    BY <1>0, <1>1 DEF decide, append_granted, Assigned, Granted
  <2>3. \A a \in Approvals :
          /\ approval'[a].wf = approval[a].wf
          /\ approval'[a].status = IF a = target[r] THEN "approved" ELSE approval[a].status
    BY <1>0, <2>1, <2>2 DEF ApprovalRows
  <2>4. asked' = asked /\ written' = written /\ announced' = announced
    BY <2>1, <2>2, <2>3 DEF Approved
  <2>5. job[r] \in asked
    BY <1>0, <2>2
  <2>6. approved' = approved \cup {job[r]}
    BY <1>0, <2>2, <2>3 DEF Approved
  <2>7. Gate!Approve(w)
    BY <1>w, <2>4, <2>5, <2>6 DEF Gate!Approve
  <2> QED
    BY <2>7 DEF Gate!Next
<1>2. CASE human_review_node(r)
  <2> DEFINE s == mem[r].state
  <2>1. PICK a \in Approvals :
          IF s.pending = NoApproval
            THEN /\ approval[a].status = "none"
                 /\ approval' = [approval EXCEPT ![a] =
                      [wf |-> job[r], status |-> "pending", plan |-> s.plan]]
            ELSE a = s.pending /\ UNCHANGED approval
    BY <1>2 DEF human_review_node, Parked
  <2>2. UNCHANGED <<report, completions>>
    BY <1>2 DEF human_review_node, Parked
  <2> HIDE DEF s
  <2>3. CASE UNCHANGED approval
    BY <2>2, <2>3 DEF Approved
  <2>4. CASE approval[a].status = "none" /\ approval' = [approval EXCEPT ![a] =
               [wf |-> job[r], status |-> "pending", plan |-> s.plan]]
    <3>1. \A b \in Approvals : approval'[b] =
            IF b = a THEN [wf |-> job[r], status |-> "pending", plan |-> s.plan]
                     ELSE approval[b]
      BY <1>0, <2>4
    <3>3. asked' = asked \cup {job[r]}
      BY <1>0, <2>4, <3>1
    <3>4. approved' = approved
      BY <2>4, <3>1 DEF Approved
    <3>5. Gate!Ask(w)
      BY <1>w, <2>2, <3>3, <3>4 DEF Gate!Ask
    <3> QED
      BY <3>5 DEF Gate!Next
  <2> QED
    BY <2>1, <2>3, <2>4
<1>3. CASE finalize_node(r)
  <2>1. /\ UNCHANGED <<approval, completions>>
        /\ report' = [report EXCEPT ![job[r]] =
             IF mem[r].state.plan = NoPlan THEN EmptyPlan ELSE mem[r].state.plan]
    BY <1>3 DEF finalize_node, put_json
  <2>2. job[r] \in approved
    BY <1>0, <1>3, NodeReady DEF finalize_node, put_json, AtNode, Nodes
  <2>3. written' = written \cup {job[r]}
    BY <1>0, <2>1, ConstantsAssumption
  <2>4. Gate!Write(w)
    BY <1>w, <2>1, <2>2, <2>3 DEF Gate!Write, Approved
  <2> QED
    BY <2>4 DEF Gate!Next
<1>4. CASE finalize_record(r)
  <2>1. /\ UNCHANGED <<approval, report>>
        /\ completions' = [completions EXCEPT ![job[r]] = @ + 1]
    BY <1>4 DEF finalize_record, create_artifact
  <2>2. job[r] \in written
    BY <1>0, <1>4 DEF finalize_record, create_artifact, Granted
  <2>3. announced' = announced \cup {job[r]}
    BY <1>0, <2>1
  <2>4. Gate!Announce(w)
    BY <1>w, <2>1, <2>2, <2>3 DEF Gate!Announce, Approved
  <2> QED
    BY <2>4 DEF Gate!Next
<1>5. CASE UNCHANGED <<approval, report, completions>>
  BY <1>5 DEF Approved
<1> QED
  BY <1>1, <1>2, <1>3, <1>4, <1>5 DEF Serve, update_state_read, update_state_write,
     load, load_no_checkpoint, plan_node, plan_raises, verify_node, finalize_raises,
     save, save_superseded, invoke_returns, _persist_state, db

\* Every run of the API, with its concurrent calls, crashes and lost checkpoints,
\* is a run of the approval gate.
THEOREM RefinesGate == Spec => ImplementsGate
<1> USE DEF asked, approved, written, announced, gateVars
<1>1. Init => Gate!Init
  BY ConstantsAssumption DEF Init, Gate!Init, Approved, NoApprovalRow
<1>2. IInv /\ [Next]_vars => [Gate!Next]_gateVars
  <2> SUFFICES ASSUME IInv, [Next]_vars PROVE Gate!Next \/ UNCHANGED gateVars
    OBVIOUS
  <2>1. ASSUME NEW r \in Requests, Call(r) PROVE UNCHANGED gateVars
    <3>1. UNCHANGED <<approval, report, completions>>
      BY <2>1 DEF Call, start_workflow, resume_workflow, approve, approve_refused,
         db
    <3> QED
      BY <3>1 DEF Approved
  <2>2. CASE Crash \/ UNCHANGED vars
    <3>1. UNCHANGED <<approval, report, completions>>
      BY <2>2 DEF Crash, db, vars
    <3> QED
      BY <3>1 DEF Approved
  <2> QED
    BY <2>1, <2>2, ServeRefines DEF Next, AllAnswered
<1> QED
  BY <1>1, <1>2, Invariance, PTL DEF Spec, ImplementsGate, Gate!Spec

=============================================================================
