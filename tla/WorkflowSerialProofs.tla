----------------------- MODULE WorkflowSerialProofs ------------------------
(***************************************************************************)
(* Proofs about WorkflowApi when clients make their calls one at a time,   *)
(* for any number of workflows, approvals and calls: each approval is      *)
(* granted once and, while the server does not crash, each workflow is     *)
(* completed once, its report is the plan that was approved, its row       *)
(* follows its thread, no grant is stranded, and what a client sees is a   *)
(* behaviour of ThreadLifecycle but for its fairness.                      *)
(*                                                                         *)
(* SerialInv is inductive beside IInv.  It relates the latest thread of a  *)
(* workflow to the tables; a step of the only request in progress changes  *)
(* one workflow, and MyStep says what it must leave for it.                *)
(***************************************************************************)
EXTENDS WorkflowApiProofs, FiniteSetTheorems

-----------------------------------------------------------------------------
(* One call at a time. *)

Alone(r) == \A q \in Requests : q # r => ~Active(q)

\* A request that is in progress is the only one.
LEMMA AloneIfActive ==
  ASSUME OneAtATime, NEW r \in Requests, Active(r)
  PROVE  Alone(r)
  BY DEF OneAtATime, Alone

\* A request arrives when there is none in progress.
LEMMA ArriveAlone ==
  ASSUME MaxActive = 1, OneAtATime, NEW r \in Requests, Arrive(r)
  PROVE  \A q \in Requests : ~Active(q)
<1> SUFFICES ASSUME NEW q \in Requests, Active(q) PROVE FALSE
  OBVIOUS
<1>1. {p \in Requests : Active(p)} = {q}
  BY DEF OneAtATime
<1>2. Cardinality({q}) = 1
  BY FS_Singleton
<1>3. Cardinality({p \in Requests : Active(p)}) < 1
  BY DEF Arrive
<1>4. QED
  BY <1>1, <1>2, <1>3

\* A step that leaves the others as they are, alone, leaves one at a time.
LEMMA OneAtATimeKept ==
  ASSUME NEW r \in Requests, Alone(r),
         \A q \in Requests : q # r => pc'[q] = pc[q]
  PROVE  OneAtATime'
<1>1. \A q \in Requests : q # r => ~(Active(q)')
  BY DEF Alone, Active
<1>2. QED
  BY <1>1 DEF OneAtATime

-----------------------------------------------------------------------------
(* Each approval is granted once. *)

\* An approval row stays as it is, or is asked for, or is decided as it was read.
LEMMA GrantStep ==
  ASSUME MaxActive = 1, IInv, GrantInv, NEW r \in Requests, Call(r) \/ Serve(r)
  PROVE  GrantInv'
<1>0. /\ approval \in [Approvals -> ApprovalRows] /\ granted \in [Approvals -> Nat]
      /\ pc \in [Requests -> PCs]
      /\ target \in [Requests -> Approvals \cup {NoApproval}]
      /\ OneAtATime
  BY DEF IInv, TypeOK, ApprovalRows, GrantInv
<1>1. CASE Call(r)
  <2>1. Arrive(r)
    BY <1>1 DEF Call, start_workflow, resume_workflow, approve, approve_refused
  <2>2. \A q \in Requests : ~Active(q)
    BY <1>0, <2>1, ArriveAlone
  <2>3. /\ approval' = approval /\ granted' = granted
        /\ \A q \in Requests : q # r => pc'[q] = pc[q] /\ target'[q] = target[q]
    BY <1>0, <1>1 DEF Call, start_workflow, resume_workflow, approve, approve_refused, db
  <2>4. pc'[r] = "decide" => approval[target'[r]].status = "pending"
    <3>1. ASSUME NEW w \in Workflows, start_workflow(r, w) \/ resume_workflow(r, w)
          PROVE  pc'[r] # "decide"
      BY <1>0, <3>1 DEF start_workflow, resume_workflow
    <3>2. ASSUME NEW a \in Approvals, approve_refused(r, a)
          PROVE  pc'[r] # "decide"
      BY <1>0, <3>2 DEF approve_refused
    <3>3. ASSUME NEW a \in Approvals, approve(r, a)
          PROVE  approval[target'[r]].status = "pending"
      BY <1>0, <3>3 DEF approve
    <3>4. QED
      BY <1>1, <3>1, <3>2, <3>3 DEF Call
  <2>5. OneAtATime'
    BY <2>2, <2>3, OneAtATimeKept DEF Alone
  <2>6. \A q \in Requests : DecideOk(q)'
    BY <2>2, <2>3, <2>4 DEF DecideOk, Active
  <2>7. \A a \in Approvals : GrantOk(a)'
    BY <2>3 DEF GrantInv, GrantOk
  <2>8. QED
    BY <2>5, <2>6, <2>7 DEF GrantInv
<1>2. CASE save(r) \/ save_superseded(r)
  <2>1. UNCHANGED <<approval, granted, pc, target>>
    BY <1>2 DEF save, save_superseded, db
  <2>2. QED
    BY <2>1 DEF GrantInv, OneAtATime, Active, GrantOk, DecideOk
<1>3. CASE Serve(r) /\ ~(save(r) \/ save_superseded(r))
  <2>1. Active(r) /\ Alone(r)
    <3>1. Active(r)
      BY <1>3 DEF Serve, decide, update_state_read, update_state_write, load,
                  load_no_checkpoint, plan_node, plan_raises, verify_node, human_review_node,
                  finalize_node, finalize_raises, finalize_record, invoke_returns,
                  _persist_state, AtNode, Active
    <3>2. QED
      BY <1>0, <3>1, AloneIfActive
  <2>2. /\ target' = target
        /\ pc'[r] # "decide" /\ \A q \in Requests : q # r => pc'[q] = pc[q]
    BY <1>0, <1>3 DEF Serve, decide, update_state_read, update_state_write, load,
                  load_no_checkpoint, plan_node, plan_raises, verify_node, human_review_node,
                  finalize_node, finalize_raises, finalize_record, invoke_returns,
                  _persist_state, AtNode
  <2>3. OneAtATime' /\ \A q \in Requests : DecideOk(q)'
    BY <2>1, <2>2, OneAtATimeKept DEF DecideOk, Alone, Active
  <2>4. \A a \in Approvals : GrantOk(a)
    BY DEF GrantInv
  <2>5. \A a \in Approvals : GrantOk(a)'
    <3>1. CASE decide(r)
      <4> DEFINE a == target[r]
      <4>1. a \in Approvals /\ approval[a].status = "pending"
        BY <3>1 DEF decide, IInv, Assigned, GrantInv, DecideOk
      <4>2. /\ approval' = [approval EXCEPT ![a].status = "approved"]
            /\ granted' = [granted EXCEPT ![a] = @ + 1]
        BY <3>1 DEF decide, append_granted
      <4>3. granted[a] = 0
        BY <1>0, <2>4, <4>1 DEF GrantOk
      <4> HIDE DEF a
      <4>4. granted'[a] = 1 /\ approval'[a].status = "approved"
        BY <1>0, <4>1, <4>2, <4>3 DEF ApprovalRows
      <4>5. \A b \in Approvals : b # a => granted'[b] = granted[b] /\ approval'[b] = approval[b]
        BY <1>0, <4>1, <4>2
      <4>6. QED
        BY <2>4, <4>4, <4>5 DEF GrantOk
    <3>2. CASE human_review_node(r)
      <4>1. granted' = granted
        BY <3>2 DEF human_review_node
      <4>2. PICK a \in Approvals :
              \/ approval' = approval
              \/ /\ approval[a].status = "none"
                 /\ approval' = [approval EXCEPT ![a] =
                      [wf |-> job[r], status |-> "pending", plan |-> mem[r].state.plan]]
        BY <3>2 DEF human_review_node
      <4>3. \A b \in Approvals : \/ approval'[b] = approval[b]
                                 \/ b = a /\ approval[a].status = "none"
        BY <1>0, <4>2
      <4>4. QED
        BY <2>4, <4>1, <4>3 DEF GrantOk
    <3>3. CASE ~decide(r) /\ ~human_review_node(r)
      <4>1. approval' = approval /\ granted' = granted
        BY <1>3, <3>3 DEF Serve, update_state_read, update_state_write, load,
             load_no_checkpoint, plan_node, plan_raises, verify_node, finalize_node,
             finalize_raises, finalize_record, invoke_returns, _persist_state, db
      <4>2. QED
        BY <2>4, <4>1 DEF GrantOk
    <3>4. QED
      BY <3>1, <3>2, <3>3
  <2>6. QED
    BY <2>3, <2>5 DEF GrantInv
<1>4. QED
  BY <1>1, <1>2, <1>3

\* Every step of the system keeps it, a crash too.
LEMMA GrantNext == MaxActive = 1 /\ IInv /\ GrantInv /\ [Next]_vars => GrantInv'
<1> SUFFICES ASSUME MaxActive = 1, IInv, GrantInv, [Next]_vars PROVE GrantInv'
  OBVIOUS
<1>1. ASSUME NEW r \in Requests, Call(r) \/ Serve(r) PROVE GrantInv'
  BY <1>1, GrantStep
<1>2. CASE Crash
  <2>1. /\ \A r \in Requests : pc'[r] \in {"idle", "done"}
        /\ approval' = approval /\ granted' = granted
    BY <1>2 DEF Crash, Active, db, IInv, TypeOK
  <2>2. QED
    BY <2>1 DEF GrantInv, OneAtATime, Active, GrantOk, DecideOk
<1>3. CASE UNCHANGED vars
  BY <1>3 DEF vars, GrantInv, OneAtATime, Active, GrantOk, DecideOk
<1>4. QED
  BY <1>1, <1>2, <1>3 DEF Next, AllAnswered

\* When clients make their calls one at a time, an approval is granted once, however
\* often it is approved again and whatever a crash cuts short.
THEOREM GrantsOnce ==
  ASSUME MaxActive = 1
  PROVE  Spec => []GrantedOnce
<1>1. Init => GrantInv
  BY DEF Init, GrantInv, OneAtATime, Active, GrantOk, DecideOk, NoApprovalRow
<1>2. GrantInv => GrantedOnce
  BY DEF GrantInv, GrantOk, GrantedOnce
<1>3. IInv /\ GrantInv /\ [Next]_vars => GrantInv'
  BY GrantNext
<1>4. QED
  BY <1>1, <1>2, <1>3, Invariance, PTL DEF Spec

-----------------------------------------------------------------------------
(* What a step must leave. *)

\* A thread has come to the node it has to run next, or to its end.
LEMMA Stages ==
  ASSUME NEW t, NEW w, NEW ap, NEW co, NEW rp, LatestOk(t, w, ap, co, rp)
  PROVE  /\ t.next = "none" => t = NoThread
         /\ t.state.status = "none" => t = NoThread
         /\ t.next \in {"plan", "verify", "human_review"} =>
              Planning(t) /\ Asked(w, ap) = {} /\ co = 0
         /\ t.next = "finalize" => Due(t) /\ Shown(t, w, ap) /\ co = 0
         /\ t.state.status = "completed" <=> Completed(t)
         /\ t = NoThread => Asked(w, ap) = {} /\ co = 0
         /\ t.next = "end" => Failed(t) \/ Waiting(t) \/ Completed(t)
         /\ Waiting(t) => /\ Asked(w, ap) = {t.state.pending} /\ co = 0
                          /\ ap[t.state.pending].plan = t.state.plan
  BY DEF LatestOk, Planning, Failed, Waiting, Due, Completed, NoThread, Blank

\* The approvals as a step of a request of w may leave them: those of other
\* workflows stay.
ApprovalsKept(w, ap, ap2) ==
  \A a \in Approvals : \/ ap2[a] = ap[a]
                       \/ ap[a].wf \in {NoWorkflow, w} /\ ap2[a].wf = w
                            /\ ap2[a].status # "none"

\* Such a step leaves another workflow settled.
LEMMA SettledKept ==
  ASSUME NEW t, NEW w \in Workflows, NEW v \in Workflows, v # w, NEW ap, NEW ap2,
         NEW co, NEW rp, NEW rw, ApprovalsKept(w, ap, ap2), Settled(t, v, ap, co, rp, rw)
  PROVE  Settled(t, v, ap2, co, rp, rw)
<1>1. v # NoWorkflow
  BY ConstantsAssumption
<1>2. \A a \in Approvals : ap[a].wf = v => ap2[a] = ap[a]
  BY <1>1 DEF ApprovalsKept
<1>3. \A a \in Approvals : ap2[a].wf = v => ap2[a] = ap[a]
  BY DEF ApprovalsKept
<1>4. Asked(v, ap2) = Asked(v, ap)
  BY <1>2, <1>3 DEF Asked
<1>5. \A a \in Asked(v, ap) : ap2[a] = ap[a]
  BY <1>2 DEF Asked
<1>6. LatestOk(t, v, ap2, co, rp)
  BY <1>4, <1>5 DEF LatestOk, Settled, Shown
<1>7. Unanswered(t, ap2)
  BY <1>5, Stages DEF Settled, Unanswered
<1>8. QED
  BY <1>6, <1>7 DEF Settled

\* What the step of request r leaves of workflow w.
MyStep(r, w) ==
  /\ w \in Workflows /\ job'[r] = w
  /\ \A q \in Requests : q # r => pc'[q] = pc[q] /\ unsaved'[q] = unsaved[q]
  /\ \A v \in Workflows : v # w => /\ ckpt'[v] = ckpt[v] /\ row'[v] = row[v]
                                   /\ completions'[v] = completions[v]
                                   /\ report'[v] = report[v]
  /\ ApprovalsKept(w, approval, approval')
  /\ IF pc'[r] \notin {"idle", "done"}
       THEN InProgress(pc'[r], mem'[r], unsaved'[r], target'[r], ckpt'[w], w, approval',
                       completions'[w], report'[w], row'[w])
       ELSE /\ unsaved'[r] = <<>>
            /\ Settled(ckpt'[w], w, approval', completions'[w], report'[w], row'[w])

\* That is all it takes: the other workflows are settled and stay so.
LEMMA SerialStep ==
  ASSUME SerialInv, NEW r \in Requests, NEW w \in Workflows, Alone(r), MyStep(r, w),
         Active(r) => job[r] = w
  PROVE  SerialInv'
<1>1. ASSUME NEW q \in Requests, q # r
      PROVE  pc'[q] \in {"idle", "done"} /\ unsaved'[q] = <<>>
  BY <1>1 DEF MyStep, Alone, Active, SerialInv
<1>2. OneAtATime'
  BY OneAtATimeKept DEF MyStep
<1>3. ASSUME NEW a \in Approvals, approval'[a].status = "none"
      PROVE  approval'[a].wf = NoWorkflow
  BY <1>3 DEF MyStep, ApprovalsKept, SerialInv
<1>4. ASSUME NEW v \in Workflows, \A q \in Requests : pc'[q] \notin {"idle", "done"} => job'[q] # v
      PROVE  Settled(ckpt'[v], v, approval', completions'[v], report'[v], row'[v])
  <2>1. CASE v = w
    BY <1>4, <2>1 DEF MyStep
  <2>2. CASE v # w
    <3>1. \A q \in Requests : Active(q) => job[q] # v
      BY <2>2 DEF Alone
    <3>2. Settled(ckpt[v], v, approval, completions[v], report[v], row[v])
      BY <3>1 DEF SerialInv
    <3>3. QED
      BY <2>2, <3>2, SettledKept DEF MyStep
  <2>3. QED
    BY <2>1, <2>2
<1>5. ASSUME NEW q \in Requests, pc'[q] \notin {"idle", "done"}
      PROVE  InProgress(pc'[q], mem'[q], unsaved'[q], target'[q], ckpt'[job'[q]], job'[q],
                        approval', completions'[job'[q]], report'[job'[q]], row'[job'[q]])
  BY <1>1, <1>5 DEF MyStep
<1>6. ASSUME NEW q \in Requests, pc'[q] \in {"idle", "done"}
      PROVE  unsaved'[q] = <<>>
  BY <1>1, <1>6 DEF MyStep
<1>7. QED
  BY <1>2, <1>3, <1>4, <1>5, <1>6 DEF SerialInv, Active

\* What is known of the request in progress.
LEMMA Busy ==
  ASSUME IInv, SerialInv, NEW r \in Requests, Active(r)
  PROVE  /\ job[r] \in Workflows /\ Alone(r)
         /\ InProgress(pc[r], mem[r], unsaved[r], target[r], ckpt[job[r]], job[r], approval,
                       completions[job[r]], report[job[r]], row[job[r]])
  BY AloneIfActive DEF IInv, Assigned, SerialInv

\* No result of another request waits to be written.
LEMMA NoneOvertaken ==
  ASSUME IInv, SerialInv, NEW r \in Requests, Alone(r), NEW q \in Requests
  PROVE  OthersOvertaken(r)[q] = unsaved[q]
<1>1. CASE q = r
  BY <1>1 DEF OthersOvertaken
<1>2. CASE q # r
  <2>1. unsaved[q] = <<>>
    BY <1>2 DEF SerialInv, Alone
  <2>2. Overtake(<<>>) = <<>>
    BY DEF Overtake
  <2>3. QED
    BY <2>1, <2>2 DEF OthersOvertaken
<1>3. QED
  BY <1>1, <1>2

-----------------------------------------------------------------------------
(* The calls. *)

\* No approval changes.
LEMMA SameApprovals ==
  ASSUME NEW w, NEW ap PROVE ApprovalsKept(w, ap, ap)
  BY DEF ApprovalsKept

\* A call finds its workflow settled.
LEMMA CallSerial ==
  ASSUME MaxActive = 1, IInv, SerialInv, NEW r \in Requests, Call(r)
  PROVE  SerialInv'
<1>0. /\ TypeOK /\ OneAtATime
  BY DEF IInv, SerialInv
<1>1. Arrive(r)
  BY DEF Call, start_workflow, resume_workflow, approve, approve_refused
<1>2. \A q \in Requests : ~Active(q)
  BY <1>0, <1>1, ArriveAlone
<1>3. /\ Alone(r) /\ unsaved[r] = <<>>
      /\ \A w \in Workflows :
           Settled(ckpt[w], w, approval, completions[w], report[w], row[w])
  BY <1>2 DEF Alone, SerialInv
<1>4. ASSUME NEW w \in Workflows, start_workflow(r, w) PROVE SerialInv'
  <2> DEFINE input == [state |-> initial_state, next |-> "plan"]
             u == <<[thread |-> input, overtaken |-> FALSE]>>
  <2>1. /\ row[w] = NoRow /\ row' = [row EXCEPT ![w].status = "created"]
        /\ pc' = [pc EXCEPT ![r] = "run"] /\ job' = [job EXCEPT ![r] = w]
        /\ mem' = [mem EXCEPT ![r] = input] /\ unsaved' = [unsaved EXCEPT ![r] = u]
        /\ UNCHANGED <<approval, report, completions, ckpt>>
    BY <1>4 DEF start_workflow
  <2>2. LatestOk(ckpt[w], w, approval, completions[w], report[w])
        /\ ckpt[w].state.status = "none"
    BY <1>3, <2>1 DEF Settled, NoRow
  <2>3. Asked(w, approval) = {} /\ completions[w] = 0
    BY <2>2, Stages
  <2>4. Planning(input) /\ input # NoThread /\ input.next = "plan"
    BY DEF Planning, initial_state, Blank, NoThread
  <2>5. LatestOk(input, w, approval, completions[w], report[w])
    BY <2>3, <2>4 DEF LatestOk
  <2>6. Unanswered(input, approval)
    BY <2>4 DEF Unanswered, Waiting
  <2>7. row'[w].status = "created" /\ ~row'[w].completed
    BY <1>0, <2>1 DEF TypeOK, NoRow
  <2>8. u # <<>> /\ Len(u) = 1 /\ u[1].thread = input /\ ~u[1].overtaken
    OBVIOUS
  <2> HIDE DEF input, u
  <2>9. Running(input, u, ckpt[w], w, approval, completions[w], report[w], row'[w])
    BY <2>4, <2>5, <2>6, <2>7, <2>8 DEF Running
  <2>10. InProgress("run", input, u, target'[r], ckpt[w], w, approval, completions[w],
                    report[w], row'[w])
    BY <2>9 DEF InProgress
  <2>11. /\ pc'[r] = "run" /\ mem'[r] = input /\ unsaved'[r] = u /\ job'[r] = w
         /\ \A q \in Requests : q # r => pc'[q] = pc[q] /\ unsaved'[q] = unsaved[q]
         /\ \A v \in Workflows : v # w => row'[v] = row[v]
    BY <1>0, <2>1 DEF TypeOK
  <2>12. MyStep(r, w)
    BY <2>1, <2>10, <2>11, SameApprovals DEF MyStep
  <2>13. QED
    BY <1>2, <1>3, <2>12, SerialStep
<1>5. ASSUME NEW w \in Workflows, resume_workflow(r, w) PROVE SerialInv'
  <2>1. /\ pc' = [pc EXCEPT ![r] = "load"] /\ job' = [job EXCEPT ![r] = w]
        /\ UNCHANGED <<row, approval, report, completions, ckpt, mem, unsaved>>
    BY <1>5 DEF resume_workflow, db
  <2>2. /\ pc'[r] = "load" /\ job'[r] = w
        /\ \A q \in Requests : q # r => pc'[q] = pc[q]
    BY <1>0, <2>1 DEF TypeOK
  <2>3. InProgress("load", mem'[r], <<>>, target'[r], ckpt[w], w, approval, completions[w],
                   report[w], row[w])
    BY <1>3 DEF InProgress
  <2>4. MyStep(r, w)
    BY <1>3, <2>1, <2>2, <2>3, SameApprovals DEF MyStep
  <2>5. QED
    BY <1>2, <1>3, <2>4, SerialStep
<1>6. ASSUME NEW a \in Approvals, approve(r, a) PROVE SerialInv'
  <2> DEFINE w == approval[a].wf
  <2>1. /\ approval[a].status = "pending"
        /\ pc' = [pc EXCEPT ![r] = "decide"] /\ job' = [job EXCEPT ![r] = w]
        /\ target' = [target EXCEPT ![r] = a]
        /\ UNCHANGED <<row, approval, report, completions, ckpt, mem, unsaved>>
    BY <1>6 DEF approve, db
  <2>2. w \in Workflows
    BY <2>1 DEF IInv, Ledger
  <2>3. /\ pc'[r] = "decide" /\ job'[r] = w /\ target'[r] = a
        /\ \A q \in Requests : q # r => pc'[q] = pc[q]
    BY <1>0, <2>1 DEF TypeOK
  <2>4. InProgress("decide", mem'[r], <<>>, a, ckpt[w], w, approval, completions[w],
                   report[w], row[w])
    BY <1>3, <2>1, <2>2 DEF InProgress
  <2> HIDE DEF w
  <2>5. MyStep(r, w)
    BY <1>3, <2>1, <2>2, <2>3, <2>4, SameApprovals DEF MyStep
  <2>6. QED
    BY <1>2, <1>3, <2>2, <2>5, SerialStep
<1>7. ASSUME NEW a \in Approvals, approve_refused(r, a) PROVE SerialInv'
  <2>1. /\ pc' = [pc EXCEPT ![r] = "done"]
        /\ UNCHANGED <<row, approval, report, completions, ckpt, job, unsaved>>
    BY <1>7 DEF approve_refused, db
  <2>2. \A q \in Requests : ~(Active(q)')
    BY <1>0, <1>2, <2>1 DEF TypeOK, Active
  <2>3. QED
    BY <1>2, <1>3, <2>1, <2>2 DEF SerialInv, OneAtATime
<1>8. QED
  BY <1>4, <1>5, <1>6, <1>7 DEF Call

-----------------------------------------------------------------------------
(* The approval's way to the checkpoint. *)

\* A request that has not loaded the thread yet, or is to copy it to the row, has
\* nothing to write.
LEMMA ApprovalSerial ==
  ASSUME IInv, SerialInv, NEW r \in Requests,
         decide(r) \/ update_state_read(r) \/ update_state_write(r)
  PROVE  SerialInv'
<1> DEFINE w == job[r]
           k == ckpt[w]
           co == completions[w]
           rp == report[w]
           rw == row[w]
<1>0. /\ TypeOK /\ approval \in [Approvals -> ApprovalRows]
      /\ Active(r)
  BY DEF IInv, TypeOK, ApprovalRows, decide, update_state_read, update_state_write, Active
<1>1. /\ w \in Workflows /\ Alone(r)
      /\ InProgress(pc[r], mem[r], unsaved[r], target[r], k, w, approval, co, rp, rw)
  BY <1>0, Busy
<1>2. unsaved[r] = <<>>
  BY <1>1 DEF InProgress, decide, update_state_read, update_state_write
<1>3. CASE decide(r)
  <2> DEFINE a == target[r]
  <2>1. /\ pc[r] = "decide" /\ pc' = [pc EXCEPT ![r] = "update_read"]
        /\ approval' = [approval EXCEPT ![a].status = "approved"]
        /\ UNCHANGED <<row, report, completions, ckpt, job, target, mem, unsaved>>
    BY <1>3 DEF decide
  <2>2. Settled(k, w, approval, co, rp, rw)
        /\ approval[a].status = "pending" /\ approval[a].wf = w /\ a \in Approvals
    BY <1>1, <2>1 DEF InProgress, IInv, Assigned
  <2>3. a \in Asked(w, approval)
    BY <2>2 DEF Asked
  <2>4. Waiting(k) /\ a = k.state.pending /\ approval[a].plan = k.state.plan
        /\ Asked(w, approval) = {a} /\ co = 0
    <3>1. LatestOk(k, w, approval, co, rp) /\ k.next \in {"none", "plan", "end"}
      BY <2>2 DEF Settled
    <3>2. ~Shown(k, w, approval)
      BY <2>2, <2>3 DEF Shown
    <3>3. QED
      BY <2>3, <3>1, <3>2 DEF LatestOk
  <2>5. /\ approval'[a].status = "approved" /\ approval'[a].wf = w
        /\ approval'[a].plan = approval[a].plan
        /\ \A b \in Approvals : b # a => approval'[b] = approval[b]
    BY <1>0, <2>1, <2>2 DEF ApprovalRows
  <2>6. Asked(w, approval') = {a}
    BY <2>2, <2>4, <2>5 DEF Asked
  <2>7. LatestOk(k, w, approval', co, rp)
    BY <2>4, <2>5, <2>6 DEF LatestOk
  <2>8. ~rw.completed
    BY <2>2, <2>4 DEF Settled, Waiting
  <2>9. InProgress("update_read", mem[r], <<>>, a, k, w, approval', co, rp, rw)
    BY <2>4, <2>5, <2>7, <2>8 DEF InProgress
  <2>10. ApprovalsKept(w, approval, approval')
    BY <2>2, <2>5 DEF ApprovalsKept
  <2>11. pc'[r] = "update_read" /\ \A q \in Requests : q # r => pc'[q] = pc[q]
    BY <1>0, <2>1 DEF TypeOK
  <2>12. MyStep(r, w)
    BY <1>1, <1>2, <2>1, <2>9, <2>10, <2>11 DEF MyStep
  <2>13. QED
    BY <1>1, <2>12, SerialStep
<1>4. CASE update_state_read(r)
  <2>1. /\ pc[r] = "update_read" /\ pc' = [pc EXCEPT ![r] = "update_write"]
        /\ mem' = [mem EXCEPT ![r] = k]
        /\ UNCHANGED <<approval, row, report, completions, ckpt, job, target, unsaved>>
    BY <1>4 DEF update_state_read, db
  <2>2. /\ pc'[r] = "update_write" /\ mem'[r] = k
        /\ \A q \in Requests : q # r => pc'[q] = pc[q]
    BY <1>0, <2>1 DEF TypeOK
  <2>3. InProgress("update_write", k, <<>>, target[r], k, w, approval, co, rp, rw)
    BY <1>1, <2>1 DEF InProgress
  <2>4. MyStep(r, w)
    BY <1>1, <1>2, <2>1, <2>2, <2>3, SameApprovals DEF MyStep
  <2>5. QED
    BY <1>1, <2>4, SerialStep
<1>5. CASE update_state_write(r)
  <2>1. PICK s : s = [mem[r].state EXCEPT !.status = "running", !.pending = NoApproval]
    OBVIOUS
  <2>2. PICK t : t = [state |-> s, next |-> route_after_human_review(s)]
    OBVIOUS
  <2>3. /\ pc[r] = "update_write" /\ pc' = [pc EXCEPT ![r] = "load"]
        /\ ckpt' = [ckpt EXCEPT ![w] = t] /\ unsaved' = OthersOvertaken(r)
        /\ UNCHANGED <<approval, row, report, completions, job, target, mem>>
    BY <1>5, <2>1, <2>2 DEF update_state_write, db
  <2>4. /\ mem[r] = k /\ Waiting(k) /\ LatestOk(k, w, approval, co, rp)
        /\ approval[k.state.pending].status = "approved" /\ ~rw.completed
    BY <1>1, <2>3 DEF InProgress
  <2>5. mem[r].state \in States
    BY <1>0 DEF TypeOK, Threads
  <2>6. /\ s.status = "running" /\ s.pending = NoApproval
        /\ s.known = mem[r].state.known /\ s.plan = mem[r].state.plan
    BY <2>1, <2>5 DEF States
  <2>7. t.state = s /\ t.next = "finalize"
    BY <2>2, <2>6 DEF route_after_human_review
  <2>8. Due(t)
    BY <2>4, <2>6, <2>7 DEF Due, Waiting
  <2>9. Asked(w, approval) = {k.state.pending} /\ co = 0
        /\ approval[k.state.pending].plan = k.state.plan
    BY <2>4, Stages
  <2>10. Shown(t, w, approval)
    BY <2>4, <2>6, <2>7, <2>9 DEF Shown, Waiting
  <2>11. LatestOk(t, w, approval, co, rp)
    BY <2>8, <2>9, <2>10 DEF LatestOk
  <2>12. InProgress("load", mem[r], <<>>, target[r], t, w, approval, co, rp, rw)
    BY <2>4, <2>8, <2>11 DEF InProgress
  <2>13. /\ pc'[r] = "load" /\ ckpt'[w] = t
         /\ \A q \in Requests : q # r => pc'[q] = pc[q]
         /\ \A v \in Workflows : v # w => ckpt'[v] = ckpt[v]
    BY <1>0, <1>1, <2>3 DEF TypeOK
  <2>14. \A q \in Requests : unsaved'[q] = unsaved[q]
    BY <1>1, <2>3, NoneOvertaken
  <2>15. MyStep(r, w)
    BY <1>1, <1>2, <2>3, <2>12, <2>13, <2>14, SameApprovals DEF MyStep
  <2>16. QED
    BY <1>1, <2>15, SerialStep
<1>6. QED
  BY <1>3, <1>4, <1>5

\* A request loads the thread that is due or settled, or finds none.
LEMMA LoadSerial ==
  ASSUME IInv, SerialInv, NEW r \in Requests, load(r) \/ load_no_checkpoint(r)
  PROVE  SerialInv'
<1> DEFINE w == job[r]
           k == ckpt[w]
           co == completions[w]
           rp == report[w]
           rw == row[w]
<1>0. TypeOK /\ Active(r) /\ pc[r] = "load"
  BY DEF IInv, load, load_no_checkpoint, Active
<1>1. /\ w \in Workflows /\ Alone(r)
      /\ InProgress(pc[r], mem[r], unsaved[r], target[r], k, w, approval, co, rp, rw)
  BY <1>0, Busy
<1>2. /\ unsaved[r] = <<>> /\ LatestOk(k, w, approval, co, rp)
      /\ \/ Settled(k, w, approval, co, rp, rw)
         \/ Due(k) /\ ~rw.completed
  BY <1>0, <1>1 DEF InProgress, Settled
<1>3. CASE load(r)
  <2>1. /\ k # NoThread /\ mem' = [mem EXCEPT ![r] = k] /\ pc' = [pc EXCEPT ![r] = "run"]
        /\ UNCHANGED <<approval, row, report, completions, ckpt, job, target, unsaved>>
    BY <1>3 DEF load, db
  <2>2. /\ pc'[r] = "run" /\ mem'[r] = k
        /\ \A q \in Requests : q # r => pc'[q] = pc[q]
    BY <1>0, <2>1 DEF TypeOK
  <2>3. Unanswered(k, approval)
    BY <1>2 DEF Settled, Due, Unanswered, Waiting
  <2>4. /\ k.next = "plan" => rw.status = "created"
        /\ rw.completed => Completed(k)
    BY <1>2, Stages DEF Settled, Due, Planning
  <2>5. Running(k, <<>>, k, w, approval, co, rp, rw)
    BY <1>2, <2>1, <2>3, <2>4 DEF Running
  <2>6. InProgress("run", k, <<>>, target[r], k, w, approval, co, rp, rw)
    BY <2>5 DEF InProgress
  <2>7. MyStep(r, w)
    BY <1>1, <1>2, <2>1, <2>2, <2>6, SameApprovals DEF MyStep
  <2>8. QED
    BY <1>1, <2>7, SerialStep
<1>4. CASE load_no_checkpoint(r)
  <2>1. /\ k = NoThread /\ pc' = [pc EXCEPT ![r] = "done"]
        /\ UNCHANGED <<approval, row, report, completions, ckpt, job, target, mem, unsaved>>
    BY <1>4 DEF load_no_checkpoint, db
  <2>2. Settled(k, w, approval, co, rp, rw)
    BY <1>2, <2>1 DEF Due, NoThread
  <2>3. pc'[r] = "done" /\ \A q \in Requests : q # r => pc'[q] = pc[q]
    BY <1>0, <2>1 DEF TypeOK
  <2>4. MyStep(r, w)
    BY <1>1, <1>2, <2>1, <2>2, <2>3, SameApprovals DEF MyStep
  <2>5. QED
    BY <1>1, <2>4, SerialStep
<1>5. QED
  BY <1>3, <1>4

-----------------------------------------------------------------------------
(* The nodes. *)

\* A node that returns adds its result to the queue.
LEMMA NodeSerial ==
  ASSUME IInv, SerialInv, NEW r \in Requests, pc[r] \in {"run", "record"},
         NEW n \in Nodes, NEW s, Step(r, n, s), pc' = [pc EXCEPT ![r] = "run"],
         UNCHANGED <<row, report, ckpt, job, target>>,
         ApprovalsKept(job[r], approval, approval'),
         \A v \in Workflows : v # job[r] => completions'[v] = completions[v],
         LatestOk([state |-> s, next |-> NextNode(n, s)], job[r], approval',
                  completions'[job[r]], report[job[r]]),
         Unanswered([state |-> s, next |-> NextNode(n, s)], approval'),
         NextNode(n, s) \notin {"none", "plan"},
         ~row[job[r]].completed
  PROVE  SerialInv'
<1> DEFINE w == job[r]
           k == ckpt[w]
           u == unsaved[r]
<1>0. TypeOK /\ Active(r)
  BY DEF IInv, Active
<1>1. /\ w \in Workflows /\ Alone(r)
      /\ InProgress(pc[r], mem[r], u, target[r], k, w, approval, completions[w],
                    report[w], row[w])
  BY <1>0, Busy
<1>2. \A i \in 1..Len(u) : ~u[i].overtaken
  BY <1>1 DEF InProgress, Running
<1>3. PICK t : t = [state |-> s, next |-> NextNode(n, s)]
  OBVIOUS
<1>4. PICK x : x = [thread |-> t, overtaken |-> FALSE]
  OBVIOUS
<1>5. mem' = [mem EXCEPT ![r] = t] /\ unsaved' = [unsaved EXCEPT ![r] = Append(@, x)]
  BY <1>3, <1>4 DEF Step
<1>6. /\ mem'[r] = t /\ unsaved'[r] = Append(u, x) /\ pc'[r] = "run"
      /\ \A q \in Requests : q # r => pc'[q] = pc[q] /\ unsaved'[q] = unsaved[q]
  BY <1>0, <1>5 DEF TypeOK
<1>7. LET u2 == Append(u, x)
      IN /\ u2 # <<>> /\ u2[Len(u2)].thread = t
         /\ \A i \in 1..Len(u2) : ~u2[i].overtaken
  <2>1. u \in Seq(Unsaved)
    BY <1>0 DEF TypeOK
  <2>2. x.thread = t /\ ~x.overtaken
    BY <1>4
  <2>3. /\ Len(Append(u, x)) = Len(u) + 1 /\ Append(u, x)[Len(u) + 1] = x
        /\ \A i \in 1..Len(u) : Append(u, x)[i] = u[i]
        /\ Len(u) \in Nat /\ Append(u, x) # <<>>
    BY <2>1
  <2>4. QED
    BY <1>2, <2>2, <2>3
<1>8. t # NoThread /\ t.next # "plan"
  BY <1>3 DEF NoThread
<1>9. Running(t, Append(u, x), k, w, approval', completions'[w], report[w], row[w])
  BY <1>3, <1>7, <1>8 DEF Running
<1>10. InProgress("run", t, Append(u, x), target[r], k, w, approval', completions'[w],
                  report[w], row[w])
  BY <1>9 DEF InProgress
<1>11. MyStep(r, w)
  BY <1>1, <1>6, <1>10 DEF MyStep
<1>12. QED
  BY <1>1, <1>11, SerialStep

\* The nodes up to the review find no approval; the review asks for the only one.
LEMMA PlanningSerial ==
  ASSUME IInv, SerialInv, NEW r \in Requests,
         plan_node(r) \/ verify_node(r) \/ human_review_node(r)
  PROVE  SerialInv'
<1> DEFINE w == job[r]
           k == ckpt[w]
           m == mem[r]
           co == completions[w]
           rp == report[w]
           rw == row[w]
<1>0. /\ TypeOK /\ approval \in [Approvals -> ApprovalRows]
      /\ Active(r) /\ pc[r] = "run" /\ pc' = [pc EXCEPT ![r] = "run"]
      /\ m.next \in {"plan", "verify", "human_review"} /\ m.state \in States
      /\ UNCHANGED <<row, report, completions, ckpt, job, target>>
  BY DEF IInv, TypeOK, ApprovalRows, Threads, plan_node, verify_node, human_review_node, AtNode,
         Active, db
<1>1. /\ w \in Workflows /\ Alone(r)
      /\ InProgress(pc[r], m, unsaved[r], target[r], k, w, approval, co, rp, rw)
  BY <1>0, Busy
<1>2. LatestOk(m, w, approval, co, rp) /\ (rw.completed => Completed(m))
  BY <1>0, <1>1 DEF InProgress, Running
<1>3. Planning(m) /\ Asked(w, approval) = {} /\ co = 0 /\ ~rw.completed
  BY <1>0, <1>2, Stages DEF Completed
<1>4. CASE plan_node(r)
  <2>1. PICK p \in Plans \cup {EmptyPlan} :
          Step(r, "plan", [m.state EXCEPT !.plan = p, !.node = "plan",
                             !.status = "running", !.steps = Append(@, "plan")])
    BY <1>4 DEF plan_node
  <2>2. PICK s : s = [m.state EXCEPT !.plan = p, !.node = "plan",
                        !.status = "running", !.steps = Append(@, "plan")]
    OBVIOUS
  <2>3. s.status = "running" /\ s.known = m.state.known /\ s.pending = m.state.pending
    BY <1>0, <2>2 DEF States
  <2>4. PICK t : t = [state |-> s, next |-> NextNode("plan", s)]
    OBVIOUS
  <2>5. t.state = s /\ t.next = "verify"
    BY <2>4 DEF NextNode
  <2>6. Planning(t)
    BY <1>3, <2>3, <2>5 DEF Planning
  <2>7. LatestOk(t, w, approval, co, rp) /\ Unanswered(t, approval)
    BY <1>3, <2>5, <2>6 DEF LatestOk, Unanswered, Waiting
  <2>8. approval' = approval /\ "plan" \in Nodes
    BY <1>4 DEF plan_node, db, Nodes
  <2>9. QED
    BY <1>0, <1>3, <2>1, <2>2, <2>4, <2>5, <2>7, <2>8, NodeSerial, SameApprovals
<1>5. CASE verify_node(r)
  <2> DEFINE ok == ~m.state.errors /\ m.state.plan \in Plans
  <2>1. PICK s : s = [m.state EXCEPT !.node = "verify", !.errors = ~ok,
                        !.status = IF ok THEN "running" ELSE "failed",
                        !.steps = IF ok THEN Append(@, "verify") ELSE @]
    OBVIOUS
  <2>2. /\ s.errors = ~ok /\ s.status = (IF ok THEN "running" ELSE "failed")
        /\ s.known = m.state.known /\ s.pending = m.state.pending /\ s.plan = m.state.plan
    BY <1>0, <2>1 DEF States
  <2>3. PICK t : t = [state |-> s, next |-> NextNode("verify", s)]
    OBVIOUS
  <2>4. /\ t.state = s
        /\ ok => t.next = "human_review"
        /\ ~ok => t.next = "end"
    BY <2>2, <2>3 DEF NextNode, route_after_verify
  <2>5. Planning(t) \/ Failed(t)
    BY <1>3, <2>2, <2>4 DEF Planning, Failed
  <2>6. LatestOk(t, w, approval, co, rp) /\ Unanswered(t, approval)
    BY <1>3, <2>2, <2>4, <2>5 DEF LatestOk, Unanswered, Waiting
  <2>7. /\ approval' = approval /\ "verify" \in Nodes /\ Step(r, "verify", s)
        /\ t.next \notin {"none", "plan"}
    BY <1>5, <2>1, <2>4 DEF verify_node, db, Nodes
  <2>8. QED
    BY <1>0, <1>3, <2>3, <2>6, <2>7, NodeSerial, SameApprovals
<1>6. CASE human_review_node(r)
  <2>1. m.state.pending = NoApproval /\ m.state.plan \in Plans /\ m.state.known
    BY <1>3, <1>6 DEF Planning, human_review_node, AtNode
  <2>2. PICK a \in Approvals :
          /\ approval[a].status = "none"
          /\ approval' = [approval EXCEPT ![a] =
               [wf |-> w, status |-> "pending", plan |-> m.state.plan]]
          /\ Step(r, "human_review", Parked(m.state, a))
    BY <1>6, <2>1 DEF human_review_node
  <2>3. PICK s : s = Parked(m.state, a)
    OBVIOUS
  <2>4. /\ s.status = "waiting_for_human" /\ s.pending = a
        /\ s.known = m.state.known /\ s.plan = m.state.plan
    BY <1>0, <2>3 DEF States, Parked
  <2>5. PICK t : t = [state |-> s, next |-> NextNode("human_review", s)]
    OBVIOUS
  <2>6. t.state = s /\ t.next = "end"
    BY <2>4, <2>5 DEF NextNode, route_after_human_review
  <2>7. Waiting(t)
    BY <2>1, <2>4, <2>6 DEF Waiting
  <2>8. /\ approval'[a].wf = w /\ approval'[a].status = "pending"
        /\ approval'[a].plan = m.state.plan
        /\ \A b \in Approvals : b # a => approval'[b] = approval[b]
    BY <1>0, <2>2
  <2>9. Asked(w, approval') = {a}
    BY <1>3, <2>8 DEF Asked
  <2>10. LatestOk(t, w, approval', co, rp) /\ Unanswered(t, approval')
    BY <1>3, <2>4, <2>6, <2>7, <2>8, <2>9 DEF LatestOk, Unanswered
  <2>11. ApprovalsKept(w, approval, approval')
    BY <2>2, <2>8 DEF ApprovalsKept, SerialInv
  <2>12. "human_review" \in Nodes
    BY DEF Nodes
  <2>13. QED
    BY <1>0, <1>3, <2>2, <2>3, <2>5, <2>6, <2>10, <2>11, <2>12, NodeSerial
<1>7. QED
  BY <1>4, <1>5, <1>6

\* The report is written for a thread that is due, and completes it once.
LEMMA FinalizeSerial ==
  ASSUME IInv, SerialInv, NEW r \in Requests,
         finalize_node(r) \/ finalize_raises(r) \/ finalize_record(r)
  PROVE  SerialInv'
<1> DEFINE w == job[r]
           k == ckpt[w]
           m == mem[r]
           co == completions[w]
           rp == report[w]
           rw == row[w]
<1>0. TypeOK /\ Active(r) /\ pc[r] \in {"run", "record"} /\ m.state \in States
  BY DEF IInv, TypeOK, Threads, finalize_node, finalize_raises, finalize_record, AtNode, Active
<1>1. /\ w \in Workflows /\ Alone(r)
      /\ InProgress(pc[r], m, unsaved[r], target[r], k, w, approval, co, rp, rw)
  BY <1>0, Busy
<1>2. Running(m, unsaved[r], k, w, approval, co, rp, rw)
  BY <1>0, <1>1 DEF InProgress
<1>3. m.next = "finalize"
  BY <1>1 DEF finalize_node, finalize_raises, finalize_record, AtNode, InProgress, Due
<1>4. Due(m) /\ Shown(m, w, approval) /\ co = 0 /\ ~rw.completed
  BY <1>2, <1>3, Stages DEF Running, Completed
<1>5. CASE finalize_node(r)
  <2>1. m.state.plan # NoPlan
    BY <1>4, ConstantsAssumption DEF Due
  <2>2. /\ report' = [report EXCEPT ![w] = m.state.plan] /\ pc' = [pc EXCEPT ![r] = "record"]
        /\ UNCHANGED <<row, approval, completions, ckpt, job, target, mem, unsaved>>
    BY <1>5, <2>1 DEF finalize_node, put_json
  <2>3. /\ report'[w] = m.state.plan /\ pc'[r] = "record"
        /\ \A v \in Workflows : v # w => report'[v] = report[v]
        /\ \A q \in Requests : q # r => pc'[q] = pc[q]
    BY <1>0, <1>1, <2>2 DEF TypeOK
  <2>4. LatestOk(m, w, approval, co, report'[w])
    BY <1>4 DEF LatestOk
  <2>5. Running(m, unsaved[r], k, w, approval, co, report'[w], rw)
    BY <1>2, <2>4 DEF Running
  <2>6. InProgress("record", m, unsaved[r], target[r], k, w, approval, co, report'[w], rw)
    BY <1>4, <2>3, <2>5 DEF InProgress
  <2>7. MyStep(r, w)
    BY <1>1, <2>2, <2>3, <2>6, SameApprovals DEF MyStep
  <2>8. QED
    BY <1>1, <2>7, SerialStep
<1>6. CASE finalize_raises(r)
  BY <1>4, <1>6 DEF finalize_raises, Due
<1>7. CASE finalize_record(r)
  <2>1. rp = m.state.plan
    BY <1>1, <1>7 DEF finalize_record, InProgress
  <2>2. PICK s : s = [m.state EXCEPT !.node = "finalize",
                        !.status = "completed", !.steps = Append(@, "finalize")]
    OBVIOUS
  <2>3. s.status = "completed" /\ s.plan = m.state.plan
    BY <1>0, <2>2 DEF States
  <2>4. PICK t : t = [state |-> s, next |-> NextNode("finalize", s)]
    OBVIOUS
  <2>5. t.state = s /\ t.next = "end"
    BY <2>4 DEF NextNode
  <2>6. /\ completions' = [completions EXCEPT ![w] = @ + 1]
        /\ Step(r, "finalize", s) /\ pc' = [pc EXCEPT ![r] = "run"]
        /\ UNCHANGED <<row, approval, report, ckpt, job, target>> /\ "finalize" \in Nodes
    BY <1>7, <2>2 DEF finalize_record, create_artifact, Nodes
  <2>7. completions'[w] = 1 /\ \A v \in Workflows : v # w => completions'[v] = completions[v]
    BY <1>0, <1>1, <1>4, <2>6 DEF TypeOK
  <2>8. Completed(t) /\ Shown(t, w, approval)
    BY <1>4, <2>3, <2>5 DEF Completed, Shown
  <2>9. LatestOk(t, w, approval, completions'[w], rp) /\ Unanswered(t, approval)
    BY <2>1, <2>3, <2>5, <2>7, <2>8 DEF LatestOk, Unanswered, Waiting, Completed
  <2>10. QED
    BY <1>0, <1>4, <2>4, <2>5, <2>6, <2>7, <2>9, NodeSerial, SameApprovals
<1>8. QED
  BY <1>5, <1>6, <1>7

-----------------------------------------------------------------------------
(* The checkpoints and the end of an invoke. *)

\* The head of a queue is written; what is left still ends with the latest thread.
LEMMA QueueWritten ==
  ASSUME NEW u \in Seq(Unsaved), u # <<>>, NEW m, NEW k, NEW w, NEW ap, NEW co, NEW rp, NEW rw,
         Running(m, u, k, w, ap, co, rp, rw)
  PROVE  ~Head(u).overtaken /\ Running(m, Tail(u), Head(u).thread, w, ap, co, rp, rw)
<1>0. PICK v \in Seq(Unsaved) : v = Tail(u)
  <2>1. Tail(u) \in Seq(Unsaved)
    OBVIOUS
  <2>2. QED
    BY <2>1
<1>1. /\ Len(u) \in Nat /\ Len(u) > 0 /\ Head(u) = u[1]
      /\ Len(v) \in Nat /\ Len(v) = Len(u) - 1
      /\ \A i \in 1..Len(v) : v[i] = u[i + 1]
  BY <1>0
<1>2. m = u[Len(u)].thread /\ \A i \in 1..Len(u) : ~u[i].overtaken
  BY DEF Running
<1>3. ~Head(u).overtaken
  BY <1>1, <1>2
<1>4. \A i \in 1..Len(v) : ~v[i].overtaken
  BY <1>1, <1>2
<1>5. CASE v = <<>>
  <2>1. Len(u) = 1
    BY <1>1, <1>5
  <2>2. m = Head(u).thread
    BY <1>1, <1>2, <2>1
  <2>3. QED
    BY <1>0, <1>3, <1>4, <1>5, <2>2 DEF Running
<1>6. CASE v # <<>>
  <2>1. Len(v) # 0
    BY <1>6
  <2>2. Len(v) \in 1..Len(v) /\ Len(v) + 1 = Len(u)
    BY <1>1, <2>1
  <2>3. m = v[Len(v)].thread
    BY <1>1, <1>2, <2>2
  <2>4. QED
    BY <1>0, <1>3, <1>4, <1>6, <2>3 DEF Running
<1>7. QED
  BY <1>5, <1>6

\* Writing a checkpoint, and the end of an invoke that returns or raises.
LEMMA WriteSerial ==
  ASSUME IInv, SerialInv, NEW r \in Requests,
         \/ save(r) \/ save_superseded(r) \/ plan_raises(r)
         \/ invoke_returns(r) \/ _persist_state(r)
  PROVE  SerialInv'
<1> DEFINE w == job[r]
           k == ckpt[w]
           m == mem[r]
           u == unsaved[r]
           co == completions[w]
           rp == report[w]
           rw == row[w]
<1>0. TypeOK /\ Active(r)
  <2>1. CASE save(r) \/ save_superseded(r)
    BY <2>1 DEF save, save_superseded, SerialInv, IInv
  <2>2. CASE plan_raises(r) \/ invoke_returns(r) \/ _persist_state(r)
    BY <2>2 DEF plan_raises, invoke_returns, _persist_state, AtNode, Active, IInv
  <2>3. QED
    BY <2>1, <2>2
<1>1. /\ w \in Workflows /\ Alone(r)
      /\ InProgress(pc[r], m, u, target[r], k, w, approval, co, rp, rw)
  BY <1>0, Busy
<1>2. u \in Seq(Unsaved) /\ pc[r] \in PCs
  BY <1>0 DEF TypeOK
<1>3. CASE save(r) \/ save_superseded(r)
  <2>1. u # <<>>
    BY <1>3 DEF save, save_superseded
  <2>2. pc[r] \in {"run", "record", "raise"}
    BY <1>0, <1>1, <1>2, <2>1 DEF InProgress, PCs, Active
  <2>3. Running(m, u, k, w, approval, co, rp, rw)
    BY <1>1, <2>2 DEF InProgress
  <2>4. ~Head(u).overtaken /\ Running(m, Tail(u), Head(u).thread, w, approval, co, rp, rw)
    BY <1>2, <2>1, <2>3, QueueWritten
  <2>5. /\ ckpt' = [ckpt EXCEPT ![w] = Head(u).thread]
        /\ unsaved' = [OthersOvertaken(r) EXCEPT ![r] = Tail(@)]
        /\ UNCHANGED <<approval, row, report, completions, pc, job, target, mem>>
    BY <1>3, <2>4 DEF save, save_superseded, db
  <2>6. \A q \in Requests : OthersOvertaken(r)[q] = unsaved[q]
    BY <1>1, NoneOvertaken
  <2>7. OthersOvertaken(r) \in [Requests -> Seq(Unsaved)]
    BY <1>0, OvertakeTyping
  <2>8. unsaved'[r] = Tail(u) /\ \A q \in Requests : q # r => unsaved'[q] = unsaved[q]
    BY <2>5, <2>6, <2>7
  <2>9. ckpt'[w] = Head(u).thread /\ \A v \in Workflows : v # w => ckpt'[v] = ckpt[v]
    BY <1>0, <1>1, <2>5 DEF TypeOK
  <2>10. InProgress(pc[r], m, Tail(u), target[r], Head(u).thread, w, approval, co, rp, rw)
    BY <1>1, <2>2, <2>4 DEF InProgress
  <2>11. MyStep(r, w)
    BY <1>0, <1>1, <2>5, <2>8, <2>9, <2>10, SameApprovals DEF MyStep, Active
  <2>12. QED
    BY <1>1, <2>11, SerialStep
<1>4. CASE plan_raises(r)
  <2>1. /\ pc[r] = "run" /\ m.next = "plan" /\ pc' = [pc EXCEPT ![r] = "raise"]
        /\ UNCHANGED <<approval, row, report, completions, ckpt, job, target, mem, unsaved>>
    BY <1>4 DEF plan_raises, AtNode, db
  <2>2. pc'[r] = "raise" /\ \A q \in Requests : q # r => pc'[q] = pc[q]
    BY <1>0, <2>1 DEF TypeOK
  <2>3. InProgress("raise", m, u, target[r], k, w, approval, co, rp, rw)
    BY <1>1, <2>1 DEF InProgress
  <2>4. MyStep(r, w)
    BY <1>1, <2>1, <2>2, <2>3, SameApprovals DEF MyStep
  <2>5. QED
    BY <1>1, <2>4, SerialStep
<1>5. CASE invoke_returns(r)
  <2>1. /\ u = <<>> /\ pc[r] \in {"run", "raise"}
        /\ UNCHANGED <<approval, row, report, completions, ckpt, job, target, mem, unsaved>>
    BY <1>5 DEF invoke_returns, db
  <2>2. Running(m, u, k, w, approval, co, rp, rw) /\ m = k
    BY <1>1, <2>1 DEF InProgress, Running
  <2>3. CASE pc[r] = "run"
    <3>1. m.next = "end" /\ pc' = [pc EXCEPT ![r] = "persist"]
      BY <1>5, <2>3 DEF invoke_returns
    <3>2. pc'[r] = "persist" /\ \A q \in Requests : q # r => pc'[q] = pc[q]
      BY <1>0, <3>1 DEF TypeOK
    <3>3. InProgress("persist", m, u, target[r], k, w, approval, co, rp, rw)
      BY <2>1, <2>2, <3>1 DEF InProgress
    <3>4. MyStep(r, w)
      BY <1>1, <2>1, <3>2, <3>3, SameApprovals DEF MyStep
    <3>5. QED
      BY <1>1, <3>4, SerialStep
  <2>4. CASE pc[r] = "raise"
    <3>1. m.next = "plan" /\ pc' = [pc EXCEPT ![r] = "done"]
      BY <1>1, <1>5, <2>4 DEF invoke_returns, InProgress
    <3>2. pc'[r] = "done" /\ \A q \in Requests : q # r => pc'[q] = pc[q]
      BY <1>0, <3>1 DEF TypeOK
    <3>3. LatestOk(m, w, approval, co, rp) /\ Unanswered(m, approval)
          /\ rw.status = "created" /\ (rw.completed => Completed(m))
      BY <2>2, <3>1 DEF Running
    <3>4. Planning(m)
      BY <3>1, <3>3, Stages
    <3>5. m.state.status = "created" /\ ~rw.completed
      BY <3>1, <3>3, <3>4 DEF Planning, Completed
    <3>6. rw.completed \in BOOLEAN
      BY <1>0, <1>1 DEF TypeOK
    <3>7. Settled(k, w, approval, co, rp, rw)
      BY <2>2, <3>1, <3>3, <3>5, <3>6 DEF Settled
    <3>8. MyStep(r, w)
      BY <1>1, <2>1, <3>2, <3>7, SameApprovals DEF MyStep
    <3>9. QED
      BY <1>1, <3>8, SerialStep
  <2>5. QED
    BY <2>1, <2>3, <2>4
<1>6. CASE _persist_state(r)
  <2>1. /\ pc[r] = "persist" /\ pc' = [pc EXCEPT ![r] = "done"]
        /\ row' = [row EXCEPT ![w] =
             [status |-> m.state.status,
              node |-> IF m.state.node = "none" THEN @.node ELSE m.state.node,
              completed |-> @.completed \/ m.state.status = "completed"]]
        /\ UNCHANGED <<approval, report, completions, ckpt, job, target, mem, unsaved>>
    BY <1>6 DEF _persist_state
  <2>2. /\ u = <<>> /\ m = k /\ m.next = "end" /\ LatestOk(m, w, approval, co, rp)
        /\ Unanswered(m, approval) /\ (rw.completed => Completed(m))
    BY <1>1, <2>1 DEF InProgress, Running
  <2>3. /\ row'[w].status = m.state.status
        /\ row'[w].completed = (rw.completed \/ m.state.status = "completed")
        /\ \A v \in Workflows : v # w => row'[v] = row[v]
    BY <1>0, <1>1, <2>1 DEF TypeOK
  <2>4. row'[w].completed = (m.state.status = "completed")
    BY <2>2, <2>3 DEF Completed
  <2>5. Settled(k, w, approval, co, rp, row'[w])
    BY <2>2, <2>3, <2>4 DEF Settled
  <2>6. pc'[r] = "done" /\ \A q \in Requests : q # r => pc'[q] = pc[q]
    BY <1>0, <2>1 DEF TypeOK
  <2>7. MyStep(r, w)
    BY <1>1, <2>1, <2>2, <2>3, <2>5, <2>6, SameApprovals DEF MyStep
  <2>8. QED
    BY <1>1, <2>7, SerialStep
<1>7. QED
  BY <1>3, <1>4, <1>5, <1>6

-----------------------------------------------------------------------------
(* The theorems. *)

\* No workflow has been started.
LEMMA InitSerial == Init => SerialInv
<1> SUFFICES ASSUME Init PROVE SerialInv
  OBVIOUS
<1>1. \A r \in Requests : ~Active(r) /\ unsaved[r] = <<>>
  BY DEF Init, Active
<1>2. \A a \in Approvals : approval[a].status = "none" /\ approval[a].wf = NoWorkflow
  BY DEF Init, NoApprovalRow
<1>3. ASSUME NEW w \in Workflows
      PROVE  Settled(ckpt[w], w, approval, completions[w], report[w], row[w])
  <2>1. /\ ckpt[w] = NoThread /\ completions[w] = 0
        /\ row[w].status = "none" /\ row[w].completed = FALSE
    BY DEF Init, NoRow
  <2>2. Asked(w, approval) = {}
    BY <1>2, ConstantsAssumption DEF Asked
  <2>3. /\ NoThread.next = "none" /\ NoThread.state.status = "none"
    BY DEF NoThread, Blank
  <2>4. LatestOk(ckpt[w], w, approval, completions[w], report[w])
    BY <2>1, <2>2 DEF LatestOk
  <2>5. QED
    BY <2>1, <2>3, <2>4 DEF Settled, Unanswered, Waiting
<1>4. QED
  BY <1>1, <1>2, <1>3 DEF SerialInv, OneAtATime

\* Every step keeps it.
LEMMA NextSerial ==
  ASSUME MaxActive = 1, MaxCrashes = 0, IInv, SerialInv, [Next]_vars
  PROVE  SerialInv'
<1>1. ASSUME NEW r \in Requests, Call(r) PROVE SerialInv'
  BY <1>1, CallSerial
<1>2. ASSUME NEW r \in Requests, Serve(r) PROVE SerialInv'
  BY <1>2, ApprovalSerial, LoadSerial, PlanningSerial, FinalizeSerial, WriteSerial DEF Serve
<1>3. CASE Crash
  BY <1>3 DEF Crash, IInv, TypeOK
<1>4. CASE UNCHANGED vars
  BY <1>4 DEF vars, SerialInv, OneAtATime, Active
<1>5. QED
  BY <1>1, <1>2, <1>3, <1>4 DEF Next, AllAnswered

\* When clients make their calls one at a time and the server does not crash, the
\* invariant holds in every reachable state.
THEOREM SerialInvariance ==
  ASSUME MaxActive = 1, MaxCrashes = 0
  PROVE  Spec => []SerialInv
<1>1. IInv /\ SerialInv /\ [Next]_vars => SerialInv'
  BY NextSerial
<1>2. QED
  BY <1>1, InitSerial, Invariance, PTL DEF Spec

\* What the latest thread of a workflow says of it: that of the request in progress
\* on it, if there is one.
LEMMA LatestThread ==
  ASSUME IInv, SerialInv, NEW w \in Workflows
  PROVE  \E t : LatestOk(t, w, approval, completions[w], report[w])
<1>1. CASE \A r \in Requests : Active(r) => job[r] # w
  BY <1>1 DEF SerialInv, Settled
<1>2. CASE \E r \in Requests : Active(r) /\ job[r] = w
  <2>1. PICK r \in Requests : Active(r) /\ job[r] = w
    BY <1>2
  <2>2. InProgress(pc[r], mem[r], unsaved[r], target[r], ckpt[w], w, approval, completions[w],
                   report[w], row[w])
    BY <2>1, Busy
  <2>3. pc[r] \in {"decide", "update_read", "update_write", "load", "run", "record",
                   "raise", "persist"}
    BY <2>1 DEF Active, IInv, TypeOK, PCs
  <2>4. QED
    BY <2>2, <2>3 DEF InProgress, Settled, Running
<1>3. QED
  BY <1>1, <1>2

\* However often a client resumes a workflow or approves it again, it is completed
\* once.
THEOREM CompletesOnce ==
  ASSUME MaxActive = 1, MaxCrashes = 0
  PROVE  Spec => []CompletedOnce
<1>1. IInv /\ SerialInv => CompletedOnce
  BY LatestThread DEF LatestOk, CompletedOnce
<1>2. QED
  BY <1>1, SerialInvariance, Invariance, PTL

\* The plan in a workflow's final report is one that a human was shown and approved.
THEOREM ReportsApproved ==
  ASSUME MaxActive = 1, MaxCrashes = 0
  PROVE  Spec => []ReportIsApproved
<1>1. ASSUME IInv, SerialInv PROVE ReportIsApproved
  <2> SUFFICES ASSUME NEW w \in Workflows, completions[w] > 0
               PROVE  \E a \in Approvals : /\ approval[a].wf = w
                                           /\ approval[a].status = "approved"
                                           /\ approval[a].plan = report[w]
    BY DEF ReportIsApproved
  <2>1. PICK t : LatestOk(t, w, approval, completions[w], report[w])
    BY <1>1, LatestThread
  <2>2. Shown(t, w, approval) /\ report[w] = t.state.plan
    BY <2>1 DEF LatestOk
  <2>3. QED
    BY <2>2 DEF Shown, Asked
<1>2. QED
  BY <1>1, SerialInvariance, Invariance, PTL

\* Between calls the row of each workflow shows the checkpoint of its thread.
THEOREM RowsFollow ==
  ASSUME MaxActive = 1, MaxCrashes = 0
  PROVE  Spec => []RowFollowsThread
<1>1. SerialInv => RowFollowsThread
  BY DEF SerialInv, RowFollowsThread, Quiet, Settled
<1>2. QED
  BY <1>1, SerialInvariance, PTL

\* Between calls no thread waits for an approval that was granted already.
THEOREM NoGrantStranded ==
  ASSUME MaxActive = 1, MaxCrashes = 0
  PROVE  Spec => []NoStrandedGrant
<1>1. ASSUME SerialInv PROVE NoStrandedGrant
  <2> SUFFICES ASSUME Quiet, NEW w \in Workflows,
                      ckpt[w].state.status = "waiting_for_human"
               PROVE  approval[ckpt[w].state.pending].status = "pending"
    BY DEF NoStrandedGrant
  <2>1. Settled(ckpt[w], w, approval, completions[w], report[w], row[w])
    BY <1>1 DEF SerialInv, Quiet
  <2>2. Waiting(ckpt[w])
    BY <2>1 DEF Settled, LatestOk, NoThread, Blank, Planning, Failed, Due, Completed
  <2>3. QED
    BY <2>1, <2>2 DEF Settled, Unanswered
<1>2. QED
  BY <1>1, SerialInvariance, PTL

-----------------------------------------------------------------------------
(* What a client sees moves forward. *)

\* The stage that a thread shows: its status tells it, but for the running one.
LEMMA StatusShown ==
  ASSUME NEW t, t.next # "finalize"
  PROVE  /\ t.state.status = "none" => VisibleStage(t) = "unknown"
         /\ t.state.status = "failed" => VisibleStage(t) = "failed"
         /\ t.state.status = "waiting_for_human" => VisibleStage(t) = "waiting"
         /\ t.state.status = "completed" => VisibleStage(t) = "completed"
         /\ t.state.status \in {"created", "running"} => VisibleStage(t) = "started"
<1> DEFINE x == t.state.status
<1>1. /\ x = "none" => /\ x # "waiting_for_human" /\ x # "failed" /\ x # "completed"
      /\ x = "failed" => /\ x # "none" /\ x # "waiting_for_human" /\ x # "completed"
      /\ x = "waiting_for_human" => /\ x # "none" /\ x # "failed" /\ x # "completed"
      /\ x = "completed" => /\ x # "none" /\ x # "waiting_for_human" /\ x # "failed"
      /\ x \in {"created", "running"} =>
           /\ x # "none" /\ x # "waiting_for_human" /\ x # "failed" /\ x # "completed"
  OBVIOUS
<1>2. ASSUME NEW y, y = x, y # "waiting_for_human", y # "failed", y # "completed", y = "none"
      PROVE  VisibleStage(t) = "unknown"
  BY <1>2, Zenon DEF VisibleStage
<1>3. ASSUME x = "failed", x # "none", x # "waiting_for_human", x # "completed"
      PROVE  VisibleStage(t) = "failed"
  BY <1>3, Zenon DEF VisibleStage
<1>4. ASSUME x = "waiting_for_human", x # "none", x # "failed", x # "completed"
      PROVE  VisibleStage(t) = "waiting"
  BY <1>4, Zenon DEF VisibleStage
<1>5. ASSUME x = "completed", x # "none", x # "waiting_for_human", x # "failed"
      PROVE  VisibleStage(t) = "completed"
  BY <1>5, Zenon DEF VisibleStage
<1>6. ASSUME x # "none", x # "waiting_for_human", x # "failed", x # "completed"
      PROVE  VisibleStage(t) = "started"
  BY <1>6, Zenon DEF VisibleStage
<1> HIDE DEF x
<1>7. QED
  BY <1>1, <1>2, <1>3, <1>4, <1>5, <1>6 DEF x

\* The stage of the latest thread.
LEMMA StageShown ==
  ASSUME NEW t
  PROVE  /\ VisibleStage(NoThread) = "unknown"
         /\ Planning(t) => VisibleStage(t) = "started"
         /\ Failed(t) => VisibleStage(t) = "failed"
         /\ Waiting(t) => VisibleStage(t) = "waiting"
         /\ t.state.status = "running" /\ t.next = "finalize" => VisibleStage(t) = "approved"
         /\ Due(t) => VisibleStage(t) = "approved"
         /\ Completed(t) => VisibleStage(t) = "completed"
<1>1. VisibleStage(NoThread) = "unknown"
  BY StatusShown DEF NoThread, Blank
<1>2. Planning(t) => VisibleStage(t) = "started"
  BY StatusShown DEF Planning
<1>3. /\ Failed(t) => VisibleStage(t) = "failed"
      /\ Waiting(t) => VisibleStage(t) = "waiting"
      /\ Completed(t) => VisibleStage(t) = "completed"
  BY StatusShown DEF Failed, Waiting, Completed
<1>4. ASSUME t.state.status = "running", t.next = "finalize"
      PROVE  VisibleStage(t) = "approved"
  BY <1>4, Zenon DEF VisibleStage
<1>5. QED
  BY <1>1, <1>2, <1>3, <1>4 DEF Due

\* A result that follows the last one, or the checkpoint, may join the queue.
LEMMA ForwardAppend ==
  ASSUME NEW u \in Seq(Unsaved), NEW k, NEW m, NEW x, Forward(k, u), Follows(m, x.thread),
         IF u = <<>> THEN m = k ELSE m = u[Len(u)].thread
  PROVE  Forward(k, Append(u, x))
<1> DEFINE v == Append(u, x)
<1>1. /\ Len(u) \in Nat /\ Len(v) = Len(u) + 1 /\ v[Len(u) + 1] = x
      /\ \A i \in 1..Len(u) : v[i] = u[i]
      /\ u = <<>> <=> Len(u) = 0
  OBVIOUS
<1> HIDE DEF v
<1>2. ASSUME NEW i \in 1..Len(v)
      PROVE  Follows(IF i = 1 THEN k ELSE v[i - 1].thread, v[i].thread)
  <2>1. CASE i = Len(v)
    <3>1. v[i] = x
      BY <1>1, <2>1
    <3>2. m = IF i = 1 THEN k ELSE v[i - 1].thread
      BY <1>1, <2>1
    <3>3. QED
      BY <3>1, <3>2
  <2>2. CASE i # Len(v)
    <3>1. i \in 1..Len(u) /\ v[i] = u[i] /\ (i # 1 => v[i - 1] = u[i - 1])
      BY <1>1, <2>2
    <3>2. Follows(IF i = 1 THEN k ELSE u[i - 1].thread, u[i].thread)
      BY <3>1 DEF Forward
    <3>3. QED
      BY <3>1, <3>2
  <2>3. QED
    BY <2>1, <2>2
<1>3. QED
  BY <1>2 DEF Forward, v

\* The head of a queue may be written: it follows the checkpoint, and the rest
\* follows it.
LEMMA ForwardWritten ==
  ASSUME NEW u \in Seq(Unsaved), u # <<>>, NEW k, Forward(k, u)
  PROVE  Follows(k, Head(u).thread) /\ Forward(Head(u).thread, Tail(u))
<1> DEFINE v == Tail(u)
<1>1. v \in Seq(Unsaved)
  OBVIOUS
<1>2. /\ Len(u) \in Nat /\ Len(u) > 0 /\ Head(u) = u[1]
      /\ Len(v) \in Nat /\ Len(v) = Len(u) - 1
      /\ \A i \in 1..Len(v) : v[i] = u[i + 1]
  BY <1>1
<1> HIDE DEF v
<1>3. Follows(k, Head(u).thread)
  <2>1. 1 \in 1..Len(u)
    BY <1>2
  <2>2. Follows(k, u[1].thread)
    BY <2>1 DEF Forward
  <2>3. QED
    BY <1>2, <2>2
<1>4. ASSUME NEW i \in 1..Len(v)
      PROVE  Follows(IF i = 1 THEN Head(u).thread ELSE v[i - 1].thread, v[i].thread)
  <2>1. i \in Nat /\ i + 1 \in 1..Len(u) /\ i + 1 # 1 /\ (i + 1) - 1 = i
    BY <1>2
  <2>2. Follows(u[i].thread, u[i + 1].thread)
    <3>1. Follows(IF i + 1 = 1 THEN k ELSE u[(i + 1) - 1].thread, u[i + 1].thread)
      BY <2>1 DEF Forward
    <3>2. QED
      BY <2>1, <3>1
  <2>3. u[i + 1] = v[i] /\ u[i] = IF i = 1 THEN Head(u) ELSE v[i - 1]
    BY <1>2, <2>1
  <2>4. QED
    BY <2>2, <2>3
<1>5. QED
  BY <1>3, <1>4 DEF Forward, v

\* There is nothing to follow in an empty queue.
LEMMA ForwardEmpty == ASSUME NEW k PROVE Forward(k, <<>>)
  BY DEF Forward

\* What a node returns follows the thread it was given.
LEMMA NodeFollows ==
  ASSUME IInv, SerialInv, NEW r \in Requests,
         plan_node(r) \/ verify_node(r) \/ human_review_node(r) \/ finalize_record(r)
  PROVE  \E n \in Nodes : \E s :
           Step(r, n, s) /\ Follows(mem[r], [state |-> s, next |-> NextNode(n, s)])
<1> DEFINE m == mem[r]
           w == job[r]
<1>0. /\ TypeOK /\ Active(r) /\ m.state \in States /\ pc[r] \in {"run", "record"}
  BY DEF IInv, TypeOK, Threads, plan_node, verify_node, human_review_node, finalize_record,
         AtNode, Active
<1>1. /\ w \in Workflows
      /\ InProgress(pc[r], m, unsaved[r], target[r], ckpt[w], w, approval, completions[w],
                    report[w], row[w])
  BY <1>0, Busy
<1>2. LatestOk(m, w, approval, completions[w], report[w])
  BY <1>0, <1>1 DEF InProgress, Running
<1>3. CASE plan_node(r) \/ verify_node(r) \/ human_review_node(r)
  <2>1. m.next \in {"plan", "verify", "human_review"}
    BY <1>3 DEF plan_node, verify_node, human_review_node, AtNode
  <2>2. VisibleStage(m) = "started"
    BY <1>2, <2>1, Stages, StageShown
  <2>3. CASE plan_node(r)
    <3>1. PICK p \in Plans \cup {EmptyPlan} :
            Step(r, "plan", [m.state EXCEPT !.plan = p, !.node = "plan",
                               !.status = "running", !.steps = Append(@, "plan")])
      BY <2>3 DEF plan_node
    <3>2. PICK s : s = [m.state EXCEPT !.plan = p, !.node = "plan",
                          !.status = "running", !.steps = Append(@, "plan")]
      OBVIOUS
    <3>3. s.status = "running"
      BY <1>0, <3>2 DEF States
    <3>4. PICK t : t = [state |-> s, next |-> NextNode("plan", s)]
      OBVIOUS
    <3>5. t.state.status = "running" /\ t.next = "verify"
      BY <3>3, <3>4 DEF NextNode
    <3>6. VisibleStage(t) = "started"
      BY <3>5, StatusShown
    <3>7. Follows(m, t) /\ "plan" \in Nodes /\ Step(r, "plan", s)
      BY <2>2, <3>1, <3>2, <3>6 DEF Follows, Nodes
    <3>8. QED
      BY <3>4, <3>7
  <2>4. CASE verify_node(r)
    <3> DEFINE ok == ~m.state.errors /\ m.state.plan \in Plans
    <3>1. PICK s : s = [m.state EXCEPT !.node = "verify", !.errors = ~ok,
                          !.status = IF ok THEN "running" ELSE "failed",
                          !.steps = IF ok THEN Append(@, "verify") ELSE @]
      OBVIOUS
    <3>2. s.errors = ~ok /\ s.status = (IF ok THEN "running" ELSE "failed")
      BY <1>0, <3>1 DEF States
    <3>3. PICK t : t = [state |-> s, next |-> NextNode("verify", s)]
      OBVIOUS
    <3>4. t.state.status \in {"running", "failed"} /\ t.next # "finalize"
      BY <3>2, <3>3 DEF NextNode, route_after_verify
    <3>5. VisibleStage(t) \in {"started", "failed"}
      BY <3>4, StatusShown
    <3>6. Follows(m, t) /\ "verify" \in Nodes /\ Step(r, "verify", s)
      BY <2>2, <2>4, <3>1, <3>5 DEF Follows, Nodes, verify_node
    <3>7. QED
      BY <3>3, <3>6
  <2>5. CASE human_review_node(r)
    <3>1. PICK a \in Approvals : Step(r, "human_review", Parked(m.state, a))
      BY <2>5 DEF human_review_node
    <3>2. PICK s : s = Parked(m.state, a)
      OBVIOUS
    <3>3. s.status = "waiting_for_human"
      BY <1>0, <3>2 DEF States, Parked
    <3>4. PICK t : t = [state |-> s, next |-> NextNode("human_review", s)]
      OBVIOUS
    <3>5. t.state.status = "waiting_for_human" /\ t.next = "end"
      BY <3>3, <3>4 DEF NextNode, route_after_human_review
    <3>6. VisibleStage(t) = "waiting"
      BY <3>5, StatusShown
    <3>7. Follows(m, t) /\ "human_review" \in Nodes /\ Step(r, "human_review", s)
      BY <2>2, <3>1, <3>2, <3>6 DEF Follows, Nodes
    <3>8. QED
      BY <3>4, <3>7
  <2>6. QED
    BY <1>3, <2>3, <2>4, <2>5
<1>4. CASE finalize_record(r)
  <2>1. Due(m)
    BY <1>1, <1>4 DEF InProgress, finalize_record
  <2>2. VisibleStage(m) = "approved"
    BY <2>1, StageShown
  <2>3. PICK s : s = [m.state EXCEPT !.node = "finalize", !.status = "completed",
                        !.steps = Append(@, "finalize")]
    OBVIOUS
  <2>4. s.status = "completed"
    BY <1>0, <2>3 DEF States
  <2>5. PICK t : t = [state |-> s, next |-> NextNode("finalize", s)]
    OBVIOUS
  <2>6. t.state.status = "completed" /\ t.next = "end"
    BY <2>4, <2>5 DEF NextNode
  <2>7. VisibleStage(t) = "completed"
    BY <2>6, StatusShown
  <2>8. Follows(m, t) /\ "finalize" \in Nodes /\ Step(r, "finalize", s)
    BY <1>4, <2>2, <2>3, <2>7 DEF Follows, Nodes, finalize_record
  <2>9. QED
    BY <2>5, <2>8
<1>5. QED
  BY <1>3, <1>4

\* What a step of request r on workflow w does to the checkpoints: nothing, or it
\* moves the thread of w forward, and what r still has to write follows.
Moves(r, w) ==
  /\ w \in Workflows
  /\ \A v \in Workflows : v # w => ckpt'[v] = ckpt[v]
  /\ Follows(ckpt[w], ckpt'[w])
  /\ Active(r)' => job'[r] = w /\ Forward(ckpt'[w], unsaved'[r])

\* The steps of a request move its thread forward.
LEMMA ServeMoves ==
  ASSUME IInv, SerialInv, QueuesForward, NEW r \in Requests, Serve(r)
  PROVE  Moves(r, job[r])
<1> DEFINE w == job[r]
           k == ckpt[w]
           m == mem[r]
           u == unsaved[r]
<1>0. TypeOK /\ Active(r) /\ job' = job
  <2>1. CASE save(r) \/ save_superseded(r)
    BY <2>1 DEF save, save_superseded, SerialInv, IInv
  <2>2. CASE ~(save(r) \/ save_superseded(r))
    BY <2>2 DEF Serve, decide, update_state_read, update_state_write, load,
                load_no_checkpoint, plan_node, plan_raises, verify_node, human_review_node,
                finalize_node, finalize_raises, finalize_record, invoke_returns,
                _persist_state, AtNode, Active, IInv
  <2>3. QED
    BY <2>1, <2>2
<1>1. /\ w \in Workflows /\ Alone(r)
      /\ InProgress(pc[r], m, u, target[r], k, w, approval, completions[w], report[w], row[w])
  BY <1>0, Busy
<1>2. Forward(k, u) /\ u \in Seq(Unsaved) /\ pc[r] \in PCs
  BY <1>0 DEF QueuesForward, TypeOK
<1>3. CASE decide(r) \/ update_state_read(r) \/ load(r) \/ load_no_checkpoint(r)
           \/ plan_raises(r) \/ finalize_node(r) \/ finalize_raises(r)
           \/ invoke_returns(r) \/ _persist_state(r)
  <2>1. ckpt' = ckpt /\ unsaved' = unsaved
    BY <1>3 DEF decide, update_state_read, load, load_no_checkpoint, plan_raises,
                finalize_node, finalize_raises, invoke_returns, _persist_state
  <2>2. QED
    BY <1>0, <1>1, <1>2, <2>1 DEF Moves, Follows
<1>4. CASE plan_node(r) \/ verify_node(r) \/ human_review_node(r) \/ finalize_record(r)
  <2>1. ckpt' = ckpt /\ pc[r] \in {"run", "record"}
    BY <1>4 DEF plan_node, verify_node, human_review_node, finalize_record, AtNode
  <2>2. IF u = <<>> THEN m = k ELSE m = u[Len(u)].thread
    BY <1>1, <2>1 DEF InProgress, Running
  <2>3. PICK n, s :
          n \in Nodes /\ Step(r, n, s) /\ Follows(m, [state |-> s, next |-> NextNode(n, s)])
    BY <1>4, NodeFollows
  <2>4. PICK x : x = [thread |-> [state |-> s, next |-> NextNode(n, s)], overtaken |-> FALSE]
    OBVIOUS
  <2>5. unsaved' = [unsaved EXCEPT ![r] = Append(@, x)]
    BY <2>3, <2>4 DEF Step
  <2>6. unsaved'[r] = Append(u, x)
    BY <1>0, <2>5 DEF TypeOK
  <2>7. x.thread = [state |-> s, next |-> NextNode(n, s)]
    BY <2>4
  <2>8. Forward(k, Append(u, x))
    BY <1>2, <2>2, <2>3, <2>7, ForwardAppend
  <2>9. QED
    BY <1>0, <1>1, <2>1, <2>6, <2>8 DEF Moves, Follows
<1>5. CASE save(r) \/ save_superseded(r)
  <2>1. u # <<>>
    BY <1>5 DEF save, save_superseded
  <2>2. pc[r] \in {"run", "record", "raise"}
    BY <1>0, <1>1, <1>2, <2>1 DEF InProgress, PCs, Active
  <2>3. ~Head(u).overtaken
    BY <1>1, <1>2, <2>1, <2>2, QueueWritten DEF InProgress
  <2>4. /\ ckpt' = [ckpt EXCEPT ![w] = Head(u).thread]
        /\ unsaved' = [OthersOvertaken(r) EXCEPT ![r] = Tail(@)]
    BY <1>5, <2>3 DEF save, save_superseded
  <2>5. OthersOvertaken(r) \in [Requests -> Seq(Unsaved)] /\ OthersOvertaken(r)[r] = u
    BY <1>0, <1>1, NoneOvertaken, OvertakeTyping
  <2>6. unsaved'[r] = Tail(u)
    BY <2>4, <2>5
  <2>7. ckpt'[w] = Head(u).thread /\ \A v \in Workflows : v # w => ckpt'[v] = ckpt[v]
    BY <1>0, <1>1, <2>4 DEF TypeOK
  <2>8. QED
    BY <1>0, <1>1, <1>2, <2>1, <2>6, <2>7, ForwardWritten DEF Moves
<1>6. CASE update_state_write(r)
  <2>1. PICK patched : patched = [m.state EXCEPT !.status = "running", !.pending = NoApproval]
    OBVIOUS
  <2>2. PICK t : t = [state |-> patched, next |-> route_after_human_review(patched)]
    OBVIOUS
  <2>3. /\ pc[r] = "update_write" /\ ckpt' = [ckpt EXCEPT ![w] = t]
        /\ unsaved' = OthersOvertaken(r)
    BY <1>6, <2>1, <2>2 DEF update_state_write
  <2>4. m.state \in States
    BY <1>0 DEF TypeOK, Threads
  <2>5. patched.status = "running"
    BY <2>1, <2>4 DEF States
  <2>6. t.state.status = "running" /\ t.next = "finalize"
    BY <2>2, <2>5 DEF route_after_human_review
  <2>7. VisibleStage(t) = "approved" /\ VisibleStage(k) = "waiting"
    BY <1>1, <2>3, <2>6, StatusShown, StageShown DEF InProgress
  <2>8. ckpt'[w] = t /\ \A v \in Workflows : v # w => ckpt'[v] = ckpt[v]
    BY <1>0, <1>1, <2>3 DEF TypeOK
  <2>9. unsaved'[r] = <<>>
    BY <1>1, <2>3, NoneOvertaken DEF InProgress
  <2>10. QED
    BY <1>0, <1>1, <2>7, <2>8, <2>9, ForwardEmpty DEF Moves, Follows
<1>7. QED
  BY <1>3, <1>4, <1>5, <1>6 DEF Serve

\* So does a call, which may queue the input of a new thread.
LEMMA CallMoves ==
  ASSUME MaxActive = 1, IInv, SerialInv, NEW r \in Requests, Call(r), Active(r)'
  PROVE  \E w \in Workflows : Moves(r, w)
<1>0. TypeOK /\ OneAtATime /\ ckpt' = ckpt
  BY DEF IInv, SerialInv, Call, start_workflow, resume_workflow, approve, approve_refused
<1>1. Arrive(r)
  BY DEF Call, start_workflow, resume_workflow, approve, approve_refused
<1>2. \A q \in Requests : ~Active(q)
  BY <1>0, <1>1, ArriveAlone
<1>3. unsaved[r] = <<>>
  BY <1>2 DEF SerialInv
<1>4. ASSUME NEW w \in Workflows, start_workflow(r, w) PROVE Moves(r, w)
  <2>1. PICK t : t = [state |-> initial_state, next |-> "plan"]
    OBVIOUS
  <2>2. PICK x : x = [thread |-> t, overtaken |-> FALSE]
    OBVIOUS
  <2>3. /\ row[w] = NoRow /\ job' = [job EXCEPT ![r] = w]
        /\ unsaved' = [unsaved EXCEPT ![r] = <<x>>]
    BY <1>4, <2>1, <2>2 DEF start_workflow
  <2>4. job'[r] = w /\ unsaved'[r] = <<x>>
    BY <1>0, <2>3 DEF TypeOK
  <2>5. row[w].status = "none"
    BY <2>3 DEF NoRow
  <2>6. Settled(ckpt[w], w, approval, completions[w], report[w], row[w])
    BY <1>2 DEF SerialInv
  <2>7. ckpt[w] = NoThread
    BY <2>5, <2>6, Stages DEF Settled
  <2>8. t.state.status = "created" /\ t.next = "plan"
    BY <2>1 DEF initial_state, Blank
  <2>9. Follows(NoThread, t)
    BY <2>8, StatusShown, StageShown DEF Follows
  <2>10. Forward(NoThread, <<x>>)
    BY <2>2, <2>9 DEF Forward
  <2>11. QED
    BY <1>0, <2>4, <2>7, <2>10 DEF Moves, Follows
<1>5. ASSUME NEW w \in Workflows, resume_workflow(r, w) PROVE Moves(r, w)
  <2>1. job'[r] = w /\ unsaved'[r] = <<>>
    BY <1>0, <1>3, <1>5 DEF TypeOK, resume_workflow
  <2>2. QED
    BY <1>0, <2>1, ForwardEmpty DEF Moves, Follows
<1>6. ASSUME NEW a \in Approvals, approve(r, a) PROVE Moves(r, approval[a].wf)
  <2>1. approval[a].wf \in Workflows
    BY <1>6 DEF approve, IInv, Ledger
  <2>2. job'[r] = approval[a].wf /\ unsaved'[r] = <<>>
    BY <1>0, <1>3, <1>6 DEF TypeOK, approve
  <2>3. QED
    BY <1>0, <2>1, <2>2, ForwardEmpty DEF Moves, Follows
<1>7. ASSUME NEW a \in Approvals, approve_refused(r, a) PROVE FALSE
  BY <1>0, <1>7 DEF TypeOK, approve_refused, Active
<1>8. QED
  BY <1>4, <1>5, <1>6, <1>7 DEF Call, Moves

\* Every step keeps the queues in order.
LEMMA NextForward ==
  ASSUME MaxActive = 1, MaxCrashes = 0, IInv, SerialInv, QueuesForward, [Next]_vars
  PROVE  QueuesForward'
<1>0. OneAtATime'
  BY NextSerial DEF SerialInv
<1>1. ASSUME NEW r \in Requests, Call(r) \/ Serve(r),
             Active(r)' => \E w \in Workflows : Moves(r, w),
             \A q \in Requests : q # r => ~Active(q)'
      PROVE  QueuesForward'
  BY <1>1 DEF QueuesForward, Moves
<1>2. ASSUME NEW r \in Requests, Call(r) PROVE QueuesForward'
  <2>1. Arrive(r)
    BY <1>2 DEF Call, start_workflow, resume_workflow, approve, approve_refused
  <2>2. \A q \in Requests : ~Active(q)
    BY <2>1, ArriveAlone DEF SerialInv
  <2>3. \A q \in Requests : q # r => pc'[q] = pc[q]
    BY <1>2 DEF Call, start_workflow, resume_workflow, approve, approve_refused, IInv, TypeOK
  <2>4. QED
    BY <1>1, <1>2, <2>2, <2>3, CallMoves DEF Active
<1>3. ASSUME NEW r \in Requests, Serve(r) PROVE QueuesForward'
  <2>1. Alone(r)
    <3>1. Active(r)
      BY <1>3 DEF Serve, decide, update_state_read, update_state_write, load,
                  load_no_checkpoint, plan_node, plan_raises, verify_node, human_review_node,
                  finalize_node, finalize_raises, finalize_record, invoke_returns, save,
                  save_superseded, _persist_state, AtNode, Active, SerialInv
    <3>2. QED
      BY <3>1, Busy
  <2>2. \A q \in Requests : q # r => pc'[q] = pc[q]
    BY <1>3 DEF Serve, decide, update_state_read, update_state_write, load,
                load_no_checkpoint, plan_node, plan_raises, verify_node, human_review_node,
                finalize_node, finalize_raises, finalize_record, invoke_returns, save,
                save_superseded, _persist_state, AtNode, IInv, TypeOK
  <2>3. Moves(r, job[r]) /\ job[r] \in Workflows
    BY <1>3, ServeMoves DEF Moves
  <2>4. QED
    BY <1>1, <1>3, <2>1, <2>2, <2>3 DEF Alone, Active
<1>4. CASE Crash
  BY <1>4 DEF Crash, IInv, TypeOK
<1>5. CASE UNCHANGED vars
  BY <1>5 DEF vars, QueuesForward, Active
<1>6. QED
  BY <1>2, <1>3, <1>4, <1>5 DEF Next, AllAnswered

\* What the lifecycle reads of the state.
stages == [w \in Workflows |-> VisibleStage(ckpt[w])]

\* A step that moves one thread forward is a step of the lifecycle, or shows nothing.
LEMMA MoveShown ==
  ASSUME NEW r \in Requests, NEW w \in Workflows, Moves(r, w)
  PROVE  [Lifecycle!Next]_stages
<1> DEFINE old == VisibleStage(ckpt[w])
           new == VisibleStage(ckpt'[w])
<1>1. stages' = [stages EXCEPT ![w] = new] /\ stages[w] = old
  BY DEF stages, Moves
<1>2. CASE old = new
  <2>1. stages' = stages
    BY <1>1, <1>2 DEF stages
  <2>2. QED
    BY <2>1
<1>3. CASE old # new
  <2>1. <<old, new>> \in
          {<<"unknown", "started">>, <<"started", "failed">>, <<"started", "waiting">>,
           <<"waiting", "approved">>, <<"approved", "completed">>}
    BY <1>3 DEF Moves, Follows
  <2> HIDE DEF old, new
  <2>2. \/ old = "unknown" /\ new = "started"
        \/ old = "started" /\ new = "failed"
        \/ old = "started" /\ new = "waiting"
        \/ old = "waiting" /\ new = "approved"
        \/ old = "approved" /\ new = "completed"
    BY <2>1
  <2>3. Lifecycle!Move(w, old, new)
    BY <1>1 DEF Lifecycle!Move, stages
  <2>4. QED
    BY <2>2, <2>3 DEF Lifecycle!Next, Lifecycle!Start, Lifecycle!Fail, Lifecycle!Park,
                      Lifecycle!Approve, Lifecycle!Complete
<1>4. QED
  BY <1>2, <1>3

\* When clients make their calls one at a time and the server does not crash, a
\* client that polls a workflow only sees it move forward, one stage at a time.
THEOREM RefinesLifecycle ==
  ASSUME MaxActive = 1, MaxCrashes = 0
  PROVE  Spec => Lifecycle!Safety
<1>1. Init => Lifecycle!Init /\ QueuesForward
  BY StageShown DEF Init, Lifecycle!Init, QueuesForward, Active
<1>2. ASSUME IInv, SerialInv, QueuesForward, [Next]_vars PROVE [Lifecycle!Next]_stages
  <2>1. ASSUME NEW r \in Requests, Serve(r) PROVE [Lifecycle!Next]_stages
    <3>1. Moves(r, job[r]) /\ job[r] \in Workflows
      BY <1>2, <2>1, ServeMoves DEF Moves
    <3>2. QED
      BY <3>1, MoveShown
  <2>2. CASE UNCHANGED ckpt
    BY <2>2 DEF stages
  <2>3. ASSUME NEW r \in Requests, Call(r) PROVE UNCHANGED ckpt
    BY <2>3 DEF Call, start_workflow, resume_workflow, approve, approve_refused
  <2>4. Crash \/ UNCHANGED vars => UNCHANGED ckpt
    BY DEF Crash, vars
  <2>5. QED
    BY <1>2, <2>1, <2>2, <2>3, <2>4 DEF Next, AllAnswered
<1>3. IInv /\ SerialInv /\ QueuesForward /\ [Next]_vars => QueuesForward'
  BY NextForward
<1>4. QED
  BY <1>1, <1>2, <1>3, Invariance, SerialInvariance, PTL DEF Spec, Lifecycle!Safety, stages

=============================================================================
