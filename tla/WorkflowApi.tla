---------------------------- MODULE WorkflowApi ----------------------------
(***************************************************************************)
(* The approval-gated workflow API: the FastAPI handlers of app/api, the   *)
(* WorkflowService and ApprovalService they call, the four graph nodes     *)
(* plan -> verify -> human_review -> finalize, and the two stores they     *)
(* write, the application database and the LangGraph checkpoints.          *)
(*                                                                         *)
(* The handlers are synchronous, so every request runs on a thread of its  *)
(* own and requests interleave.  A request that runs the graph works on a  *)
(* private copy of the thread state (mem), loaded once from the latest     *)
(* checkpoint; a node commits its own database transaction, and only later *)
(* is the checkpoint of its result written.  A crash loses every request   *)
(* in progress and every checkpoint not yet written.                       *)
(***************************************************************************)
EXTENDS Naturals, Sequences, FiniteSets

CONSTANTS
  Workflows,   \* workflow ids
  Approvals,   \* ids of the rows of human_approvals
  Requests,    \* HTTP calls; each is used for one call
  Plans,       \* the nonempty plans the LLM may return
  EmptyPlan,   \* a plan with no steps, which the LLM may return as well
  NoPlan,      \* the plan key is not in the state yet
  NoApproval,  \* pending_approval_id is None
  NoWorkflow,  \* a request that has no workflow yet
  MaxActive,   \* bound: requests served at a time (1: each waits for the last)
  MaxUnsaved,  \* bound: node results whose checkpoint is not yet written
  MaxCrashes   \* bound: crashes of the server process

ASSUME ConstantsAssumption ==
  /\ NoApproval \notin Approvals
  /\ NoWorkflow \notin Workflows
  /\ {EmptyPlan, NoPlan} \cap Plans = {}
  /\ EmptyPlan # NoPlan
  /\ MaxActive \in Nat \ {0}
  /\ MaxUnsaved \in Nat \ {0}
  /\ MaxCrashes \in Nat

VARIABLES
  row,          \* workflows table: what _persist_state last wrote
  approval,     \* human_approvals table
  granted,      \* number of approval_granted events of each approval
  report,       \* the plan in the workflow's final_report.json, or NoPlan
  completions,  \* number of artifact rows and workflow_completed events
  ckpt,         \* the latest checkpoint of each thread
  pc, job, target, mem, unsaved,   \* each request's control state
  crashes

db   == <<row, approval, granted, report, completions>>
req  == <<pc, job, target, mem, unsaved>>
vars == <<row, approval, granted, report, completions, ckpt,
          pc, job, target, mem, unsaved, crashes>>

-----------------------------------------------------------------------------
(* The data. *)

WorkflowStatus == {"created", "running", "waiting_for_human", "completed", "failed"}
Nodes == {"plan", "verify", "human_review", "finalize"}
AllPlans == Plans \cup {EmptyPlan, NoPlan}

\* AgentWorkflowState.  known is FALSE only for the state of a thread that has
\* no checkpoint, where workflow_id and goal are missing.
States ==
  [known   : BOOLEAN,
   status  : WorkflowStatus \cup {"none"},
   node    : Nodes \cup {"none"},
   plan    : AllPlans,
   errors  : BOOLEAN,
   pending : Approvals \cup {NoApproval},
   steps   : Seq(Nodes)]

\* A thread is its state and the node to run next.
Threads == [state : States, next : Nodes \cup {"end", "none"}]

Blank == [known |-> FALSE, status |-> "none", node |-> "none", plan |-> NoPlan,
          errors |-> FALSE, pending |-> NoApproval, steps |-> <<>>]
NoThread == [state |-> Blank, next |-> "none"]

initial_state == [Blank EXCEPT !.known = TRUE, !.status = "created"]

Unsaved == [thread : Threads, overtaken : BOOLEAN]

NoRow == [status |-> "none", node |-> "none", completed |-> FALSE]
NoApprovalRow == [wf |-> NoWorkflow, status |-> "none", plan |-> NoPlan]

PCs == {"idle", "decide", "update_read", "update_write", "load", "run",
        "record", "raise", "persist", "done"}

-----------------------------------------------------------------------------
(* The graph. *)

\* (slip: a failed plan is reviewed all the same)
route_after_verify_lenient(s) == "human_review"

route_after_verify(s) ==
  IF s.status = "failed" \/ s.errors THEN "end" ELSE "human_review"

\* (slip: the two ends of the router swapped)
route_after_human_review_swapped(s) ==
  IF s.status = "running" THEN "end" ELSE "finalize"

\* (slip: a parked thread stays in the graph)
route_after_human_review_waits(s) ==
  IF s.status = "running" THEN "finalize" ELSE "human_review"

route_after_human_review(s) ==
  IF s.status = "running" THEN "finalize" ELSE "end"

NextNode(n, s) ==
  CASE n = "plan"         -> "verify"
    [] n = "verify"       -> route_after_verify(s)
    [] n = "human_review" -> route_after_human_review(s)
    [] n = "finalize"     -> "end"

-----------------------------------------------------------------------------
Init ==
  /\ row = [w \in Workflows |-> NoRow]
  /\ approval = [a \in Approvals |-> NoApprovalRow]
  /\ granted = [a \in Approvals |-> 0]
  /\ report = [w \in Workflows |-> NoPlan]
  /\ completions = [w \in Workflows |-> 0]
  /\ ckpt = [w \in Workflows |-> NoThread]
  /\ pc = [r \in Requests |-> "idle"]
  /\ job = [r \in Requests |-> NoWorkflow]
  /\ target = [r \in Requests |-> NoApproval]
  /\ mem = [r \in Requests |-> NoThread]
  /\ unsaved = [r \in Requests |-> <<>>]
  /\ crashes = 0

Active(r) == pc[r] \notin {"idle", "done"}

\* The server takes a new call.  Its thread pool is finite; with MaxActive = 1
\* every client waits for the previous answer.
Arrive(r) ==
  /\ pc[r] = "idle"
  /\ Cardinality({q \in Requests : Active(q)}) < MaxActive

-----------------------------------------------------------------------------
(* POST /workflows: the row and its event are committed, then the graph is *)
(* invoked on the initial state, which is itself checkpointed.             *)
start_workflow(r, w) ==
  LET input == [state |-> initial_state, next |-> "plan"]
  IN /\ Arrive(r)
     /\ row[w] = NoRow
     /\ row' = [row EXCEPT ![w].status = "created"]
     /\ pc' = [pc EXCEPT ![r] = "run"]
     /\ job' = [job EXCEPT ![r] = w]
     /\ mem' = [mem EXCEPT ![r] = input]
     /\ unsaved' = [unsaved EXCEPT ![r] = <<[thread |-> input, overtaken |-> FALSE]>>]
     /\ UNCHANGED <<approval, granted, report, completions, ckpt, target, crashes>>

(* POST /workflows/{id}/resume: no state patch, straight to the graph. *)
resume_workflow(r, w) ==
  /\ Arrive(r)
  /\ pc' = [pc EXCEPT ![r] = "load"]
  /\ job' = [job EXCEPT ![r] = w]
  /\ UNCHANGED <<db, ckpt, target, mem, unsaved, crashes>>

\* (slip: the decision is never committed)
approve_uncommitted(r, a) ==
  /\ Arrive(r)
  /\ approval[a].status = "pending"
  /\ pc' = [pc EXCEPT ![r] = "update_read"]
  /\ job' = [job EXCEPT ![r] = approval[a].wf]
  /\ target' = [target EXCEPT ![r] = a]
  /\ UNCHANGED <<db, ckpt, mem, unsaved, crashes>>

\* (slip: an approval that was approved may be approved again)
approve_again(r, a) ==
  /\ Arrive(r)
  /\ approval[a].status # "none"
  /\ pc' = [pc EXCEPT ![r] = "decide"]
  /\ job' = [job EXCEPT ![r] = approval[a].wf]
  /\ target' = [target EXCEPT ![r] = a]
  /\ UNCHANGED <<db, ckpt, mem, unsaved, crashes>>

(* POST /approvals/{id}/approve, first half: _decide reads the approval and *)
(* refuses it unless it is pending (404 or 409) ...                         *)
approve(r, a) ==
  /\ Arrive(r)
  /\ approval[a].status = "pending"
  /\ pc' = [pc EXCEPT ![r] = "decide"]
  /\ job' = [job EXCEPT ![r] = approval[a].wf]
  /\ target' = [target EXCEPT ![r] = a]
  /\ UNCHANGED <<db, ckpt, mem, unsaved, crashes>>

approve_refused(r, a) ==
  /\ Arrive(r)
  /\ approval[a].status # "pending"
  /\ pc' = [pc EXCEPT ![r] = "done"]
  /\ target' = [target EXCEPT ![r] = a]
  /\ UNCHANGED <<db, ckpt, job, mem, unsaved, crashes>>

append_granted(a) == granted' = [granted EXCEPT ![a] = @ + 1]

(* ... then writes the decision it already made, whatever the row says by   *)
(* now, appends the event and commits.                                      *)
decide(r) ==
  /\ pc[r] = "decide"
  /\ approval' = [approval EXCEPT ![target[r]].status = "approved"]
  /\ append_granted(target[r])
  /\ pc' = [pc EXCEPT ![r] = "update_read"]
  /\ UNCHANGED <<row, report, completions, ckpt, job, target, mem, unsaved, crashes>>

(* update_state(patch, as_node = "human_review"): LangGraph reads the latest *)
(* checkpoint, and writes a new one with the patch applied, in which the     *)
(* router of human_review decides what is to run next.                       *)
update_state_read(r) ==
  /\ pc[r] = "update_read"
  /\ mem' = [mem EXCEPT ![r] = ckpt[job[r]]]
  /\ pc' = [pc EXCEPT ![r] = "update_write"]
  /\ UNCHANGED <<db, ckpt, job, target, unsaved, crashes>>

\* Another request's results still waiting to be written may now be older
\* than the latest checkpoint.
Overtake(queue) == [i \in DOMAIN queue |-> [queue[i] EXCEPT !.overtaken = TRUE]]

OthersOvertaken(r) ==
  [q \in Requests |-> IF q # r /\ job[q] = job[r] THEN Overtake(unsaved[q])
                                                  ELSE unsaved[q]]

\* (slip: the handler resumes without the patch)
update_state_write_empty(r) ==
  /\ pc[r] = "update_write"
  /\ ckpt' = [ckpt EXCEPT ![job[r]] = mem[r]]
  /\ unsaved' = OthersOvertaken(r)
  /\ pc' = [pc EXCEPT ![r] = "load"]
  /\ UNCHANGED <<db, job, target, mem, crashes>>

\* (slip: the patch is not written as human_review)
update_state_write_unrouted(r) ==
  /\ pc[r] = "update_write"
  /\ ckpt' = [ckpt EXCEPT ![job[r]] =
       [mem[r] EXCEPT !.state.status = "running", !.state.pending = NoApproval]]
  /\ unsaved' = OthersOvertaken(r)
  /\ pc' = [pc EXCEPT ![r] = "load"]
  /\ UNCHANGED <<db, job, target, mem, crashes>>

update_state_write(r) ==
  LET patched == [mem[r].state EXCEPT !.status = "running", !.pending = NoApproval]
  IN /\ pc[r] = "update_write"
     /\ ckpt' = [ckpt EXCEPT ![job[r]] =
                   [state |-> patched, next |-> route_after_human_review(patched)]]
     /\ unsaved' = OthersOvertaken(r)
     /\ pc' = [pc EXCEPT ![r] = "load"]
     /\ UNCHANGED <<db, job, target, mem, crashes>>

-----------------------------------------------------------------------------
(* graph.invoke(None): load the latest checkpoint and run what is next. *)

\* (slip: a thread at its end starts over)
load_restarts(r) ==
  /\ pc[r] = "load"
  /\ ckpt[job[r]] # NoThread
  /\ mem' = [mem EXCEPT ![r] =
       IF ckpt[job[r]].next = "end" THEN [ckpt[job[r]] EXCEPT !.next = "plan"]
                                    ELSE ckpt[job[r]]]
  /\ pc' = [pc EXCEPT ![r] = "run"]
  /\ UNCHANGED <<db, ckpt, job, target, unsaved, crashes>>

load(r) ==
  /\ pc[r] = "load"
  /\ ckpt[job[r]] # NoThread
  /\ mem' = [mem EXCEPT ![r] = ckpt[job[r]]]
  /\ pc' = [pc EXCEPT ![r] = "run"]
  /\ UNCHANGED <<db, ckpt, job, target, unsaved, crashes>>

load_no_checkpoint(r) ==
  /\ pc[r] = "load"
  /\ ckpt[job[r]] = NoThread
  /\ pc' = [pc EXCEPT ![r] = "done"]
  /\ UNCHANGED <<db, ckpt, job, target, mem, unsaved, crashes>>

\* The node at which request r stands may run.
AtNode(r, n) ==
  /\ pc[r] = "run"
  /\ mem[r].next = n
  /\ Len(unsaved[r]) < MaxUnsaved

\* The node ran and left state s: the request moves on, its checkpoint unsaved.
Step(r, n, s) ==
  LET thread == [state |-> s, next |-> NextNode(n, s)]
  IN /\ mem' = [mem EXCEPT ![r] = thread]
     /\ unsaved' = [unsaved EXCEPT ![r] =
                      Append(@, [thread |-> thread, overtaken |-> FALSE])]

plan_node(r) ==
  /\ AtNode(r, "plan")
  /\ \E p \in Plans \cup {EmptyPlan} :
       Step(r, "plan", [mem[r].state EXCEPT !.plan = p, !.node = "plan",
                          !.status = "running", !.steps = Append(@, "plan")])
  /\ UNCHANGED <<db, ckpt, pc, job, target, crashes>>

\* The LLM call raises, and so does invoke, once the checkpoints are written.
plan_raises(r) ==
  /\ AtNode(r, "plan")
  /\ pc' = [pc EXCEPT ![r] = "raise"]
  /\ UNCHANGED <<db, ckpt, job, target, mem, unsaved, crashes>>

verify_node(r) ==
  LET s  == mem[r].state
      ok == ~s.errors /\ s.plan \in Plans
  IN /\ AtNode(r, "verify")
     /\ Step(r, "verify",
          [s EXCEPT !.node = "verify", !.errors = ~ok,
             !.status = IF ok THEN "running" ELSE "failed",
             !.steps = IF ok THEN Append(@, "verify") ELSE @])
     /\ UNCHANGED <<db, ckpt, pc, job, target, crashes>>

\* What human_review leaves in the state.
Parked(s, a) ==
  [s EXCEPT !.node = "human_review", !.status = "waiting_for_human", !.pending = a]

\* (slip: an approval the workflow already has is asked for again)
human_review_node_reuses(r) ==
  LET s   == mem[r].state
      own == {a \in Approvals : approval[a].wf = job[r]}
  IN /\ AtNode(r, "human_review")
     /\ \E a \in IF own = {} THEN Approvals ELSE own :
          /\ approval' = IF own = {}
               THEN [approval EXCEPT ![a] = [wf |-> job[r], status |-> "pending", plan |-> s.plan]]
               ELSE approval
          /\ Step(r, "human_review", Parked(s, a))
     /\ UNCHANGED <<row, granted, report, completions, ckpt, pc, job, target, crashes>>

\* (slip: an approval is created approved)
human_review_node_approves(r) ==
  LET s == mem[r].state
  IN /\ AtNode(r, "human_review")
     /\ \E a \in Approvals :
          /\ approval[a].status = "none"
          /\ approval' = [approval EXCEPT ![a] =
               [wf |-> job[r], status |-> "approved", plan |-> s.plan]]
          /\ Step(r, "human_review", Parked(s, a))
     /\ UNCHANGED <<row, granted, report, completions, ckpt, pc, job, target, crashes>>

\* Request an approval, unless the state already waits for one.
human_review_node(r) ==
  LET s == mem[r].state
  IN /\ AtNode(r, "human_review")
     /\ \E a \in Approvals :
          /\ IF s.pending = NoApproval
               THEN /\ approval[a].status = "none"
                    /\ approval' = [approval EXCEPT ![a] =
                         [wf |-> job[r], status |-> "pending", plan |-> s.plan]]
               ELSE a = s.pending /\ UNCHANGED approval
          /\ Step(r, "human_review", Parked(s, a))
     /\ UNCHANGED <<row, granted, report, completions, ckpt, pc, job, target, crashes>>

put_json(w, data) == report' = [report EXCEPT ![w] = data]

\* finalize writes the report file, replacing any other ...
finalize_node(r) ==
  /\ AtNode(r, "finalize")
  /\ mem[r].state.known
  /\ put_json(job[r], IF mem[r].state.plan = NoPlan THEN EmptyPlan ELSE mem[r].state.plan)
  /\ pc' = [pc EXCEPT ![r] = "record"]
  /\ UNCHANGED <<row, approval, granted, completions, ckpt, job, target, mem,
                 unsaved, crashes>>

\* (a thread that never had a checkpoint has no workflow_id: KeyError)
finalize_raises(r) ==
  /\ AtNode(r, "finalize")
  /\ ~mem[r].state.known
  /\ pc' = [pc EXCEPT ![r] = "raise"]
  /\ UNCHANGED <<db, ckpt, job, target, mem, unsaved, crashes>>

\* (slip: the event is not committed)
finalize_record_uncommitted(r) ==
  /\ pc[r] = "record"
  /\ Step(r, "finalize", [mem[r].state EXCEPT !.node = "finalize",
       !.status = "completed", !.steps = Append(@, "finalize")])
  /\ pc' = [pc EXCEPT ![r] = "run"]
  /\ UNCHANGED <<db, ckpt, job, target, crashes>>

create_artifact(w) == completions' = [completions EXCEPT ![w] = @ + 1]

\* ... then commits the artifact row and the workflow_completed event.
finalize_record(r) ==
  /\ pc[r] = "record"
  /\ create_artifact(job[r])
  /\ Step(r, "finalize", [mem[r].state EXCEPT !.node = "finalize",
       !.status = "completed", !.steps = Append(@, "finalize")])
  /\ pc' = [pc EXCEPT ![r] = "run"]
  /\ UNCHANGED <<row, approval, granted, report, ckpt, job, target, crashes>>

-----------------------------------------------------------------------------
(* The checkpointer writes the results of a request in order, in the        *)
(* background.  The latest checkpoint is the one created last, so one that  *)
(* was overtaken may be written without becoming the latest.                *)
save(r) ==
  /\ unsaved[r] # <<>>
  /\ ckpt' = [ckpt EXCEPT ![job[r]] = Head(unsaved[r]).thread]
  /\ unsaved' = [OthersOvertaken(r) EXCEPT ![r] = Tail(@)]
  /\ UNCHANGED <<db, pc, job, target, mem, crashes>>

save_superseded(r) ==
  /\ unsaved[r] # <<>>
  /\ Head(unsaved[r]).overtaken
  /\ unsaved' = [unsaved EXCEPT ![r] = Tail(@)]
  /\ UNCHANGED <<db, ckpt, pc, job, target, mem, crashes>>

\* invoke returns when nothing is next and every checkpoint is written.
invoke_returns(r) ==
  /\ unsaved[r] = <<>>
  /\ \/ pc[r] = "run" /\ mem[r].next = "end" /\ pc' = [pc EXCEPT ![r] = "persist"]
     \/ pc[r] = "raise" /\ pc' = [pc EXCEPT ![r] = "done"]
  /\ UNCHANGED <<db, ckpt, job, target, mem, unsaved, crashes>>

\* (slip: only a completed state is copied)
_persist_state_completed(r) ==
  /\ pc[r] = "persist"
  /\ row' = IF mem[r].state.status = "completed"
       THEN [row EXCEPT ![job[r]] =
              [status |-> "completed", node |-> "finalize", completed |-> TRUE]]
       ELSE row
  /\ pc' = [pc EXCEPT ![r] = "done"]
  /\ UNCHANGED <<approval, granted, report, completions, ckpt, job, target,
                 mem, unsaved, crashes>>

\* Copy the final state of this invoke to the row, over whatever is there.
_persist_state(r) ==
  LET s == mem[r].state
  IN /\ pc[r] = "persist"
     /\ row' = [row EXCEPT ![job[r]] =
          [status |-> s.status,
           node |-> IF s.node = "none" THEN @.node ELSE s.node,
           completed |-> @.completed \/ s.status = "completed"]]
     /\ pc' = [pc EXCEPT ![r] = "done"]
     /\ UNCHANGED <<approval, granted, report, completions, ckpt, job, target,
                    mem, unsaved, crashes>>

\* The process dies and is started again: the databases are all that is left.
Crash ==
  /\ crashes < MaxCrashes
  /\ \E r \in Requests : Active(r)
  /\ crashes' = crashes + 1
  /\ pc' = [r \in Requests |-> IF Active(r) THEN "done" ELSE pc[r]]
  /\ unsaved' = [r \in Requests |-> <<>>]
  /\ UNCHANGED <<db, ckpt, job, target, mem>>

-----------------------------------------------------------------------------
\* A step of the server on request r, once it has been accepted.
Serve(r) ==
  \/ decide(r) \/ update_state_read(r) \/ update_state_write(r)
  \/ load(r) \/ load_no_checkpoint(r)
  \/ plan_node(r) \/ plan_raises(r) \/ verify_node(r) \/ human_review_node(r)
  \/ finalize_node(r) \/ finalize_raises(r) \/ finalize_record(r)
  \/ save(r) \/ save_superseded(r) \/ invoke_returns(r) \/ _persist_state(r)

Call(r) ==
  \/ \E w \in Workflows : start_workflow(r, w) \/ resume_workflow(r, w)
  \/ \E a \in Approvals : approve(r, a) \/ approve_refused(r, a)

\* Every call has been answered: the end of a run, not a deadlock.
AllAnswered == (\A r \in Requests : pc[r] = "done") /\ UNCHANGED vars

Next ==
  \/ \E r \in Requests : Call(r) \/ Serve(r)
  \/ Crash
  \/ AllAnswered

Spec == Init /\ [][Next]_vars

\* The server keeps running the requests it has accepted.
Fairness == \A r \in Requests : WF_vars(Serve(r))
FairSpec == Spec /\ Fairness

-----------------------------------------------------------------------------
(* Properties of every run: concurrent calls, crashes, lagging checkpoints. *)

\* The shape of the state: the tables, the threads and the requests.
TypeOK ==
  /\ row \in [Workflows -> [status : WorkflowStatus \cup {"none"},
                            node : Nodes \cup {"none"}, completed : BOOLEAN]]
  /\ approval \in [Approvals -> [wf : Workflows \cup {NoWorkflow},
                                 status : {"none", "pending", "approved"},
                                 plan : AllPlans]]
  /\ granted \in [Approvals -> Nat]
  /\ report \in [Workflows -> AllPlans]
  /\ completions \in [Workflows -> Nat]
  /\ ckpt \in [Workflows -> Threads]
  /\ pc \in [Requests -> PCs]
  /\ job \in [Requests -> Workflows \cup {NoWorkflow}]
  /\ target \in [Requests -> Approvals \cup {NoApproval}]
  /\ mem \in [Requests -> Threads]
  /\ unsaved \in [Requests -> Seq(Unsaved)]
  /\ crashes \in Nat

Approved(w) == \E a \in Approvals : approval[a].wf = w /\ approval[a].status = "approved"

\* The promise of the service: no workflow has a report file, an artifact row,
\* a workflow_completed event or a completed row unless a human approved an
\* approval of that very workflow, whatever interleaves, crashes or resumes.
HumanGate ==
  \A w \in Workflows :
    (report[w] # NoPlan \/ completions[w] > 0 \/ row[w].completed
       \/ ckpt[w].state.status = "completed") => Approved(w)

\* What is announced exists: a thread or a row is completed only after the
\* workflow_completed event, and the event only follows the report file.
CompletionIsBacked ==
  \A w \in Workflows :
    /\ row[w].completed \/ ckpt[w].state.status = "completed" => completions[w] > 0
    /\ completions[w] > 0 => report[w] # NoPlan

\* A thread parked for a human names an approval of its own workflow, and that
\* approval shows the human the plan the thread would report.
ParkedOnOwnApproval ==
  \A w \in Workflows :
    LET s == ckpt[w].state
    IN s.status = "waiting_for_human" =>
         /\ s.pending \in Approvals
         /\ approval[s.pending].wf = w
         /\ approval[s.pending].plan = s.plan

\* Why the gate holds: each request acts on the workflow it was called for ...
Assigned ==
  \A r \in Requests :
    /\ Active(r) \/ unsaved[r] # <<>> => job[r] \in Workflows
    /\ pc[r] = "idle" => mem[r] = NoThread /\ unsaved[r] = <<>>
    /\ pc[r] = "decide" => target[r] \in Approvals

\* ... the tables are written in the order ask, approve, report, complete ...
Ledger ==
  /\ \A a \in Approvals : approval[a].status # "none" => approval[a].wf \in Workflows
  /\ \A w \in Workflows :
       /\ report[w] # NoPlan => Approved(w)
       /\ completions[w] > 0 => report[w] # NoPlan
       /\ row[w].completed => completions[w] > 0

\* ... a request past the decision acts for an approval that was granted ...
Granted ==
  \A r \in Requests :
    /\ pc[r] = "decide" => /\ approval[target[r]].wf = job[r]
                           /\ approval[target[r]].status # "none"
    /\ pc[r] \in {"update_read", "update_write"} => Approved(job[r])
    /\ pc[r] = "record" => report[job[r]] # NoPlan /\ mem[r].next = "finalize"

\* ... and no copy of a thread, wherever it is kept, is about to finalize
\* without an approval, completed without the event, or waiting for an
\* approval that is not its own.  (ap and co: the tables.)
ThreadOk(t, w, ap, co) ==
  \/ t = NoThread
  \/ /\ w \in Workflows
     /\ t.next = "finalize" \/ t.state.status = "completed" =>
          \E a \in Approvals : ap[a].wf = w /\ ap[a].status = "approved"
     /\ t.state.status = "completed" => co[w] > 0
     /\ t.state.status = "waiting_for_human" => t.state.pending # NoApproval
     /\ t.state.pending # NoApproval =>
          /\ t.next = "end"
          /\ ap[t.state.pending].status # "none"
          /\ ap[t.state.pending].wf = w
          /\ ap[t.state.pending].plan = t.state.plan

CheckpointsOk == \A w \in Workflows : ThreadOk(ckpt[w], w, approval, completions)
MemoryOk      == \A r \in Requests : ThreadOk(mem[r], job[r], approval, completions)
QueuesOk ==
  \A r \in Requests : \A i \in DOMAIN unsaved[r] :
    ThreadOk(unsaved[r][i].thread, job[r], approval, completions)

\* The inductive invariant.
IInv == TypeOK /\ Assigned /\ Ledger /\ Granted /\ CheckpointsOk /\ MemoryOk /\ QueuesOk

Gate == INSTANCE ApprovalGate WITH
  asked     <- {w \in Workflows :
                  \E a \in Approvals : approval[a].wf = w /\ approval[a].status # "none"},
  approved  <- {w \in Workflows : Approved(w)},
  written   <- {w \in Workflows : report[w] # NoPlan},
  announced <- {w \in Workflows : completions[w] > 0}

\* The API implements the approval gate: ask, approve, write, announce.
ImplementsGate == Gate!Spec

-----------------------------------------------------------------------------
(* Properties of calls made one at a time (MaxActive = 1). *)

Quiet == \A r \in Requests : ~Active(r)

\* However often a client resumes or approves again, the report is recorded
\* once and each approval is granted once (test_smoke.py counts one event).
CompletedOnce == \A w \in Workflows : completions[w] <= 1
GrantedOnce   == \A a \in Approvals : granted[a] <= 1

\* The plan in the final report is one that a human was shown and approved (the
\* payload of the approval, human_review.py).  A crash breaks it: an approval may
\* outlive the checkpoint of the plan it shows.
ReportIsApproved ==
  \A w \in Workflows : completions[w] > 0 =>
    \E a \in Approvals : /\ approval[a].wf = w
                         /\ approval[a].status = "approved"
                         /\ approval[a].plan = report[w]

\* Between calls the workflows row agrees with the latest checkpoint.
RowFollowsThread ==
  Quiet => \A w \in Workflows : row[w].status # "none" =>
    /\ row[w].status = ckpt[w].state.status
    /\ row[w].completed = (ckpt[w].state.status = "completed")

\* Between calls no thread waits for an approval that was already granted: such
\* a thread is stuck, since approving again is refused and resuming does nothing.
NoStrandedGrant ==
  Quiet => \A w \in Workflows :
    ckpt[w].state.status = "waiting_for_human"
      => approval[ckpt[w].state.pending].status = "pending"

\* The stage a client sees when it reads the latest checkpoint.
VisibleStage(thread) ==
  CASE thread.state.status = "none"              -> "unknown"
    [] thread.state.status = "waiting_for_human" -> "waiting"
    [] thread.state.status = "failed"            -> "failed"
    [] thread.state.status = "completed"         -> "completed"
    [] thread.next = "finalize"                  -> "approved"
    [] OTHER                                     -> "started"

Lifecycle == INSTANCE ThreadLifecycle WITH
  stage <- [w \in Workflows |-> VisibleStage(ckpt[w])]

\* Calls made one at a time show a workflow that only moves forward, and one
\* that was approved is completed.
ImplementsLifecycle == Lifecycle!Spec

\* A granted approval is followed by a completed workflow.
GrantCompletes ==
  \A a \in Approvals : \A w \in Workflows :
    (approval[a].status = "approved" /\ approval[a].wf = w)
      ~> (ckpt[w].state.status = "completed" /\ row[w].completed)

\* Every accepted call is answered.
EveryCallAnswered == \A r \in Requests : Active(r) ~> pc[r] = "done"

-----------------------------------------------------------------------------
(* Why calls made one at a time, with no crash, keep the books: the latest *)
(* state of a workflow's thread, which is its checkpoint or the copy of    *)
(* the request in progress, tells what the tables hold.                    *)

OneAtATime == \A q, r \in Requests : Active(q) /\ Active(r) => q = r

\* An approval is granted by the request that found it pending; even a crash does
\* not change that.
GrantOk(a)   == granted[a] <= 1 /\ (approval[a].status # "approved" => granted[a] = 0)
DecideOk(r)  == pc[r] = "decide" => approval[target[r]].status = "pending"
GrantInv     == /\ OneAtATime
                /\ \A a \in Approvals : GrantOk(a)
                /\ \A r \in Requests : DecideOk(r)

\* The stages of a thread.
Planning(t) == /\ t.next \in {"plan", "verify", "human_review"}
               /\ t.state.known /\ t.state.pending = NoApproval
               /\ t.state.status = IF t.next = "plan" THEN "created" ELSE "running"
               /\ t.next = "human_review" => t.state.plan \in Plans
Failed(t)   == t.next = "end" /\ t.state.status = "failed"
Waiting(t)  == /\ t.next = "end" /\ t.state.status = "waiting_for_human"
               /\ t.state.known /\ t.state.plan \in Plans /\ t.state.pending \in Approvals
Due(t)      == /\ t.next = "finalize" /\ t.state.status = "running"
               /\ t.state.known /\ t.state.plan \in Plans /\ t.state.pending = NoApproval
Completed(t) == t.next = "end" /\ t.state.status = "completed"

\* ... and what the tables hold beside the latest one of w.  (ap: the approvals;
\* co, rp: the completions and the report of w.)
Asked(w, ap) == {a \in Approvals : ap[a].wf = w}

Shown(t, w, ap) ==
  \E a \in Approvals : /\ Asked(w, ap) = {a}
                       /\ ap[a].status = "approved" /\ ap[a].plan = t.state.plan

LatestOk(t, w, ap, co, rp) ==
  \/ (t = NoThread \/ Planning(t) \/ Failed(t)) /\ Asked(w, ap) = {} /\ co = 0
  \/ /\ Waiting(t) /\ Asked(w, ap) = {t.state.pending} /\ co = 0
     /\ ap[t.state.pending].plan = t.state.plan
  \/ Due(t) /\ Shown(t, w, ap) /\ co = 0
  \/ Completed(t) /\ Shown(t, w, ap) /\ co = 1 /\ rp = t.state.plan

Unanswered(t, ap) == Waiting(t) => ap[t.state.pending].status = "pending"

\* A workflow at rest: its row (rw) shows the thread, and no grant is stranded.
Settled(t, w, ap, co, rp, rw) ==
  /\ LatestOk(t, w, ap, co, rp)
  /\ t.next \in {"none", "plan", "end"}
  /\ Unanswered(t, ap)
  /\ rw.status = t.state.status
  /\ rw.completed = (t.state.status = "completed")

\* A request that runs the graph holds the latest thread m, which is that of the
\* checkpoint k once its queue u is written.
Running(m, u, k, w, ap, co, rp, rw) ==
  /\ m # NoThread
  /\ LatestOk(m, w, ap, co, rp)
  /\ Unanswered(m, ap)
  /\ m.next = "plan" => rw.status = "created"
  /\ rw.completed => Completed(m)
  /\ \A i \in 1..Len(u) : ~u[i].overtaken
  /\ IF u = <<>> THEN m = k ELSE m = u[Len(u)].thread

\* A request in progress, at p, for the approval a.
InProgress(p, m, u, a, k, w, ap, co, rp, rw) ==
  /\ p \in {"decide", "update_read", "update_write", "load", "persist"} => u = <<>>
  /\ p = "decide" => /\ Settled(k, w, ap, co, rp, rw)
                     /\ ap[a].status = "pending" /\ ap[a].wf = w
  /\ p \in {"update_read", "update_write"} =>
       /\ Waiting(k) /\ LatestOk(k, w, ap, co, rp)
       /\ ap[k.state.pending].status = "approved" /\ ~rw.completed
  /\ p = "update_write" => m = k
  /\ p = "load" => \/ Settled(k, w, ap, co, rp, rw)
                   \/ Due(k) /\ LatestOk(k, w, ap, co, rp) /\ ~rw.completed
  /\ p \in {"run", "record", "raise", "persist"} => Running(m, u, k, w, ap, co, rp, rw)
  /\ p = "record" => Due(m) /\ rp = m.state.plan
  /\ p = "raise" => m.next = "plan"
  /\ p = "persist" => m.next = "end"

SerialInv ==
  /\ OneAtATime
  /\ \A a \in Approvals : approval[a].status = "none" => approval[a].wf = NoWorkflow
  /\ \A w \in Workflows : (\A r \in Requests : Active(r) => job[r] # w) =>
       Settled(ckpt[w], w, approval, completions[w], report[w], row[w])
  /\ \A r \in Requests :
       IF Active(r)
         THEN LET w == job[r]
              IN InProgress(pc[r], mem[r], unsaved[r], target[r], ckpt[w], w, approval,
                            completions[w], report[w], row[w])
         ELSE unsaved[r] = <<>>

\* Written one after the other, the results that a request still has to write only
\* move the thread forward.
Follows(s, t) ==
  \/ VisibleStage(s) = VisibleStage(t)
  \/ <<VisibleStage(s), VisibleStage(t)>> \in
       {<<"unknown", "started">>, <<"started", "failed">>, <<"started", "waiting">>,
        <<"waiting", "approved">>, <<"approved", "completed">>}

Forward(k, u) ==
  \A i \in 1..Len(u) : Follows(IF i = 1 THEN k ELSE u[i - 1].thread, u[i].thread)

QueuesForward == \A r \in Requests : Active(r) => Forward(ckpt[job[r]], unsaved[r])

=============================================================================
