-------------------------- MODULE DevOrchestrator --------------------------
(***************************************************************************)
(* One run of the dev orchestrator: the pipeline                           *)
(*   bootstrap -> load_context -> retrieve -> analyze -> plan -> implement *)
(*     -> apply -> verify -> human_review -> finalize -> learn -> teardown *)
(* with its Reflexion loop (reflect -> implement), its budgets, the git    *)
(* worktree it changes, the memory of lessons it writes to, and the calls  *)
(* start() and approve() of DevOrchestratorService that drive it.          *)
(*                                                                         *)
(* As in WorkflowApi a call works on a private copy of the thread (mem)    *)
(* loaded from the latest checkpoint, a node's effects on the worktree and *)
(* the memory come before the checkpoint of its result, and a crash loses  *)
(* the calls in progress.  A result is checkpointed before the next node   *)
(* runs.                                                                   *)
(***************************************************************************)
EXTENDS Naturals, Sequences, FiniteSets

CONSTANTS
  Calls,                  \* calls of the service; each is used once
  Diffs,                  \* the nonempty diffs the LLM may propose
  EmptyDiff,              \* a blank diff, which applies trivially
  Lessons,                \* ids of lessons
  OldLessons,             \* the lessons that earlier runs left in the memory
  max_iterations, max_llm_calls,   \* DevOrchestratorConfig
  RuntimeLimited,         \* max_runtime_seconds is not 0
  require_human_review,
  ToolsFail,              \* the LLM, git or the memory may raise
  ApproveUnparked,        \* approve() may be called on a run that is not parked
  MaxActive, MaxCrashes   \* bounds: calls in progress at a time, crashes

ASSUME DevConstants ==
  /\ IsFiniteSet(Calls)
  /\ EmptyDiff \notin Diffs
  /\ OldLessons \subseteq Lessons
  /\ max_iterations \in Nat /\ max_llm_calls \in Nat
  /\ MaxActive \in Nat /\ MaxCrashes \in Nat
  /\ {RuntimeLimited, require_human_review, ToolsFail, ApproveUnparked} \subseteq BOOLEAN

VARIABLES
  ckpt,        \* the latest checkpoint of the thread
  pc, op, mem, \* each call's control state, its kind, its copy of the thread
  unsaved,     \* whether mem still has to be checkpointed
  branch,      \* the task branch exists
  worktree,    \* the worktree exists
  tree,        \* the changes in the worktree's files
  commits,     \* the commits on the task branch
  stored, rewards, episodes,   \* the memory
  crashes

calls == <<pc, op, mem, unsaved>>
git   == <<branch, worktree, tree, commits>>
memory == <<stored, rewards, episodes>>
vars  == <<ckpt, pc, op, mem, unsaved, branch, worktree, tree, commits,
           stored, rewards, episodes, crashes>>

-----------------------------------------------------------------------------
(* The data. *)

Nodes == {"bootstrap", "load_context", "retrieve", "analyze", "plan", "implement",
          "apply", "verify", "reflect", "human_review", "finalize", "learn", "teardown"}

\* Two of the gates rewrite the files they check: rector and cs_fixer.
Rewrites == {"rector", "cs_fixer"}
Changes  == Diffs \cup Rewrites

\* A diff changes one file, which is named by it here.
Files == Diffs

\* verify_report: whether every entry is ok, the worktree as the gates left it, and
\* the files they were given.  The missing report and a red one are alike to the code.
Reports == [ok : BOOLEAN, tree : SUBSET Changes, files : SUBSET Files]
NotOk == [ok |-> FALSE, tree |-> {}, files |-> {}]

States ==
  [known : BOOLEAN,
   status : {"none", "created", "running", "waiting_for_human", "completed", "failed"},
   workspace : BOOLEAN, target_files : SUBSET Files, iteration : Nat, llm_calls : Nat,
   diff : Diffs \cup {EmptyDiff}, applied : BOOLEAN, verify_report : Reports,
   retrieved : SUBSET Lessons, reflections : SUBSET Lessons,
   pending : BOOLEAN, outcome : {"none", "completed", "failed"}]

Threads == [state : States, next : Nodes \cup {"end", "none"}]

Blank ==
  [known |-> FALSE, status |-> "none", workspace |-> FALSE, target_files |-> {},
   iteration |-> 0, llm_calls |-> 0, diff |-> EmptyDiff, applied |-> FALSE, verify_report |-> NotOk,
   retrieved |-> {}, reflections |-> {}, pending |-> FALSE, outcome |-> "none"]
NoThread == [state |-> Blank, next |-> "none"]

\* start() invokes the graph on the initial state: it is merged into the state
\* of the thread, if there is one already.
initial_state(s) ==
  [s EXCEPT !.known = TRUE, !.status = "created", !.iteration = 0, !.llm_calls = 0,
            !.target_files = {}, !.retrieved = {}, !.reflections = {}, !.pending = FALSE]

-----------------------------------------------------------------------------
(* The routing. *)

_gates_ok(s) == s.verify_report.ok

\* late: max_runtime_seconds have passed since the start.  A run that finds itself
\* late gives up there and then, so each test may choose freely.
Late == IF RuntimeLimited THEN BOOLEAN ELSE {FALSE}

over_budget(s, late) == (max_llm_calls # 0 /\ s.llm_calls >= max_llm_calls) \/ late

\* (slip: one iteration too many)
RetryOrGiveUp_late(s) == IF s.iteration <= max_iterations THEN "reflect" ELSE "finalize"

RetryOrGiveUp(s) == IF s.iteration < max_iterations THEN "reflect" ELSE "finalize"

\* (slip: the budget is looked at after verify only)
route_after_apply_unlimited(s, late) == IF s.applied THEN "verify" ELSE RetryOrGiveUp(s)

\* (slip: the same diff is applied until it fits)
route_after_apply_again(s, late) ==
  CASE over_budget(s, late) -> "finalize"
    [] ~over_budget(s, late) /\ s.applied -> "verify"
    [] OTHER -> "apply"

route_after_apply(s, late) ==
  CASE over_budget(s, late) -> "finalize"
    [] ~over_budget(s, late) /\ s.applied -> "verify"
    [] OTHER -> RetryOrGiveUp(s)

\* (slip: the budget is looked at before the gates)
route_after_verify_stingy(s, late) ==
  CASE over_budget(s, late) -> "finalize"
    [] ~over_budget(s, late) /\ _gates_ok(s) -> "human_review"
    [] OTHER -> RetryOrGiveUp(s)

\* (slip: an exhausted run is left to the human)
route_after_verify_lenient(s, late) ==
  IF ~_gates_ok(s) /\ ~over_budget(s, late) /\ s.iteration < max_iterations
    THEN "reflect" ELSE "human_review"

route_after_verify(s, late) ==
  CASE _gates_ok(s) -> "human_review"
    [] ~_gates_ok(s) /\ over_budget(s, late) -> "finalize"
    [] OTHER -> RetryOrGiveUp(s)

route_after_human_review(s) ==
  IF s.status = "waiting_for_human" THEN "end" ELSE "finalize"

NextNode(n, s, late) ==
  CASE n = "bootstrap"    -> "load_context"
    [] n = "load_context" -> "retrieve"
    [] n = "retrieve"     -> "analyze"
    [] n = "analyze"      -> "plan"
    [] n = "plan"         -> "implement"
    [] n = "implement"    -> "apply"
    [] n = "apply"        -> route_after_apply(s, late)
    [] n = "verify"       -> route_after_verify(s, late)
    [] n = "reflect"      -> "implement"
    [] n = "human_review" -> route_after_human_review(s)
    [] n = "finalize"     -> "learn"
    [] n = "learn"        -> "teardown"
    [] n = "teardown"     -> "end"

-----------------------------------------------------------------------------
Init ==
  /\ ckpt = NoThread
  /\ pc = [c \in Calls |-> "idle"]
  /\ op = [c \in Calls |-> "none"]
  /\ mem = [c \in Calls |-> NoThread]
  /\ unsaved = [c \in Calls |-> "no"]
  /\ branch = FALSE /\ worktree = FALSE /\ tree = {} /\ commits = <<>>
  /\ stored = OldLessons /\ rewards = [l \in Lessons |-> 0] /\ episodes = 0
  /\ crashes = 0

Active(c) == pc[c] \notin {"idle", "done"}

Arrive(c, kind) ==
  /\ pc[c] = "idle"
  /\ Cardinality({d \in Calls : Active(d)}) < MaxActive
  /\ op' = [op EXCEPT ![c] = kind]

\* The call returns or raises; its copy of the thread goes with it.
Leave(c) ==
  /\ pc' = [pc EXCEPT ![c] = "done"]
  /\ mem' = [mem EXCEPT ![c] = NoThread]
  /\ unsaved' = [unsaved EXCEPT ![c] = "no"]

\* Another call's result that is still unsaved may now be older than ckpt.
Overtaken(c) ==
  [d \in Calls |-> IF d # c /\ unsaved[d] # "no" THEN "overtaken" ELSE unsaved[d]]

start(c) ==
  /\ Arrive(c, "start")
  /\ mem' = [mem EXCEPT ![c] =
               [state |-> initial_state(ckpt.state), next |-> "bootstrap"]]
  /\ unsaved' = [unsaved EXCEPT ![c] = "yes"]
  /\ pc' = [pc EXCEPT ![c] = "run"]
  /\ UNCHANGED <<ckpt, git, memory, crashes>>

\* approve() asks for nothing: no approval is looked up, nothing is refused.
approve(c) ==
  /\ Arrive(c, "approve")
  /\ ApproveUnparked \/ ckpt.state.pending
  /\ mem' = [mem EXCEPT ![c] = ckpt]
  /\ pc' = [pc EXCEPT ![c] = "update_write"]
  /\ UNCHANGED <<ckpt, unsaved, git, memory, crashes>>

\* update_state(patch, as_node = "human_review").
update_state(c) ==
  LET patched == [mem[c].state EXCEPT !.status = "running", !.pending = FALSE]
  IN /\ pc[c] = "update_write"
     /\ ckpt' = [state |-> patched, next |-> route_after_human_review(patched)]
     /\ unsaved' = Overtaken(c)
     /\ pc' = [pc EXCEPT ![c] = "load"]
     /\ UNCHANGED <<op, mem, git, memory, crashes>>

\* invoke(None).
load(c) ==
  /\ pc[c] = "load"
  /\ mem' = [mem EXCEPT ![c] = ckpt]
  /\ pc' = [pc EXCEPT ![c] = "run"]
  /\ UNCHANGED <<ckpt, op, unsaved, git, memory, crashes>>

-----------------------------------------------------------------------------
(* The nodes. *)

AtNode(c, n) == pc[c] = "run" /\ mem[c].next = n /\ unsaved[c] = "no"

\* The node returns: the thread advances with state s, to be checkpointed.
advance(c, n, s) ==
  /\ \E late \in Late :
       mem' = [mem EXCEPT ![c] = [state |-> s, next |-> NextNode(n, s, late)]]
  /\ unsaved' = [unsaved EXCEPT ![c] = "yes"]

record_llm_call(s) == [s EXCEPT !.llm_calls = @ + 1]

\* (slip: git worktree add -B, which takes an existing branch over)
bootstrap_create_forced(c) ==
  /\ AtNode(c, "bootstrap")
  /\ branch' = TRUE /\ worktree' = TRUE /\ tree' = {}
  /\ pc' = [pc EXCEPT ![c] = "provision"]
  /\ UNCHANGED <<ckpt, op, mem, unsaved, commits, memory, crashes>>

\* git worktree add -b ...
bootstrap_create(c) ==
  /\ AtNode(c, "bootstrap") /\ ~branch
  /\ branch' = TRUE /\ worktree' = TRUE /\ tree' = {}
  /\ pc' = [pc EXCEPT ![c] = "provision"]
  /\ UNCHANGED <<ckpt, op, mem, unsaved, commits, memory, crashes>>

\* ... which git refuses when the branch exists ...
bootstrap_refused(c) ==
  /\ AtNode(c, "bootstrap") /\ branch
  /\ Leave(c)
  /\ UNCHANGED <<ckpt, op, git, memory, crashes>>

\* ... then the files are copied and linked; if that raises, nothing in the
\* state names the worktree.
bootstrap_provision(c) ==
  /\ pc[c] = "provision"
  /\ \/ /\ advance(c, "bootstrap",
                   [mem[c].state EXCEPT !.workspace = TRUE, !.status = "running"])
        /\ pc' = [pc EXCEPT ![c] = "run"]
     \/ ToolsFail /\ Leave(c)
  /\ UNCHANGED <<ckpt, op, git, memory, crashes>>

load_context(c) ==
  /\ AtNode(c, "load_context")
  /\ advance(c, "load_context", mem[c].state)
  /\ UNCHANGED <<ckpt, pc, op, git, memory, crashes>>

\* Any of the stored lessons may rank high enough.
retrieve_lessons == SUBSET stored

retrieve(c) ==
  /\ AtNode(c, "retrieve")
  /\ \E ls \in retrieve_lessons :
       advance(c, "retrieve", [mem[c].state EXCEPT !.retrieved = ls])
  /\ UNCHANGED <<ckpt, pc, op, git, memory, crashes>>

analyze(c) ==
  /\ AtNode(c, "analyze")
  /\ \E files \in SUBSET Files :
       advance(c, "analyze", [record_llm_call(mem[c].state) EXCEPT !.target_files = files])
  /\ UNCHANGED <<ckpt, pc, op, git, memory, crashes>>

plan(c) ==
  /\ AtNode(c, "plan")
  /\ advance(c, "plan", record_llm_call(mem[c].state))
  /\ UNCHANGED <<ckpt, pc, op, git, memory, crashes>>

\* The LLM gives the diff and, apart from it, the files it says it touched.
implement(c) ==
  /\ AtNode(c, "implement")
  /\ \E d \in Diffs \cup {EmptyDiff}, touched \in SUBSET Files :
       advance(c, "implement",
               [record_llm_call(mem[c].state) EXCEPT
                  !.diff = d, !.iteration = @ + 1,
                  !.target_files = IF touched = {} THEN @ ELSE touched])
  /\ UNCHANGED <<ckpt, pc, op, git, memory, crashes>>

\* A diff is applied on top of whatever earlier attempts left in the worktree.
\* A blank diff always applies; any other may be refused by git.
apply(c) ==
  LET s == mem[c].state
      failed == [s EXCEPT !.applied = FALSE, !.verify_report = NotOk, !.status = "failed"]
  IN /\ AtNode(c, "apply")
     /\ \/ /\ s.workspace /\ s.diff = EmptyDiff
           /\ advance(c, "apply", [s EXCEPT !.applied = TRUE])
           /\ UNCHANGED tree
        \/ /\ s.workspace /\ s.diff # EmptyDiff /\ worktree
           /\ tree' = tree \cup {s.diff}
           /\ advance(c, "apply", [s EXCEPT !.applied = TRUE])
        \/ /\ s.workspace => s.diff # EmptyDiff /\ worktree
           /\ advance(c, "apply", failed)
           /\ UNCHANGED tree
     /\ UNCHANGED <<ckpt, pc, op, branch, worktree, commits, memory, crashes>>

\* (the patch cannot even be written where the worktree is gone)
apply_raises(c) ==
  /\ AtNode(c, "apply")
  /\ mem[c].state.workspace /\ mem[c].state.diff # EmptyDiff /\ ~worktree
  /\ Leave(c)
  /\ UNCHANGED <<ckpt, op, git, memory, crashes>>

\* What the gates leave in the worktree.
Gated(rewrites) == IF worktree THEN tree \cup rewrites ELSE tree

\* The files the gates are run on: given none, the tools take all (and php -l none).
Paths(s) == IF s.target_files = {} THEN Files ELSE s.target_files

\* Run the gates, which may rewrite files, and the SOLID review of the diff.
\* Without a worktree the gates that run a binary fail.
verify(c) ==
  /\ AtNode(c, "verify")
  /\ \E rewrites \in SUBSET Rewrites, ok \in BOOLEAN :
       /\ ok => worktree
       /\ tree' = Gated(rewrites)
       /\ advance(c, "verify",
            [record_llm_call(mem[c].state) EXCEPT
               !.verify_report = IF ok THEN [ok |-> TRUE, tree |-> Gated(rewrites),
                                             files |-> Paths(mem[c].state)]
                                       ELSE NotOk,
               !.status = IF ok THEN "running" ELSE "failed"])
  /\ UNCHANGED <<ckpt, pc, op, branch, worktree, commits, memory, crashes>>

\* The gates have run when the LLM raises.
verify_raises(c) ==
  /\ ToolsFail /\ AtNode(c, "verify")
  /\ \E rewrites \in SUBSET Rewrites : tree' = Gated(rewrites)
  /\ Leave(c)
  /\ UNCHANGED <<ckpt, op, branch, worktree, commits, memory, crashes>>

record_lesson(l) == stored' = stored \cup {l}

\* The lesson is stored before the state that names it is.
reflect(c) ==
  /\ AtNode(c, "reflect")
  /\ \E l \in Lessons \ stored :
       /\ record_lesson(l)
       /\ advance(c, "reflect",
            [record_llm_call(mem[c].state) EXCEPT
               !.reflections = @ \cup {l}, !.status = "running"])
  /\ UNCHANGED <<ckpt, pc, op, git, rewards, episodes, crashes>>

human_review(c) ==
  LET s == mem[c].state
  IN /\ AtNode(c, "human_review")
     /\ advance(c, "human_review",
          IF require_human_review
            THEN [s EXCEPT !.status = "waiting_for_human", !.pending = TRUE]
            ELSE [s EXCEPT !.status = "running"])
     /\ UNCHANGED <<ckpt, pc, op, git, memory, crashes>>

\* Commit everything in the worktree if the last report is green.  (git fails
\* where the worktree is gone.)
finalize(c) ==
  LET s == mem[c].state
      commit == _gates_ok(s) /\ s.workspace
  IN /\ AtNode(c, "finalize")
     /\ commit => worktree
     /\ commits' = IF commit
                     THEN Append(commits, [tree |-> tree, gated |-> s.verify_report.tree,
                                           files |-> s.verify_report.files])
                     ELSE commits
     /\ advance(c, "finalize",
          [s EXCEPT !.outcome = IF _gates_ok(s) THEN "completed" ELSE "failed",
                    !.status  = IF _gates_ok(s) THEN "completed" ELSE "failed"])
     /\ UNCHANGED <<ckpt, pc, op, branch, worktree, tree, memory, crashes>>

finalize_raises(c) ==
  /\ AtNode(c, "finalize")
  /\ _gates_ok(mem[c].state) /\ mem[c].state.workspace /\ ~worktree
  /\ Leave(c)
  /\ UNCHANGED <<ckpt, op, git, memory, crashes>>

record_episode == episodes' = episodes + 1

\* Record the episode ...
learn_episode(c) ==
  /\ AtNode(c, "learn") /\ mem[c].state.known
  /\ record_episode
  /\ pc' = [pc EXCEPT ![c] = "reward"]
  /\ UNCHANGED <<ckpt, op, mem, unsaved, git, stored, rewards, crashes>>

\* (a thread that was never started has no workflow_id to record it under)
learn_unknown(c) ==
  /\ AtNode(c, "learn") /\ ~mem[c].state.known
  /\ Leave(c)
  /\ UNCHANGED <<ckpt, op, git, memory, crashes>>

Reward(ls) == rewards' = [l \in Lessons |-> IF l \in ls THEN rewards[l] + 1 ELSE rewards[l]]

\* (slip: a failed run rewards its reflections too)
learn_reward_always(c) ==
  /\ pc[c] = "reward"
  /\ Reward(mem[c].state.reflections)
  /\ advance(c, "learn", mem[c].state)
  /\ pc' = [pc EXCEPT ![c] = "run"]
  /\ UNCHANGED <<ckpt, op, git, stored, episodes, crashes>>

\* ... then, on success, reward the lessons of this run's reflections.
learn_reward(c) ==
  LET s == mem[c].state
  IN /\ pc[c] = "reward"
     /\ Reward(IF s.outcome = "completed" THEN s.reflections ELSE {})
     /\ advance(c, "learn", s)
     /\ pc' = [pc EXCEPT ![c] = "run"]
     /\ UNCHANGED <<ckpt, op, git, stored, episodes, crashes>>

\* The memory raises after it rewarded some of them.
learn_raises(c) ==
  /\ ToolsFail /\ pc[c] = "reward" /\ mem[c].state.outcome = "completed"
  /\ \E ls \in SUBSET mem[c].state.reflections : ls # mem[c].state.reflections /\ Reward(ls)
  /\ Leave(c)
  /\ UNCHANGED <<ckpt, op, git, stored, episodes, crashes>>

\* (slip: a failed run keeps its worktree)
teardown_completed(c) ==
  LET s == mem[c].state
  IN /\ AtNode(c, "teardown")
     /\ worktree' = (worktree /\ s.outcome # "completed")
     /\ tree' = IF worktree' THEN tree ELSE {}
     /\ advance(c, "teardown", s)
     /\ UNCHANGED <<ckpt, pc, op, branch, commits, memory, crashes>>

\* Best effort: a failure to remove the worktree is swallowed.
teardown(c) ==
  LET s == mem[c].state
  IN /\ AtNode(c, "teardown")
     /\ \/ worktree' = (worktree /\ ~s.workspace)
        \/ ToolsFail /\ UNCHANGED worktree
     /\ tree' = IF worktree' THEN tree ELSE {}
     /\ advance(c, "teardown", s)
     /\ UNCHANGED <<ckpt, pc, op, branch, commits, memory, crashes>>

\* The LLM, git, an MCP server or the memory raises before it did anything.
node_raises(c) ==
  /\ ToolsFail
  /\ \E n \in Nodes \ {"verify", "human_review", "teardown"} : AtNode(c, n)
  /\ Leave(c)
  /\ UNCHANGED <<ckpt, op, git, memory, crashes>>

-----------------------------------------------------------------------------
\* The result becomes the latest checkpoint, unless a newer one was written.
save(c) ==
  /\ unsaved[c] # "no"
  /\ \/ ckpt' = mem[c] /\ unsaved' = [Overtaken(c) EXCEPT ![c] = "no"]
     \/ /\ unsaved[c] = "overtaken"
        /\ unsaved' = [unsaved EXCEPT ![c] = "no"] /\ UNCHANGED ckpt
  /\ UNCHANGED <<pc, op, mem, git, memory, crashes>>

invoke_returns(c) ==
  /\ pc[c] = "run" /\ mem[c].next = "end" /\ unsaved[c] = "no"
  /\ Leave(c)
  /\ UNCHANGED <<ckpt, op, git, memory, crashes>>

\* The process dies; the checkpoints, the repository and the memory remain.
Crash ==
  /\ crashes < MaxCrashes
  /\ \E c \in Calls : Active(c)
  /\ crashes' = crashes + 1
  /\ pc' = [c \in Calls |-> IF Active(c) THEN "done" ELSE pc[c]]
  /\ mem' = [c \in Calls |-> NoThread]
  /\ unsaved' = [c \in Calls |-> "no"]
  /\ UNCHANGED <<ckpt, op, git, memory>>

Serve(c) ==
  \/ update_state(c) \/ load(c)
  \/ bootstrap_create(c) \/ bootstrap_refused(c) \/ bootstrap_provision(c)
  \/ load_context(c) \/ retrieve(c) \/ analyze(c) \/ plan(c) \/ implement(c)
  \/ apply(c) \/ apply_raises(c) \/ verify(c) \/ verify_raises(c) \/ reflect(c)
  \/ human_review(c) \/ finalize(c) \/ finalize_raises(c)
  \/ learn_episode(c) \/ learn_unknown(c) \/ learn_reward(c) \/ learn_raises(c)
  \/ teardown(c) \/ node_raises(c)
  \/ save(c) \/ invoke_returns(c)

\* Nothing is in progress: the run waits for a call, or for ever.
Quiet == (\A c \in Calls : ~Active(c)) /\ UNCHANGED vars

Next ==
  \/ \E c \in Calls : start(c) \/ approve(c) \/ Serve(c)
  \/ Crash
  \/ Quiet

Spec == Init /\ [][Next]_vars

\* An accepted call keeps running.
FairSpec == Spec /\ \A c \in Calls : WF_vars(Serve(c))
-----------------------------------------------------------------------------
(* Properties. *)

Copies == {ckpt} \cup {mem[c] : c \in Calls}

\* Every variable stays in its domain.
TypeOK ==
  /\ ckpt \in Threads
  /\ pc \in [Calls -> {"idle", "update_write", "load", "run", "provision", "reward", "done"}]
  /\ op \in [Calls -> {"none", "start", "approve"}]
  /\ mem \in [Calls -> Threads]
  /\ unsaved \in [Calls -> {"no", "yes", "overtaken"}]
  /\ {branch, worktree} \subseteq BOOLEAN
  /\ tree \subseteq Changes
  /\ commits \in Seq([tree : SUBSET Changes, gated : SUBSET Changes, files : SUBSET Files])
  /\ stored \subseteq Lessons
  /\ rewards \in [Lessons -> Nat]
  /\ episodes \in Nat
  /\ crashes \in Nat

\* The LLM budget is only looked at after apply and after verify: a run makes at
\* most three calls before the first look, and one too many after a look that
\* passes (over_budget, routing.py).
BudgetBound ==
  max_llm_calls # 0 =>
    \A t \in Copies : t.state.llm_calls <= 3 \/ t.state.llm_calls <= max_llm_calls + 1

\* The Reflexion loop runs implement at most max_iterations times, and once when
\* max_iterations is 0 (route_after_apply, route_after_verify).
IterationBound ==
  \A t \in Copies : t.state.iteration <= 1 \/ t.state.iteration <= max_iterations

\* What finalize commits (everything in the worktree) is what the gates left there
\* when they were green, though the report it looks at may be left from an earlier
\* attempt or start.
CommitIsGated == \A i \in 1..Len(commits) : commits[i].tree = commits[i].gated

\* Where a human must review, each commit takes an approve() of its own: no
\* start(), whatever the thread held before it, gets to a commit by itself.
CommitIsApproved ==
  require_human_review =>
    Len(commits) <= Cardinality({c \in Calls : op[c] = "approve"})

\* A run that waits for its review is green, and the files under review are
\* still as the gates left them.
ReviewIsCurrent ==
  ckpt.state.pending =>
    /\ _gates_ok(ckpt.state)
    /\ worktree => tree = ckpt.state.verify_report.tree

\* The run reached its end, rather than the review.
Ended == ckpt.next = "end" /\ ~ckpt.state.pending

\* When nothing fails and only parked runs are approved, a run is recorded and
\* committed once, whatever calls come after its end (start, approve; learn.py).
RecordedOnce ==
  /\ episodes <= 1 /\ Len(commits) <= 1
  /\ Ended => /\ episodes = 1
              /\ Len(commits) = IF ckpt.state.outcome = "completed" THEN 1 ELSE 0

\* ... the lessons it reflected on are rewarded once if it was completed, and no
\* others are (learn.py) ...
RewardedOnce ==
  /\ \A l \in Lessons : rewards[l] <= 1 /\ (rewards[l] = 1 => commits # <<>>)
  /\ Ended => \A l \in Lessons :
       rewards[l] = 1 <=> ckpt.state.outcome = "completed" /\ l \in ckpt.state.reflections

\* ... and its worktree is gone; one that is still there belongs to a run in
\* progress, one under review, or one that a second start() has reset.
WorktreeReleased ==
  /\ Ended => ~worktree
  /\ worktree /\ (\A c \in Calls : ~Active(c)) => ckpt.state.pending \/ ckpt.next = "bootstrap"

\* Every call returns or raises: the Reflexion loop ends however often the gates
\* are red (routing.py).
EveryCallEnds == \A c \in Calls : Active(c) ~> pc[c] = "done"

\* The stage of the task that the thread shows: a start() of a thread that has a
\* workspace already gets no further than bootstrap.
VisibleStage(thread) ==
  CASE thread.next = "none"                                        -> "none"
    [] thread.state.pending                                        -> "review"
    [] thread.next = "bootstrap" /\ thread.state.workspace         -> "lost"
    [] thread.next = "finalize" /\ _gates_ok(thread.state)         -> "approved"
    [] thread.next \in {"learn", "teardown", "end"} /\ thread.state.outcome = "completed"
                                                                   -> "delivered"
    [] thread.next \in {"learn", "teardown", "end"} /\ thread.state.outcome = "failed"
                                                                   -> "failed"
    [] OTHER                                                       -> "running"

Task == INSTANCE TaskLifecycle WITH
  stage <- VisibleStage(ckpt), commits <- Len(commits)

\* When nothing fails and only parked runs are approved, calls made one at a time
\* show a task that comes to its review or fails, and one that was approved is
\* delivered by exactly one commit, whatever start() comes later.
ImplementsTask == Task!Spec

-----------------------------------------------------------------------------
(* Why the bounds and the approval of commits hold. *)

\* No copy of the thread, wherever it is kept, has spent more attempts or calls
\* than its place in the graph allows, and a green report is of a run whose
\* task branch exists, so that no start() gets past bootstrap with it.
CopyOk(t, br) ==
  /\ t.next \in {"bootstrap", "load_context", "retrieve", "analyze", "plan"}
       => t.state.iteration = 0
  /\ t.next = "implement" => t.state.iteration = 0 \/ t.state.iteration < max_iterations
  /\ t.next = "reflect" => t.state.iteration < max_iterations
  /\ t.state.iteration <= 1 \/ t.state.iteration <= max_iterations
  /\ max_llm_calls # 0 =>
       /\ t.next \in {"bootstrap", "load_context", "retrieve", "analyze"}
            => t.state.llm_calls = 0
       /\ t.next = "plan" => t.state.llm_calls <= 1
       /\ t.next = "implement" => t.state.llm_calls <= 2 \/ t.state.llm_calls <= max_llm_calls
       /\ t.next \in {"verify", "reflect"} => t.state.llm_calls < max_llm_calls
       /\ t.state.llm_calls <= 3 \/ t.state.llm_calls <= max_llm_calls + 1
  /\ _gates_ok(t.state) => br

\* A start() with a green report is still to be refused by bootstrap, or goes to
\* its review; so it never commits.  (p, o, t: the call's pc, op and mem.)
CallOk(p, o, t) ==
  /\ p # "idle" => o # "none"
  /\ p \in {"update_write", "load"} => o = "approve"
  /\ p = "provision" => t.next = "bootstrap"
  /\ p = "reward" => t.next = "learn"
  /\ require_human_review /\ o = "start" /\ _gates_ok(t.state) =>
       \/ p = "run" /\ t.next \in {"bootstrap", "human_review", "end"}
       \/ p \in {"idle", "done"}

\* An approve() that is past its only commit.
Spent(p, o, t) ==
  /\ o = "approve"
  /\ p = "done" \/ (p \in {"run", "reward"} /\ t.next \in {"learn", "teardown", "end"})

WorktreeOk == worktree => branch
CopiesOk  == CopyOk(ckpt, branch) /\ \A c \in Calls : CopyOk(mem[c], branch)
CallsOk   == \A c \in Calls : CallOk(pc[c], op[c], mem[c])
CommitsOk ==
  require_human_review =>
    Len(commits) <= Cardinality({c \in Calls : Spent(pc[c], op[c], mem[c])})

\* The inductive invariant.
IInv == TypeOK /\ WorktreeOk /\ CopiesOk /\ CallsOk /\ CommitsOk

-----------------------------------------------------------------------------
(* Why, of calls made one at a time, what is committed or under review is    *)
(* what the gates left: a thread with a green report comes to no node that   *)
(* changes files, and no copy of the thread is behind when a node runs.      *)

GreenOk(t, wt, tr) ==
  /\ _gates_ok(t.state) =>
       /\ t.next \in {"bootstrap", "human_review", "finalize", "learn", "teardown", "end"}
       /\ wt => tr = t.state.verify_report.tree
  /\ t.next = "human_review" => _gates_ok(t.state)
  /\ t.state.pending => t.next = "end" /\ _gates_ok(t.state)

\* What a call holds: nothing unless it is in progress, else the checkpoint or a newer
\* result.  (p, t, u: its pc, mem and unsaved; k: the checkpoint.)
CopyIsCurrent(p, t, u, k) ==
  /\ u # "overtaken"
  /\ p \in {"idle", "done"} => t = NoThread /\ u = "no"
  /\ p \in {"run", "provision", "reward"} /\ u = "no" => t = k
  /\ p = "provision" => ~_gates_ok(t.state)

OneAtATime == \A c, d \in Calls : Active(c) /\ Active(d) => c = d

SerialInv ==
  /\ OneAtATime
  /\ GreenOk(ckpt, worktree, tree)
  /\ \A c \in Calls : GreenOk(mem[c], worktree, tree)
  /\ \A c \in Calls : CopyIsCurrent(pc[c], mem[c], unsaved[c], ckpt)
  /\ CommitIsGated

-----------------------------------------------------------------------------
(* Why, when nothing fails and only parked runs are approved, the books of   *)
(* the task hold: the newest copy of the thread tells what the repository    *)
(* and the memory hold.  (br, wt: its branch and worktree; n, ep, rw: its    *)
(* commits, episodes and rewards.)                                           *)

Untold(n, ep, rw) == n = 0 /\ ep = 0 /\ \A l \in Lessons : rw[l] = 0

Committed(s, n) ==
  \/ s.outcome = "completed" /\ n = 1
  \/ s.outcome = "failed" /\ n = 0

Told(s, n, ep, rw) ==
  /\ Committed(s, n) /\ ep = 1
  /\ \A l \in Lessons :
       rw[l] = IF s.outcome = "completed" /\ l \in s.reflections THEN 1 ELSE 0

\* The places where a thread may be: before bootstrap has made the worktree, and
\* after; put back to bootstrap by another start(), whatever it had come to; on its
\* way to the review or the commit; at its end.
Fresh(t) ==
  /\ t.next = "bootstrap" /\ t.state.known
  /\ ~t.state.workspace /\ ~t.state.pending /\ t.state.outcome = "none"

Lost(t, br, n, ep, rw) ==
  /\ t.next = "bootstrap" /\ t.state.workspace /\ ~t.state.pending /\ br
  /\ n <= 1 /\ ep <= 1 /\ \A l \in Lessons : rw[l] <= 1 /\ (rw[l] = 1 => n = 1)

Underway(t, br, wt, n, ep, rw) ==
  /\ t.next \in (Nodes \ {"bootstrap", "learn", "teardown"}) \cup {"end"}
  /\ t.state.pending <=> t.next = "end"
  /\ t.state.known /\ t.state.workspace /\ t.state.outcome = "none"
  /\ br /\ wt /\ Untold(n, ep, rw)

Learning(t, br, wt, n, rw) ==
  /\ t.next = "learn" /\ t.state.known /\ t.state.workspace /\ ~t.state.pending
  /\ br /\ wt /\ Committed(t.state, n) /\ \A l \in Lessons : rw[l] = 0

Closing(t, br, wt, n, ep, rw) ==
  /\ t.next \in {"teardown", "end"} /\ wt = (t.next = "teardown")
  /\ t.state.known /\ t.state.workspace /\ ~t.state.pending
  /\ br /\ Told(t.state, n, ep, rw)

\* Between calls.
Resting(t, br, wt, n, ep, rw) ==
  \/ t = NoThread /\ ~br /\ Untold(n, ep, rw)
  \/ Lost(t, br, n, ep, rw)
  \/ Underway(t, br, wt, n, ep, rw) /\ t.state.pending
  \/ Closing(t, br, wt, n, ep, rw) /\ t.next = "end"

\* In a call at p.
Going(p, t, br, wt, n, ep, rw) ==
  \/ p = "provision" /\ Fresh(t) /\ br /\ wt /\ Untold(n, ep, rw)
  \/ p = "reward" /\ Learning(t, br, wt, n, rw) /\ ep = 1
  \/ /\ p = "run"
     /\ \/ Fresh(t) /\ ~br /\ Untold(n, ep, rw)
        \/ Lost(t, br, n, ep, rw)
        \/ Underway(t, br, wt, n, ep, rw)
        \/ Learning(t, br, wt, n, rw) /\ ep = 0
        \/ Closing(t, br, wt, n, ep, rw)

\* Where a human must review, a new result t shows the next stage of the task after
\* that of the checkpoint k, or the same.
Advances(k, t, n) ==
  \/ VisibleStage(k) = VisibleStage(t)
  \/ <<VisibleStage(k), VisibleStage(t)>> \in
       {<<"none", "running">>, <<"running", "review">>, <<"running", "failed">>,
        <<"review", "lost">>, <<"failed", "lost">>, <<"delivered", "lost">>}
  \/ VisibleStage(k) = "approved" /\ VisibleStage(t) = "delivered" /\ n = 1

\* A call holds t, unsaved if u, beside the checkpoint k.
CallBooks(p, t, u, k, br, wt, n, ep, rw) ==
  /\ p # "run" => u = "no"
  /\ p = "update_write" => t = k /\ Underway(k, br, wt, n, ep, rw) /\ k.state.pending
  /\ p = "load" => Underway(k, br, wt, n, ep, rw) /\ k.next = "finalize"
  /\ p \in {"run", "provision", "reward"} => Going(p, t, br, wt, n, ep, rw)
  /\ u = "yes" => /\ k.next \in Nodes \/ Resting(k, br, wt, n, ep, rw)
                  /\ require_human_review => Advances(k, t, n)

BookInv ==
  /\ (\A c \in Calls : ~Active(c)) =>
       Resting(ckpt, branch, worktree, Len(commits), episodes, rewards)
  /\ \A c \in Calls : Active(c) =>
       CallBooks(pc[c], mem[c], unsaved[c], ckpt,
                 branch, worktree, Len(commits), episodes, rewards)

-----------------------------------------------------------------------------
(* What the documents say and the code does not do. *)

\* "deterministic tools (git, Rector, PHPStan, PHPUnit) decide correctness; the LLM
\* only proposes" (dev_orchestrator.md:10): the files a commit changes are files
\* the gates were run on.
CommitIsVerified == \A i \in 1..Len(commits) : commits[i].tree \cap Diffs \subseteq commits[i].files
=============================================================================
