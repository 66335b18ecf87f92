# Formal models of AI Workflow Orchestrator

TLA+ models of the two systems in this repository and of what they share, TLC configurations that check
them on small instances, and proofs, checked by TLAPS, of the properties that
matter most for every value of the constants. Paths below are relative to the root
of the repository.

1. [The system](#1-the-system): components, state, operations, what is hard
2. [The models](#2-the-models): how each module corresponds to the code
3. [The runs](#3-the-runs): what TLC checks, the bounds, fairness
4. [The proofs](#4-the-proofs): theorems, assumptions, inductive invariants
5. [Disagreements](#5-where-code-and-documents-disagree) between code and documents
6. [What is not covered](#6-what-is-not-covered)
7. [The plan](#7-the-plan)

Running: `tlc -config ApiSerial.cfg MCWorkflowApi` and so on for each `.cfg` (each
belongs to the MC module of its component); `tlapm M.tla` for the proofs, with M one of
`WorkflowApiProofs`, `WorkflowSerialProofs`, `DevOrchestratorProofs`, `DevSerialProofs`,
`SharedRunsProofs`, `SharedLessonsProofs`, `CopilotTokenProofs` and `LlmStepProofs` (one
to four minutes each).

## 1. The system

Two state graphs, run by LangGraph over a checkpointer, and what they stand on.

| component | state it keeps | operations | what makes it correct |
|---|---|---|---|
| **Workflow API** (`app/api/routes.py`, `workflows/services/`) | none of its own; one thread per HTTP call, each with a copy of the graph state | POST /workflows, POST /workflows/{id}/resume, POST /approvals/{id}/approve, GET /workflows/{id} | nothing completes without an approval of its own; what is announced exists; calls repeated change nothing; a grant is not lost |
| **Workflow graph** (`workflows/graph/`, `workflows/nodes/`) | `AgentWorkflowState` | nodes plan, verify, human_review, finalize; routers after verify and human_review | a parked thread waits for an approval of its own plan; a failed plan is never reviewed |
| **Application database** (`workflows/persistence/`, `artifact_service`, `event_service`) | workflows, human_approvals, workflow_events, workflow_artifacts, the report file | one transaction per node or service call | rows agree with the thread; written in the order ask, approve, report, complete |
| **Checkpoints** (LangGraph's PostgresSaver, external) | the latest checkpoint of each thread | invoke, update_state | external; see section 2 |
| **Dev orchestrator graph** (`workflows/dev_orchestrator/`, `nodes/`) | `DevOrchestratorState` | 13 nodes, the Reflexion loop, the budgets | nothing changes between the gates and the commit; a commit is approved; attempts and LLM calls are bounded; every run ends |
| **Dev orchestrator service** (`service.py`) | none | start(), approve() | a start() never commits what a human must review |
| **Git worktrees** (`tools/workspace.py`) | branch, worktree, files, commits | create, apply_patch, commit, remove | a run's worktree is released; parallel runs do not collide |
| **Long-term memory** (`tools/memory.py`, `embeddings.py`, `text.py`) | lessons with rewards, episodes | add, search, reinforce, record_episode | a run that ends is recorded; a lesson is rewarded for its own run's success only |
| **PHP quality gates** (`tools/php_toolchain.py`) | the files they rewrite | run_all | a red gate stops the commit |
| **Copilot tokens and chat** (`workflows/llm/copilot.py`) | token, expiry, chat, the token the chat was built for; shared by all threads, unlocked | get_token, chat; the device flow | no expired token is handed out; the chat follows the token |
| **Function-calling loop** (`tool_loop.py`, `mcp_tools.py`) | the conversation | run_tool_loop | ends within its bound; each tool call has its one result, in its place |
| **Dev LLM** (`dev_llm.py`, prompts, schemas) | chat factories | `_structured`, one step per node that asks the LLM | its requests are bounded; its token is valid when they are sent; it returns or raises |
| instructions, skills | none | read and rank files | ordering only |
| LLM factory, cache, compression; redaction; migrations; settings | configuration, a cache set up at start | construction | – |

**Interactions.** A handler commits to the database, then invokes the graph in the
same thread. A node commits its own transaction and returns a new state; LangGraph
checkpoints that state later, in the background. The approval is granted in the
database by one service, and told to the thread by another. When invoke returns,
the handler copies the state it ended with to the `workflows` row. The dev
orchestrator has no database of its own: its nodes change the worktree, the
repository and the memory, and its only memory of where it is is the thread.

Several runs of the dev orchestrator share one repository, where each has a branch and
a worktree named by the first part of its id, and one memory, from which each reads what
the others have learned. The threads of the server share the token provider.

**What is hard.** There is no lock, row version or transaction that spans two of
these stores. So: two calls on one workflow interleave anywhere; a crash may fall
between any two writes, in particular between a node's effect and its checkpoint;
the state a call works on may be stale when it is used; state that nobody resets
(`verify_report`, `workspace`, the files in the worktree) survives into the next
attempt or the next start(); budgets are compared in some places and counted in
others; a token that was taken at the start of a step is used until its end, however
long the tools take; ids that are shortened, or filled in by the LLM, may be taken.
PROJECT.json lists each of these at its line, under "hazards", with the
properties that would catch it.

## 2. The models

| module | what it is |
|---|---|
| `WorkflowApi` | the API, the graph, the database and the checkpoints |
| `ApprovalGate` | abstract: ask, approve, write, announce; implemented by every run of `WorkflowApi` |
| `ThreadLifecycle` | abstract: what a client that makes one call at a time sees when it polls; implemented by serial runs of `WorkflowApi` |
| `WorkflowApiProofs` | proofs about `WorkflowApi`, whatever interleaves and crashes |
| `WorkflowSerialProofs` | proofs about `WorkflowApi` when clients make one call at a time; that it implements `ThreadLifecycle` |
| `DevOrchestrator` | one run of the dev orchestrator, its service, worktree and memory |
| `DevOrchestratorProofs` | proofs about `DevOrchestrator`, whatever overlaps, fails and crashes |
| `DevSerialProofs` | proofs about `DevOrchestrator` when calls are made one at a time; that it implements `TaskLifecycle` |
| `TaskLifecycle` | abstract: what a client that makes one call at a time is promised of a task; implemented by serial runs of `DevOrchestrator` |
| `SharedRuns` | several runs of the dev orchestrator in one repository and on one memory |
| `SharedRunsProofs` | proofs about the repository that runs share |
| `SharedLessonsProofs` | proofs about the memory that runs share |
| `CopilotToken` | get_token() and chat() as run by the threads of the server |
| `CopilotTokenProofs` | proofs about `CopilotToken` |
| `DeviceFlow` | the OAuth device flow, by the clock |
| `LlmStep` | one step of a role: tools, token, function-calling loop, structured result; extends `DeviceFlow`, whose login gives it its OAuth token |
| `LlmStepProofs` | proofs about `DeviceFlow` and `LlmStep` |
| `MC…` | the components instantiated for TLC (symmetry sets) |

Operators marked "slip" are plausible mistakes in the code they stand next to (a
dropped guard, two swapped ends of a router, a missing commit). No specification
uses them; PROJECT.json's "mutants" puts each in the place of the definition below
it, and the property named there is then violated. They show that the properties
can tell the code from a wrong one.

### WorkflowApi

| variable | in the code |
|---|---|
| `row` | the `workflows` row: status, current node, completed_at set |
| `approval`, `granted` | the `human_approvals` row; its approval_granted events |
| `report`, `completions` | the plan in `final_report.json`; artifact rows and workflow_completed events |
| `ckpt` | the latest checkpoint of the thread: state and next node |
| `pc`, `job`, `target`, `mem` | where a request is, its workflow, its approval, its copy of the thread |
| `unsaved` | results of nodes the request has run whose checkpoints are not yet written |

One action is one indivisible effect: a transaction, a file write, a checkpoint, a
read that is used later. `approve` is the read of the approval and the 404/409
checks, `decide` the write that follows, `update_state_read` and
`update_state_write` what LangGraph does for update_state, `load` the start of
`invoke(None)`, then one action per node (`finalize` in two: the file, then the
transaction), `invoke_returns`, and `_persist_state`. `save` writes the next
checkpoint in the background. GET changes nothing and is the view
`VisibleStage(ckpt)`.

**LangGraph** is external and modelled from how the services use it. A thread is its
state and the node to run next. invoke loads the latest checkpoint once, and works
on that copy; each node's result is checkpointed in order, later than the node's own
effects, and possibly after the next node has begun. `invoke` returns or raises only
when its checkpoints are written. Checkpoints are ordered by when they were created;
when two calls run one thread a result that was overtaken may be written without
becoming the latest (`save_superseded`) or, its id being newer, become the latest
(`save`): the model allows both. update_state as human_review routes the patched
state by the router of human_review.

Data: a plan is one of a few values, and the empty one; errors are a Boolean; the
`completed_steps` list is kept, since resuming must not repeat a step. Not modelled: event kinds no property is about, titles, tool calls, and
the reject() service that no route calls.

### DevOrchestrator

| variable | in the code |
|---|---|
| `ckpt`, `pc`, `op`, `mem`, `unsaved` | as above; `op` says whether a call is a start() or an approve() |
| `branch`, `worktree`, `tree`, `commits` | the task branch, its worktree, the changes in its files, and the commits, each with what the report says of it |
| `stored`, `rewards`, `episodes` | the memory |

Each node is an action, `bootstrap`, `learn` and the calls of the service are several,
cut where an effect comes before another that may fail. Every failure the code can
meet is an alternative: `ToolsFail` lets the LLM, git, an MCP server or the memory
raise; git refuses where the branch exists or the worktree is gone.

Data: a diff is an element of a small set or blank, and changes one file, which is
named by it; the worktree's content is the *set of changes* applied to it (diffs, and
what rector and cs-fixer rewrote). `target_files` is what the LLM says, whatever the
diff changes: analyze sets it, implement replaces it unless the LLM names no file, and
verify runs the gates on it, or on everything when it is empty (`Paths`). A verify report
is whether all gates are green, the worktree as they left it and the files they were
given; lessons are ids. Time is a choice: each look at the clock
may find the run late (`Late`), which is sound because a late run gives up at once
and the routers do not look again. start() merges its input into the thread's state
as LangGraph does, so fields it does not set keep their old values. A result is
checkpointed before the next node runs (a simplification: the background writer may
lag further, see section 6); the results of overlapping calls still overtake each
other. The memory is taken to be the SQL-backed one, which survives a crash.

`VisibleStage` is the stage of a task as get_state() shows it, and `TaskLifecycle` what a
client may rely on: a task runs, comes to its review or fails, an approved one is
delivered by one commit. What the abstract specification also says is that a second
start() is never a second run, but not free: it takes the thread back to bootstrap,
where git refuses, and a parked review is lost.

### SharedRuns

The abstraction of `DevOrchestrator` for several runs: per run only what its nodes do to
what is shared. Attempts, gates and budgets are a loop that may end either way
(`verify`), and a run rests in its checkpoints between calls. Each run has at most one
call in progress; start() and approve() come at any time else, also on a run that
raised, crashed or ended, since neither looks. What a node does and its checkpoint are
one step here; `DevOrchestrator` takes them apart.

| variable | in the code |
|---|---|
| `branches`, `worktrees`, `tree`, `commits` | the task branches and worktrees by short id; whose changes are in the files; who committed what |
| `memory_backend`, `memory`, `episodes` | `InMemoryMemoryStore` or `SqlAlchemyMemoryStore`; lessons and rewards by id; how many episodes of each run |
| `workspace`, `retrieved`, `reflections`, `green`, `outcome` | whether a run's state has a `workspace`; its `retrieved_lessons`, `reflections`, whether its report is ok, the outcome of its `final_result`. start() resets the lessons only |
| `todo`, `read` | where `learn` is in its loop; the reward `reinforce` has read and not yet written |

A branch is made only if its name is free (`Refused`), whosever it is, and nothing in
the code ever removes one. Copying and linking files into the new worktree may fail, which
leaves a branch and a worktree that no run's state names (`create_worktree`). A lesson is stored under a fresh id or under the one the
LLM filled in: the database refuses an id that is taken, the dictionary replaces.
`reinforce` is a read and a write of the reward with any step of another run in between.

### DeviceFlow and LlmStep

Time is a clock; the program takes none, it waits for GitHub (at most `RequestTime`) or
sleeps, so that the clock may not pass the end of a sleep before the program looks
(`FlowLetsTimePass`). GitHub decides somewhere between request and reply: a code entered
after the request was sent may or may not be seen, and any poll may be answered with
slow_down (`Replies`); `put_off` says that the last one was although the code had been
entered. `SlowDown` is at least one: the code adds five seconds (copilot.py:124) to the
sleep after a slow_down, and to that one only. A login ends with a token,
a denial or the deadline; what it says is told to the user, only the token is kept.

`LlmStep` has one thread and a token that is the moment it expires. A step lists the
tools (`analyze`, `implement`) or has none (the other roles), takes a chat around a token
that is valid for the refresh skew at least (`chat`), alternates `invoke`, `ai_message`
and `execute` until an answer calls no tool or `max_tool_steps` rounds are used up, and asks
for the structured result. A tool may take any time; a request is sent at once and
judged by the token's expiry when it is sent (`invoke`, `structured`, or `rejected`). An answer
has up to `MaxCalls` tool calls, with ids that tell them apart or without ids, of a known tool
or one that does not exist. What is abstracted: arguments and contents; the prompt;
the model of a role, since a role's chat is rebuilt when the token is a new one.

### CopilotToken

Every read and write of a shared attribute is a step of its own. A token is its
number in the order of issue; `issued` says when each really expires, `_expires_at`
what the provider believes. A unit of time is the 30 s timeout of the HTTP client.
Assumed: a call takes at most `Patience` units from its look at the clock to its use
of the chat (httpx's 30 s are for each phase of a request, connecting, sending, receiving,
and not for all of it, so a server that answers byte by byte may take longer), the refresh skew (120 s, four units) is at least three times that, and a
token lives longer than two calls (about 30 minutes, copilot.py:10).

## 3. The runs

State counts are what TLC reports (after symmetry where the cfg uses it).

| run | question | bounds | distinct states |
|---|---|---|---|
| `ApiConcurrent` | Does the gate hold whatever interleaves, lags and crashes? Is `IInv` an invariant? Is `ApprovalGate` implemented? | 1 workflow, 3 calls at once, 3 approvals, 2 plans, 4 unsaved results, 1 crash | 290 444 |
| `ApiSerial` | Calls one after the other: is a repeated call without effect, is the report the one that was approved, does the row agree with the thread, is `ThreadLifecycle` implemented, is every call answered and every grant completed? | 2 workflows, 3 calls, no crash, fair | 31 846 |
| `DevFailures` | start() and approve() on a thread in *any* state, tools that fail, crashes: is what is committed as the gates left it, and approved, and is what is under review green and current? | 3 calls, 2 diffs, 3 attempts, 7 LLM calls, 2 crashes | 913 638 |
| `DevConcurrent` | Overlapping calls on one thread: `IInv` and the overshoot of the LLM budget | 2 calls at once, 2 attempts, 5 LLM calls | 1 898 542 |
| `DevSerial` | Nothing raises, parked runs are approved: recorded once, committed once, exact rewards, worktree released, every call ends, and is `TaskLifecycle` implemented? | 3 calls, 3 attempts, no LLM budget, fair | 110 550 |
| `TokenThreads` | Threads that refresh one token at once: is a token handed out, or a chat built, that has expired? Is `IInv` an invariant? | 3 threads, 3 tokens, 5 units | 3 101 952 |
| `SharedRuns` | Runs that share a repository, a memory and perhaps a short id: do they collide, is a commit lost, a lesson, is a reward given to the wrong one, whatever is called again? Is `IInv` an invariant? | 4 runs, 2 to a short id, 3 calls besides the approval of parked runs, 2 lesson ids, 1 reflection, 1 retrieved, 1 crash, both memories | 1 301 532 |
| `LlmSteps` | A login and LLM steps against the clock: is every tool call answered, are requests bounded, when is one rejected, does anything but a tool hang, does the login see the user? Is `IInv` an invariant? | 2 steps, 2 rounds, 2 tool calls an answer, 2 logins, 9 units | 425 939 |

The four runs that end in a violation are in section 5.

**Why these bounds.** A request is used for one call, so the number of calls bounds
the run; `|Approvals| = |Requests|` because a call parks a thread at most once, so
ids never run out. What a concurrent bug needs is here: two calls that race, and a
third that sees what they left. One workflow suffices where calls are concurrent
(no action of one workflow reads another's rows; `ApiSerial` has two so that a mixed-up
id would show). `MaxUnsaved = 4` lets all four nodes run before one checkpoint
is written; smaller values hide the crash that loses everything, after which an
approve finds a thread that has no checkpoint. Two crashes (`DevFailures`) suffice for
a crash in the recovery from a crash. Three attempts give a first, a middle and a last one; seven
LLM calls end in the middle of the loop (3, then 3 per attempt), five between a look
at the budget and the next. Two diffs tell a leftover from the diff under review.
`Lifetime = 4`, skew 3, `Patience = 1`: the least skew that the assumption allows, and a
lifetime one unit longer, so that a token is handed out again in one unit and has to be
replaced in the next.
In `SharedRuns` three calls are three runs that meet, or two of which one is started or
approved again, in every combination of short ids; a run, its approval after it raised or
ended, and one more such approval rewards a lesson twice. One reflection and one retrieved
lesson leave room for a lesson of another run next to one's own, and two lesson ids for one
that is taken.
In `LlmSteps` a token lives for 4 units and is replaced 2 before its end, so that 9 units
hold a login that expires and a second one, or a login, a step that outlasts its token, and
the step after it; two rounds of two tool
calls are the least in which a result may be missing, doubled or out of place; the deadline
of 4 with a sleep of 1 or 2 and a request of 1 is met before, at and after its moment.

**Deadlock** is checked in every run. Where everything has been answered, the next-state
relations stutter explicitly (`AllAnswered`, `Quiet`).

**Fairness.** Only `WF(Serve(r))` and `WF(Serve(c))`: a call that was accepted keeps
taking steps. It is what a live server thread does; LLM calls and git subprocesses
either return or raise (their timeouts), and both are steps. In `LlmStep` it is
`WF` of the program's steps and of what Copilot answers, where the HTTP client gives up if
it does not; *not* of `execute`, since a tool call has no timeout. `StepsEnd` therefore
says that nothing but a tool can hold a step, and that is all the code guarantees: the
runtime budget is looked at between nodes only. No fairness is assumed of
clients, who may never approve, nor of crashes. Within a call no branch is forced: a
fair run may see every patch refused and every gate red, so `EveryCallEnds` is about the
budgets of the loop and not about luck. The liveness runs have no crash, because a
crash really does strand a grant (section 5).

**What the properties say** is in the comment over each; the ones to read first:
`HumanGate`, `ParkedOnOwnApproval`, `ReportIsApproved`, `RowFollowsThread`,
`CommitIsGated`, `CommitIsApproved`, `ReviewIsCurrent`, `RecordedOnce`,
`ReturnedIsValid`, `Isolated`, `Delivered`, `CallsAnswered`, `RejectedOnlyLate`. `RecordedOnce`, `RewardedOnce` and `WorktreeReleased` hold where nothing raises and
only parked runs are approved: approve() looks nothing up, and a second one on a run
that ended records the episode again, which no document excludes. `RewardIsOwn` says what
is left then: at most one reward for each episode, none without a completed run, one at
least for a run that got through learn. It is about the database: in the process's memory
an id may be reused for another lesson, which `LessonsKept` allows for and names.
`AuthorizedIsSeen` and `FlowEnds` give what the deadline of the device flow is worth: one
round, of a request and the longest sleep, either way, as long as GitHub does not keep
saying slow_down to a program that does not keep slowing down.

## 4. The proofs

Every safety property that a passing run checks is a theorem, for every value of the
constants, and so are the refinements but for the fairness in them. Nothing is assumed
besides the ASSUMEs of the modules: the sentinels differ from the ids, the bounds are
natural numbers (`ConstantsAssumption`), the set of calls is finite (`DevConstants`), which
only the counting of approves uses; the times of `CopilotToken`, `DeviceFlow` and `LlmStep`
(section 2). Where a property holds only of calls made one at a time, or only while nothing
fails, that is a hypothesis of its theorem, on the constants that the run of that property
gives the same values.

An inductive invariant stands at the end of the module of its component, under "Why", as
a conjunction of named parts. TLC checks `IInv` in a run of each component. The others
were checked by TLC before they were proved: `SerialInv` of `WorkflowApi` within the bounds of
`ApiSerial`, with two plans and up to five calls, `QueuesForward` there with `MaxUnsaved = 4`,
`GrantInv` with a crash besides; `SerialInv` of `DevOrchestrator` within those of `DevFailures`;
`BookInv` within those of `DevSerial`, with and without human review. To repeat that, add the
name to the cfg.

### WorkflowApiProofs

| theorem | statement |
|---|---|
| `Invariance`, `TypeCorrect` | `Spec => []IInv`, `Spec => []TypeOK` |
| `GateHolds` | `Spec => []HumanGate` |
| `CompletionBacked` | `Spec => []CompletionIsBacked` |
| `ParkedOwn` | `Spec => []ParkedOnOwnApproval` |
| `RefinesGate` | `Spec => ImplementsGate` |

`HumanGate` is not inductive. The step that could break it is `finalize_record` of
some request, long after the approve; what has to be known is that *no copy of the
thread*, in the checkpoint, in a request's memory or in its queue of unsaved results,
stands at finalize unless its workflow has an approved approval. That is `ThreadOk`,
and `CheckpointsOk`, `MemoryOk`, `QueuesOk` state it of each place. `update_state`
puts a thread at finalize by routing alone, so the request must carry the grant with
it (`Granted`), which it does because the decision is committed first; that the
decision was on an approval of the same workflow is `Assigned` and the first part of
`Granted`. `Ledger` is the order in which the tables are written, and nothing in them
is ever taken back (`ServeGrows`), so a copy that was right stays right
(`ThreadOkKept`). The concurrency needs no case of its own: a stale copy is just a
copy. This is why the gate holds although nothing is locked.

The refinement maps each step to a step of `ApprovalGate` or a stutter: asking,
deciding, writing the report and recording it are the four steps, everything else
leaves the four sets alone.

### WorkflowSerialProofs

| theorem | statement | hypotheses |
|---|---|---|
| `GrantsOnce` | `Spec => []GrantedOnce` | `MaxActive = 1` |
| `SerialInvariance` | `Spec => []SerialInv` | `MaxActive = 1`, `MaxCrashes = 0` |
| `CompletesOnce` | `Spec => []CompletedOnce` | the same |
| `ReportsApproved` | `Spec => []ReportIsApproved` | the same |
| `RowsFollow` | `Spec => []RowFollowsThread` | the same |
| `NoGrantStranded` | `Spec => []NoStrandedGrant` | the same |
| `RefinesLifecycle` | `Spec => Lifecycle!Safety` | the same |

The hypotheses are needed, and section 5 shows what happens without them: two calls at
once complete a workflow twice, and a crash strands a grant or loses the plan it was for.
A grant is counted once whatever crashes (`GrantInv`): only the request that found the
approval pending writes the decision, and nothing undoes it.

For the rest, what has to be known is where the *latest* thread of a workflow is: between
calls in the checkpoint, during a call in the request's copy, which the checkpoint will
equal when its queue of results is written (`Running`). `LatestOk` then reads the tables off
that thread: no approval was asked for before human_review has run; one waits for an answer
while the thread is parked; one was approved, for the plan the thread holds, when it is due
to finalize; and the completion and the report are there when it is completed. `InProgress`
says it at each point of a call, `Settled` between calls, where the row shows the thread as
well. Since the request in progress is the only one, a step changes one workflow and leaves
the others settled (`MyStep`); each action has one lemma that says what it leaves for its own.

For the refinement, results are written late, and one at a time: a client may see a stage
long after the next node has begun. `QueuesForward` says that each result in the queue shows
the stage of the one before it or the next, so that writing the first is a step of
`ThreadLifecycle` or none.

### DevOrchestratorProofs

| theorem | statement |
|---|---|
| `Invariance`, `TypeCorrect` | `Spec => []IInv`, `Spec => []TypeOK` |
| `BudgetBounded` | `Spec => []BudgetBound`: at most one call over the cap, or three |
| `IterationsBounded` | `Spec => []IterationBound` |
| `CommitsApproved` | `Spec => []CommitIsApproved` |

For the budgets, `CopyOk` says how much any copy of the thread may have spent by its
place in the graph (before implement no attempt; at verify and reflect less than the
cap, since the router has just looked). For the approval of commits: a start() with a
green report left from an earlier run must not reach finalize. It does not, because
a green report implies that the task branch exists (`CopyOk`, last conjunct), so that
git refuses the worktree in bootstrap; a report that becomes green later leads to
human_review, and from there to the end (`CallOk`). So only an approve() commits, and
`CommitsOk` counts those that have: an approve that has committed is past finalize
(`Spent`) and never comes back to it. The count uses the library's theorems on
cardinality, and a crash, which ends many calls at once, only adds to it.

### DevSerialProofs

| theorem | statement | hypotheses |
|---|---|---|
| `SerialInvariance` | `Spec => []SerialInv` | `MaxActive <= 1` |
| `CommitsGated` | `Spec => []CommitIsGated` | the same |
| `ReviewsCurrent` | `Spec => []ReviewIsCurrent` | the same |
| `BookInvariance` | `Spec => []BookInv` | the same, `MaxCrashes = 0`, `~ToolsFail`, `~ApproveUnparked` |
| `RunsRecordedOnce` | `Spec => []RecordedOnce` | the same |
| `RunsRewardedOnce` | `Spec => []RewardedOnce` | the same |
| `WorktreesReleased` | `Spec => []WorktreeReleased` | the same |
| `RefinesTask` | `Spec => Task!Safety` | the same, `require_human_review` |

`CommitIsGated` holds of calls made one at a time whatever fails, crashes or is approved, and
it is not obvious: `verify_report` is never reset, so a start() or approve() may carry a green
report of an earlier attempt past files that have changed since. `GreenOk` is why it does not:
a thread that is green, in any copy, stands at bootstrap or from human_review on, where no
node writes files. An attempt that goes on after verify is red (`route_after_verify`), apply
leaves a report that is red, and a start() keeps a green report only as far as bootstrap,
where the branch stops it (`CopyOk` of `IInv`). `CopyIsCurrent` adds that a node finds the
checkpoint in its hands and not an older copy; that is what overlapping calls break.

`BookInv` is about the outside of the graph. By its place, the newest copy of the thread tells
what the repository and the memory hold: nothing before bootstrap (`Fresh`), a branch and
a worktree and nothing else up to finalize (`Underway`), a commit and no episode
at learn if the run was completed (`Learning`), all of it from teardown on (`Closing`). A thread
that a second start() put back to bootstrap (`Lost`) tells nothing any more, but its branch is
there, so that it gets no further and the books stay as they are. The checkpoint may be
behind the call by one result, whose stage comes next (`Advances`): this is the refinement.
A crash, a failure or an approve() of a run that is not parked breaks each of the three
properties: the episode is told again, the worktree stays.

### SharedRunsProofs

| theorem | statement |
|---|---|
| `RepoInvariance` | `Spec => []RepoInv` |
| `RunsIsolated` | `Spec => []Isolated`: for any number of runs and any short ids |
| `DeliveredStays` | `Spec => []Delivered` |

`Isolated` is not inductive: an apply, or a teardown, of one run would change the worktree of
another that has the same short id. That no two runs were given one worktree is `OneOwner`,
which bootstrap keeps because a run with a workspace has its branch and git refuses a branch
that exists; that the new worktree is empty is `CleanWithoutWorktree`. A new branch has no
commits, and what another run delivered under that name would be gone: a completed run was
green, hence had a workspace, hence has a branch (`CompletedIsOver`), so its name is never
free again, and a start() of its own gets no further than bootstrap. All rest on the code
removing no branch, ever.

### SharedLessonsProofs

| theorem | statement |
|---|---|
| `Invariance` | `Spec => []IInv` |
| `LessonsStay` | `Spec => []LessonsKept` |
| `RewardsAreOwn` | `Spec => []RewardIsOwn` |

In the database a lesson is only ever added, under an id that was free, so what a run holds
is what is stored. Rewards are read in one step and written in another, and any other run may
come between; none is lost because no two runs reward one lesson: each rewards those it wrote,
and has one call at a time. `RewardedSoFar` says how far a run has come: what is still
in `todo` has less than its episodes are worth, what is no longer in it has something; a
call that begins learn again adds an episode before it adds a reward. `InTurn` says that
a reward that was read is still the one that is stored. That nothing is earned by a run that
was not completed is `RewardsEarned`, and that its outcome does not change afterwards is
`CompletedIsOver`, by way of the repository.

### CopilotTokenProofs

| theorem | statement |
|---|---|
| `Invariance` | `Spec => []IInv` |
| `ReturnsValid` | `Spec => []ReturnedIsValid` |
| `DriftIsBounded` | `Spec => []DriftBounded` |
| `BuildsValid` | `Spec => BuiltValid`, an action property |

Without a lock the token of one exchange may be stored with the expiry of another. `DriftBounded`
says by how much the provider may then be wrong: both were stored by calls that began at
most `Patience` before, so the expiry it believes is at most twice that ahead of its token's
own. `OutlastsCall` is what a caller needs: whatever a thread has in its hands from its look
at the clock on expires later than its call can last. The skew of three times `Patience` is the
drift and the call together; the lifetime is for a thread that returns the token of another's
exchange.

### LlmStepProofs

| theorem | statement |
|---|---|
| `Invariance` | `Spec => []IInv` |
| `FlowIsTimely`, `AuthorizationIsSeen` | `Spec => []FlowEnds`, `Spec => []AuthorizedIsSeen` |
| `EveryCallAnswered` | `Spec => []CallsAnswered` |
| `RequestsAreBounded` | `Spec => []RequestsBounded` |
| `RejectionIsLate` | `Spec => []RejectedOnlyLate` |

`FlowInv`: a sleep ends within a round of the last look at the clock, and, unless the last
reply was a slow_down, of every authorization that no reply has had to know of; the next look sees it or comes after
the deadline. `ConversationInOrder`: while the tools run, the messages after the last answer
are the results of its first calls and `todo` is the rest of them, in order; otherwise each
call of each answer has its results right behind it. `RequestsCounted`: the answers are as many
as the rounds, one more while the tools run. `ChatIsFresh`: a step starts with a token that
outlasts the refresh skew, and keeps it.

### Only model-checked

Liveness (`EveryCallAnswered` of `WorkflowApi`, `GrantCompletes`, `EveryCallEnds`, `StepsEnd`, and the
fairness in `ThreadLifecycle` and `TaskLifecycle`) and anything with ENABLED are outside the
prover's reach. They are checked in `ApiSerial`, `DevSerial` and `LlmSteps`. The models have no
recursive operator.

## 5. Where code and documents disagree

Four have a run that checks the one statement and ends in a violation.

- `ApiRacingApprovals` / `CompletedOnce`. A resume that arrives while an approve is
  at finalize loads the checkpoint update_state has written, and finalizes as well: two
  workflow_completed events, two artifact rows. The smoke test promises that resuming
  re-executes no completed node; it holds of calls made one at a time (`ApiSerial`).
- `ApiCrashedApproval` / `NoStrandedGrant`. The approval is committed, then the thread
  is updated; a crash in between leaves a workflow that can be neither approved (409)
  nor resumed, where usage.md says that a restart mid-run continues where it left off.
- `DevUnverifiedFiles` / `CommitIsVerified`. The gates are given the files the LLM names with
  its last diff (`verify.py:37`); the commit takes the whole worktree, where the diffs of
  rejected attempts pile up (`workspace.py:132`). So what gets committed need not have been
  seen by any gate, and it is the LLM that decides, where dev_orchestrator.md:9-10 says that
  deterministic tools do. What does hold is that nothing in the worktree changed after the
  gates ran (`CommitIsGated`).
- `TokenRotation` / `ChatRotates`. Two threads in chat() leave the older chat recorded under the
  newer token; later calls are handed it after its token expired, until the next refresh.

The others are stated here only; the property named shows what the code does instead.

- A crash may lose a plan whose approval was committed: the checkpoints of plan and verify
  are still on their way, the thread goes back before the plan, and approving it reports no
  plan or another one. `ReportIsApproved`, which holds without a crash (`ApiSerial`), is
  violated in one workflow with `MaxActive = 1`, `MaxUnsaved = 4` and `MaxCrashes = 1`. The
  *gate* holds (`HumanGate`, proved): something of this workflow was approved. Same line
  of usage.md as `ApiCrashedApproval`.
- `human_review.py:15` speaks of human approval of the verified diff. The state under review has
  the last diff only; a diff applied by a rejected attempt is committed with it.
- `config.py:60` calls `max_llm_calls` a hard cap on the LLM calls of a run. It is first
  looked at after three, and may be exceeded by one later (`BudgetBound`, proved); and a
  call it counts may be `max_tool_steps + 1` requests (`RequestsBounded`).
- `docs/dev_orchestrator.md:95`, the docstring of `learn.py`, `memory.py:18` and
  `schemas.py:56` say that lessons are rewarded when they were applied with success. Only the
  lessons a run wrote itself are, not the ones it retrieved (`RewardIsOwn`).
- `docs/dev_orchestrator.md:66`: parallel runs never collide. They never work in one
  worktree (`Isolated`), but the second of two runs whose ids begin alike is refused, also
  when the first has long ended.
- `docs/dev_orchestrator.md:128`: the provider refreshes the token before expiry. So it does
  when it is asked; a step asks once, and one that lasts longer than the skew is rejected
  by Copilot (`RejectedOnlyLate`), which ends the run.
- `factory.py:44`: the provider runs the device flow. Nothing calls it; somebody has to
  (`copilot.py:141` says so).

## 6. What is not covered

- Strings, prompts, wording, and the scores by which lessons and skills are ranked: any `k`
  lessons may be retrieved. The model of a role, and the response cache, which is LangChain's.
- The instructions and skills read from the worktree, the redaction of log records, the
  migrations and the settings: functions of files and strings, or run once, without a
  step another actor could come between.
- Directories behind the links of a worktree (`vendor/`, `runtime/`, `uploads/`), which parallel
  runs share; branches somebody deletes by hand.
- In `DevOrchestrator` a result is checkpointed before the next node runs; `WorkflowApi` has the lag
  of several results. After a crash, or for an overlapping call, its thread is therefore at most
  one node behind what was done.
- In `SharedRuns` each run has one call at a time. Two approve() calls that overlap on one run
  may read the same reward and lose one of two updates (`memory.py:113`), which `RewardIsOwn`
  does not cover. A node's effect on the repository or the memory and its checkpoint are one
  step there, so that a crash between a commit and its checkpoint is in `DevOrchestrator` only.
- Errors of the database, and of writing the report file, inside a node of `WorkflowApi` are not
  steps of their own: that one of them ends a call is covered as far as it is a `Crash` there,
  which ends all calls.
- The exchange of a token takes no time in `LlmStep`; the races of several threads over it are in
  `CopilotToken`.
- The internals of LangGraph, PostgreSQL, git, GitHub and the MCP servers, modelled from
  how the code uses them. Two server processes on one database are covered as far as they are two
  threads with separate memories; a crash of one of them alone is not.

PROJECT.json gives the reason for each component.

## 7. The plan

Done: the models of all components whose control can be checked, their abstract specifications,
and the proofs of every safety property and of the safety part of the three refinements.

Next, proofs:

1. `SharedRuns` as an abstraction of `DevOrchestrator`: each run of one is a run of the other with
   what its nodes do to the repository and the memory, step by step.
2. `DevOrchestrator` with overlapping calls and `MaxActive` at large: what is left of `GreenOk` when
   the copy a node works on may be behind the checkpoint. `CommitIsApproved` and the budgets
   are proved of them already.
3. `WorkflowApi` with crashes and one call at a time: `RowFollowsThread` up to the writes a crash
   may cut off.
