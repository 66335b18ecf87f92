----------------------- MODULE DevOrchestratorProofs -----------------------
(***************************************************************************)
(* Proofs about DevOrchestrator, for every set of calls, diffs and lessons *)
(* and every value of the configuration: the types, the budgets of the     *)
(* Reflexion loop, and the approval that each commit takes.                *)
(*                                                                         *)
(* IInv is inductive.  A step changes the pc, the op and the copy of the   *)
(* thread of one call only (but for a crash); StepOk says what that call   *)
(* must leave for IInv to survive, and each action is shown to leave it.   *)
(***************************************************************************)
EXTENDS DevOrchestrator, FiniteSetTheorems, TLAPS

-----------------------------------------------------------------------------
(* Types. *)

\* A state of the graph is typed, and so is the thread it is part of.
LEMMA ThreadTyping ==
  ASSUME NEW s \in States, NEW n \in Nodes \cup {"end", "none"}
  PROVE  [state |-> s, next |-> n] \in Threads
  BY DEF Threads

\* A thread that does not exist, or no longer, is typed.
LEMMA NoThreadTyping == Blank \in States /\ NoThread \in Threads
<1>1. Blank \in States
  BY DEF Blank, States, NotOk, Reports
<1>2. QED
  BY <1>1 DEF NoThread, Threads

\* What the graph runs next is a node or the end.
LEMMA NextNodeTyping ==
  ASSUME NEW n \in Nodes, NEW s \in States, NEW late \in BOOLEAN
  PROVE  NextNode(n, s, late) \in Nodes \cup {"end"}
  BY DEF NextNode, Nodes, route_after_apply, route_after_verify,
         route_after_human_review, RetryOrGiveUp

\* The choices for the clock are Booleans.
LEMMA LateTyping == Late \subseteq BOOLEAN
  BY DEF Late

\* A node that returns leaves its call's copy of the thread typed, and advances
\* it as the routers say; the copies of the others stay.
LEMMA AdvanceTyping ==
  ASSUME TypeOK, NEW c \in Calls, NEW n \in Nodes, NEW s \in States, advance(c, n, s)
  PROVE  /\ mem' \in [Calls -> Threads]
         /\ unsaved' \in [Calls -> {"no", "yes", "overtaken"}]
         /\ \E late \in BOOLEAN : mem'[c] = [state |-> s, next |-> NextNode(n, s, late)]
         /\ \A d \in Calls : d # c => mem'[d] = mem[d]
<1>1. PICK late \in Late :
        mem' = [mem EXCEPT ![c] = [state |-> s, next |-> NextNode(n, s, late)]]
  BY DEF advance
<1>2. late \in BOOLEAN
  BY LateTyping
<1>3. [state |-> s, next |-> NextNode(n, s, late)] \in Threads
  BY <1>2, NextNodeTyping, ThreadTyping
<1>4. mem \in [Calls -> Threads] /\ unsaved \in [Calls -> {"no", "yes", "overtaken"}]
  BY DEF TypeOK
<1>5. unsaved' \in [Calls -> {"no", "yes", "overtaken"}]
  BY <1>4 DEF advance
<1>6. QED
  BY <1>1, <1>2, <1>3, <1>4, <1>5

\* The state a call works on is typed.
LEMMA MemTyping ==
  ASSUME TypeOK, NEW c \in Calls
  PROVE  mem[c] \in Threads /\ mem[c].state \in States
  BY DEF TypeOK, Threads

\* A call that leaves is typed, and only its own copy of the thread goes.
LEMMA LeaveTyping ==
  ASSUME TypeOK, NEW c \in Calls, Leave(c)
  PROVE  /\ pc' \in [Calls -> {"idle", "update_write", "load", "run", "provision",
                               "reward", "done"}]
         /\ mem' \in [Calls -> Threads]
         /\ unsaved' \in [Calls -> {"no", "yes", "overtaken"}]
         /\ pc'[c] = "done" /\ mem'[c] = NoThread
         /\ \A d \in Calls : d # c => pc'[d] = pc[d] /\ mem'[d] = mem[d]
  BY NoThreadTyping DEF Leave, TypeOK

-----------------------------------------------------------------------------
(* Routing. *)

\* What runs after each node, as far as the budgets and the review depend on it.
LEMMA NextCases ==
  ASSUME NEW n \in Nodes, NEW s, NEW late
  PROVE  LET m == NextNode(n, s, late)
         IN /\ n = "bootstrap" => m = "load_context"
            /\ n = "load_context" => m = "retrieve"
            /\ n = "retrieve" => m = "analyze"
            /\ n = "analyze" => m = "plan"
            /\ n = "plan" => m = "implement"
            /\ n = "implement" => m = "apply"
            /\ n = "apply" => \/ m = "finalize"
                              \/ m = "verify" /\ ~over_budget(s, late)
                              \/ m = "reflect" /\ ~over_budget(s, late)
                                   /\ s.iteration < max_iterations
            /\ n = "verify" => \/ m = "human_review"
                               \/ m = "finalize" /\ ~_gates_ok(s)
                               \/ m = "reflect" /\ ~over_budget(s, late) /\ ~_gates_ok(s)
                                    /\ s.iteration < max_iterations
            /\ n = "reflect" => m = "implement"
            /\ n = "human_review" => m \in {"end", "finalize"}
            /\ n = "human_review" /\ s.status = "waiting_for_human" => m = "end"
            /\ n = "finalize" => m = "learn"
            /\ n = "learn" => m = "teardown"
            /\ n = "teardown" => m = "end"
  BY Zenon DEF NextNode, Nodes, route_after_apply, route_after_verify,
               route_after_human_review, RetryOrGiveUp

\* What the state that node n leaves has spent.
Left(n, s) ==
  /\ n \in {"bootstrap", "load_context", "retrieve", "analyze", "plan"} => s.iteration = 0
  /\ n = "reflect" => s.iteration < max_iterations
  /\ s.iteration <= 1 \/ s.iteration <= max_iterations
  /\ max_llm_calls # 0 =>
       /\ n \in {"bootstrap", "load_context", "retrieve"} => s.llm_calls = 0
       /\ n = "analyze" => s.llm_calls <= 1
       /\ n = "plan" => s.llm_calls <= 2
       /\ n = "reflect" => s.llm_calls <= max_llm_calls
       /\ s.llm_calls <= 3 \/ s.llm_calls <= max_llm_calls + 1

\* The routers go on only within the budgets.
LEMMA Routed ==
  ASSUME NEW n \in Nodes, NEW s \in States, NEW late \in BOOLEAN, NEW br \in BOOLEAN,
         Left(n, s), _gates_ok(s) => br
  PROVE  CopyOk([state |-> s, next |-> NextNode(n, s, late)], br)
<1> DEFINE m == NextNode(n, s, late)
<1>1. s.iteration \in Nat /\ s.llm_calls \in Nat
  BY DEF States
<1>2. /\ m \in {"bootstrap", "load_context", "retrieve", "analyze", "plan"}
           => n \in {"bootstrap", "load_context", "retrieve", "analyze"}
      /\ m = "implement" => n \in {"plan", "reflect"}
      /\ m \in {"bootstrap", "load_context", "retrieve", "analyze"}
           => n \in {"bootstrap", "load_context", "retrieve"}
      /\ m = "plan" => n = "analyze"
      /\ m = "reflect" => s.iteration < max_iterations
      /\ m \in {"verify", "reflect"} => ~over_budget(s, late)
  BY NextCases DEF Nodes
<1>3. m \in {"verify", "reflect"} /\ max_llm_calls # 0 => s.llm_calls < max_llm_calls
  BY <1>1, <1>2, DevConstants DEF over_budget
<1>4. \A x : [state |-> s, next |-> x].state = s /\ [state |-> s, next |-> x].next = x
  OBVIOUS
<1> HIDE DEF m
<1>5. CopyOk([state |-> s, next |-> m], br)
  BY <1>1, <1>2, <1>3, <1>4, DevConstants DEF CopyOk, Left
<1>6. QED
  BY <1>5 DEF m

\* No thread at all is within the budgets.
LEMMA NoThreadOk == ASSUME NEW br PROVE CopyOk(NoThread, br)
  BY DevConstants DEF CopyOk, NoThread, Blank, NotOk, _gates_ok

-----------------------------------------------------------------------------
(* What a step of one call has to leave. *)

\* The budgets, the branch and the standing of the call; the others stay.
LocalOk(c) ==
  /\ \A d \in Calls : d # c => pc'[d] = pc[d] /\ op'[d] = op[d] /\ mem'[d] = mem[d]
  /\ (branch => branch') /\ (worktree' => branch')
  /\ CopyOk(ckpt', branch') /\ CopyOk(mem'[c], branch')
  /\ CallOk(pc'[c], op'[c], mem'[c])
  /\ Spent(pc[c], op[c], mem[c]) => Spent(pc'[c], op'[c], mem'[c])

\* A commit takes an approve() that had not spent its own.
CommitStep(c) ==
  \/ commits' = commits
  \/ /\ Len(commits') = Len(commits) + 1
     /\ require_human_review => /\ ~Spent(pc[c], op[c], mem[c])
                                /\ Spent(pc'[c], op'[c], mem'[c])

\* A copy of the thread stays in order as branches are made.
LEMMA CopyKept ==
  ASSUME NEW t, NEW b \in BOOLEAN, NEW b2 \in BOOLEAN, b => b2, CopyOk(t, b)
  PROVE  CopyOk(t, b2)
  BY DEF CopyOk

\* The calls that are past their commit only become more.
LEMMA CommitsKept ==
  ASSUME IInv, TypeOK', NEW c \in Calls, LocalOk(c), CommitStep(c)
  PROVE  CommitsOk'
<1> DEFINE Old == {d \in Calls : Spent(pc[d], op[d], mem[d])}
           New == {d \in Calls : Spent(pc'[d], op'[d], mem'[d])}
<1>1. IsFiniteSet(Old) /\ IsFiniteSet(New)
  BY DevConstants, FS_Subset
<1>2. Old \subseteq New
  BY DEF LocalOk
<1>3. Cardinality(Old) \in Nat /\ Cardinality(New) \in Nat
      /\ Cardinality(Old) <= Cardinality(New)
  BY <1>1, <1>2, FS_CardinalityType, FS_Subset
<1>4. Len(commits) \in Nat /\ Len(commits') \in Nat
  BY DEF IInv, TypeOK
<1>5. require_human_review => Len(commits) <= Cardinality(Old)
  BY DEF IInv, CommitsOk
<1>6. require_human_review => Len(commits') <= Cardinality(New)
  <2>1. CASE commits' = commits
    BY <2>1, <1>3, <1>4, <1>5
  <2>2. CASE commits' # commits /\ require_human_review
    <3>1. c \notin Old /\ c \in New /\ Len(commits') = Len(commits) + 1
      BY <2>2 DEF CommitStep
    <3>2. IsFiniteSet(Old \cup {c}) /\ Cardinality(Old \cup {c}) = Cardinality(Old) + 1
      BY <1>1, <3>1, FS_AddElement
    <3>3. Old \cup {c} \subseteq New
      BY <1>2, <3>1
    <3>4. Cardinality(Old \cup {c}) <= Cardinality(New)
      BY <1>1, <3>3, FS_Subset
    <3>5. QED
      BY <1>3, <1>4, <1>5, <2>2, <3>1, <3>2, <3>4
  <2>3. QED
    BY <2>1, <2>2
<1>7. QED
  BY <1>6 DEF CommitsOk

\* A step that leaves what it has to keeps the invariant.
LEMMA StepKeeps ==
  ASSUME IInv, TypeOK', NEW c \in Calls, LocalOk(c), CommitStep(c)
  PROVE  IInv'
<1>1. branch \in BOOLEAN /\ branch' \in BOOLEAN
  BY DEF IInv, TypeOK
<1>2. CopiesOk'
  <2>1. ASSUME NEW d \in Calls PROVE CopyOk(mem'[d], branch')
    BY <1>1, <2>1, CopyKept DEF IInv, CopiesOk, LocalOk
  <2>2. QED
    BY <2>1 DEF CopiesOk, LocalOk
<1>3. CallsOk'
  BY DEF IInv, CallsOk, LocalOk
<1>4. WorktreeOk'
  BY DEF WorktreeOk, LocalOk
<1>5. QED
  BY <1>2, <1>3, <1>4, CommitsKept DEF IInv

\* A node that returns keeps its call within the budgets.  A start() that was
\* green, or is now, goes to its review and no further.
LEMMA AdvanceLocal ==
  ASSUME IInv, NEW c \in Calls, NEW n \in Nodes, NEW s \in States,
         pc[c] \in {"run", "provision", "reward"}, mem[c].next = n, advance(c, n, s),
         pc'[c] = "run", \A d \in Calls : d # c => pc'[d] = pc[d],
         op' = op, ckpt' = ckpt, branch' = branch, worktree' => worktree,
         Left(n, s), _gates_ok(s) => branch,
         require_human_review /\ op[c] = "start" /\ _gates_ok(s) =>
           n = "verify" \/ (n = "human_review" /\ s.status = "waiting_for_human")
  PROVE  LocalOk(c)
<1>1. PICK late \in BOOLEAN : mem'[c] = [state |-> s, next |-> NextNode(n, s, late)]
  BY AdvanceTyping DEF IInv
<1>2. \A d \in Calls : d # c => mem'[d] = mem[d]
  BY AdvanceTyping DEF IInv
<1>3. branch \in BOOLEAN
  BY DEF IInv, TypeOK
<1>4. CopyOk(mem'[c], branch')
  BY <1>1, <1>3, Routed
<1>5. mem'[c].state = s /\ mem'[c].next = NextNode(n, s, late)
  BY <1>1
<1>6. require_human_review /\ op[c] = "start" /\ _gates_ok(s)
        => mem'[c].next \in {"human_review", "end"}
  BY <1>5, NextCases
<1>7. CallOk(pc'[c], op'[c], mem'[c])
  BY <1>5, <1>6 DEF CallOk, IInv, CallsOk
<1>8. n \in {"learn", "teardown"} => mem'[c].next \in {"teardown", "end"}
  BY <1>5, NextCases
<1>9. Spent(pc[c], op[c], mem[c]) => Spent(pc'[c], op'[c], mem'[c])
  BY <1>8 DEF Spent, Nodes
<1>10. CopyOk(ckpt', branch')
  BY DEF IInv, CopiesOk
<1>11. worktree' => branch'
  BY DEF IInv, WorktreeOk
<1>12. QED
  BY <1>2, <1>4, <1>7, <1>9, <1>10, <1>11 DEF LocalOk

\* A call that leaves takes its copy of the thread with it.
LEMMA LeaveLocal ==
  ASSUME IInv, NEW c \in Calls, Leave(c), pc[c] # "idle",
         op' = op, ckpt' = ckpt, branch' = branch, worktree' => worktree
  PROVE  LocalOk(c)
<1>1. /\ pc'[c] = "done" /\ mem'[c] = NoThread
      /\ \A d \in Calls : d # c => pc'[d] = pc[d] /\ mem'[d] = mem[d]
  BY LeaveTyping DEF IInv
<1>2. CallOk(pc'[c], op'[c], mem'[c])
  BY <1>1 DEF CallOk, IInv, CallsOk
<1>3. Spent(pc[c], op[c], mem[c]) => Spent(pc'[c], op'[c], mem'[c])
  BY <1>1 DEF Spent
<1>4. CopyOk(ckpt', branch') /\ CopyOk(mem'[c], branch')
  BY <1>1, NoThreadOk DEF IInv, CopiesOk
<1>5. worktree' => branch'
  BY DEF IInv, WorktreeOk
<1>6. QED
  BY <1>1, <1>2, <1>3, <1>4, <1>5 DEF LocalOk

-----------------------------------------------------------------------------
(* The nodes. *)

\* The call at which a node may run.
LEMMA Ready ==
  ASSUME IInv, NEW c \in Calls, NEW n \in Nodes, AtNode(c, n)
  PROVE  /\ pc[c] = "run" /\ mem[c].next = n
         /\ mem[c].state \in States
         /\ CopyOk(mem[c], branch)
         /\ require_human_review /\ op[c] = "start" /\ _gates_ok(mem[c].state)
              => n \in {"bootstrap", "human_review"}
         /\ branch \in BOOLEAN
<1>1. pc[c] = "run" /\ mem[c].next = n
  BY DEF AtNode
<1>2. mem[c].state \in States
  BY MemTyping DEF IInv
<1>3. CopyOk(mem[c], branch) /\ CallOk(pc[c], op[c], mem[c])
  BY DEF IInv, CopiesOk, CallsOk
<1>4. QED
  BY <1>1, <1>2, <1>3 DEF CallOk, Nodes, IInv, TypeOK

\* What an ordinary node leaves as it was: whose run it is, and how far it has come.
SameRun(s, t) ==
  /\ t.known = s.known /\ t.workspace = s.workspace
  /\ t.outcome = s.outcome /\ t.pending = s.pending

\* Counting an LLM call changes nothing but the count.
LEMMA CallCounted ==
  ASSUME NEW s \in States
  PROVE  /\ record_llm_call(s) \in States
         /\ record_llm_call(s).llm_calls = s.llm_calls + 1
         /\ record_llm_call(s).iteration = s.iteration
         /\ record_llm_call(s).verify_report = s.verify_report
         /\ record_llm_call(s).pending = s.pending
         /\ SameRun(s, record_llm_call(s))
  BY DEF record_llm_call, States, SameRun

\* The files the LLM names, after its analysis or with its diff, count nothing.
LEMMA FilesNamed ==
  ASSUME NEW s \in States, NEW files \in SUBSET Files
  PROVE  LET t == [s EXCEPT !.target_files = files]
         IN /\ t \in States /\ t.iteration = s.iteration
            /\ t.llm_calls = s.llm_calls /\ t.verify_report = s.verify_report
            /\ t.pending = s.pending /\ SameRun(s, t)
  BY DEF States, SameRun

\* An attempt is counted, with the diff it proposes.
LEMMA AttemptCounted ==
  ASSUME NEW s \in States, NEW d \in Diffs \cup {EmptyDiff}, NEW files \in SUBSET Files
  PROVE  LET t == [s EXCEPT !.diff = d, !.iteration = @ + 1, !.target_files = files]
         IN /\ t \in States /\ t.iteration = s.iteration + 1
            /\ t.llm_calls = s.llm_calls /\ t.verify_report = s.verify_report
            /\ t.pending = s.pending /\ SameRun(s, t)
<1>1. s.iteration + 1 \in Nat
  BY DEF States
<1>2. QED
  BY <1>1 DEF States, SameRun

\* A node that writes neither the worktree nor the memory.
LEMMA PlainNode ==
  ASSUME IInv, NEW c \in Calls, NEW n \in Nodes, AtNode(c, n),
         NEW s \in States, advance(c, n, s), Left(n, s), _gates_ok(s) => branch,
         require_human_review /\ op[c] = "start" /\ _gates_ok(s) =>
           n = "verify" \/ (n = "human_review" /\ s.status = "waiting_for_human"),
         UNCHANGED <<ckpt, pc, op, git, memory, crashes>>
  PROVE  TypeOK' /\ LocalOk(c) /\ CommitStep(c)
<1>1. pc[c] = "run" /\ mem[c].next = n
  BY Ready
<1>2. mem' \in [Calls -> Threads] /\ unsaved' \in [Calls -> {"no", "yes", "overtaken"}]
  BY AdvanceTyping DEF IInv
<1>3. TypeOK'
  BY <1>2 DEF IInv, TypeOK, git, memory
<1>4. LocalOk(c)
  BY <1>1, AdvanceLocal DEF git
<1>5. QED
  BY <1>3, <1>4 DEF CommitStep, git

\* The nodes that only change the state of the thread.
LEMMA PlainNodes ==
  ASSUME IInv, NEW c \in Calls,
         load_context(c) \/ retrieve(c) \/ analyze(c) \/ plan(c) \/ implement(c)
           \/ human_review(c)
  PROVE  TypeOK' /\ LocalOk(c) /\ CommitStep(c)
<1>0. /\ \A n \in Nodes : AtNode(c, n) => /\ mem[c].state \in States
                                            /\ CopyOk(mem[c], branch) /\ mem[c].next = n
      /\ mem[c].state.iteration \in Nat /\ mem[c].state.llm_calls \in Nat
  BY Ready, MemTyping DEF States, IInv
<1>1. CASE load_context(c)
  <2>1. AtNode(c, "load_context") /\ "load_context" \in Nodes
        /\ advance(c, "load_context", mem[c].state)
    BY <1>1 DEF load_context, Nodes
  <2>2. Left("load_context", mem[c].state)
    BY <1>0, <2>1, DevConstants DEF CopyOk, Left
  <2>3. _gates_ok(mem[c].state) => branch
    BY <1>0, <2>1 DEF CopyOk
  <2>4. UNCHANGED <<ckpt, pc, op, git, memory, crashes>>
    BY <1>1 DEF load_context
  <2>5. QED
    BY <1>0, <2>1, <2>2, <2>3, <2>4, Ready, PlainNode
<1>2. CASE retrieve(c)
  <2>1. PICK ls \in SUBSET stored : advance(c, "retrieve", [mem[c].state EXCEPT !.retrieved = ls])
    BY <1>2 DEF retrieve, retrieve_lessons
  <2> DEFINE s == [mem[c].state EXCEPT !.retrieved = ls]
  <2>2. AtNode(c, "retrieve") /\ "retrieve" \in Nodes
        /\ UNCHANGED <<ckpt, pc, op, git, memory, crashes>>
    BY <1>2 DEF retrieve, retrieve_lessons, Nodes
  <2>3. ls \subseteq Lessons
    BY DEF IInv, TypeOK
  <2>4. /\ s \in States /\ s.iteration = mem[c].state.iteration
        /\ s.llm_calls = mem[c].state.llm_calls
        /\ s.verify_report = mem[c].state.verify_report
    BY <1>0, <2>2, <2>3 DEF States
  <2>5. advance(c, "retrieve", s)
    BY <2>1
  <2> HIDE DEF s
  <2>6. Left("retrieve", s) /\ (_gates_ok(s) <=> _gates_ok(mem[c].state))
        /\ (_gates_ok(s) => branch)
    BY <1>0, <2>2, <2>4, DevConstants DEF CopyOk, Left, _gates_ok
  <2>7. QED
    BY <2>2, <2>4, <2>5, <2>6, Ready, PlainNode
<1>3. CASE analyze(c)
  <2>1. PICK files \in SUBSET Files :
          advance(c, "analyze", [record_llm_call(mem[c].state) EXCEPT !.target_files = files])
    BY <1>3 DEF analyze
  <2> DEFINE s == [record_llm_call(mem[c].state) EXCEPT !.target_files = files]
  <2>2. AtNode(c, "analyze") /\ "analyze" \in Nodes
        /\ UNCHANGED <<ckpt, pc, op, git, memory, crashes>>
    BY <1>3 DEF analyze, Nodes
  <2>3. /\ s \in States /\ s.iteration = mem[c].state.iteration
        /\ s.llm_calls = mem[c].state.llm_calls + 1
        /\ s.verify_report = mem[c].state.verify_report
    <3>1. PICK b \in States : b = record_llm_call(mem[c].state)
      BY <1>0, <2>2, CallCounted
    <3>2. /\ b.llm_calls = mem[c].state.llm_calls + 1
          /\ b.iteration = mem[c].state.iteration
          /\ b.verify_report = mem[c].state.verify_report
      BY <1>0, <2>2, <3>1, CallCounted
    <3>3. s = [b EXCEPT !.target_files = files]
      BY <3>1
    <3> HIDE DEF s
    <3>4. QED
      BY <3>2, <3>3, FilesNamed
  <2>4. advance(c, "analyze", s)
    BY <2>1
  <2> HIDE DEF s
  <2>5. Left("analyze", s) /\ (_gates_ok(s) <=> _gates_ok(mem[c].state))
        /\ (_gates_ok(s) => branch)
    BY <1>0, <2>2, <2>3, DevConstants DEF CopyOk, Left, _gates_ok
  <2>6. QED
    BY <2>2, <2>3, <2>4, <2>5, Ready, PlainNode
<1>4. CASE plan(c)
  <2> DEFINE s == record_llm_call(mem[c].state)
  <2>1. AtNode(c, "plan") /\ advance(c, "plan", s) /\ "plan" \in Nodes
        /\ UNCHANGED <<ckpt, pc, op, git, memory, crashes>>
    BY <1>4 DEF plan, Nodes
  <2>2. /\ s \in States /\ s.iteration = mem[c].state.iteration
        /\ s.llm_calls = mem[c].state.llm_calls + 1
        /\ s.verify_report = mem[c].state.verify_report
    BY <1>0, <2>1, CallCounted
  <2> HIDE DEF s
  <2>3. Left("plan", s) /\ (_gates_ok(s) <=> _gates_ok(mem[c].state)) /\ (_gates_ok(s) => branch)
    BY <1>0, <2>1, <2>2, DevConstants DEF CopyOk, Left, _gates_ok
  <2>4. QED
    BY <2>1, <2>2, <2>3, Ready, PlainNode
<1>5. CASE implement(c)
  <2>1. PICK d \in Diffs \cup {EmptyDiff}, touched \in SUBSET Files :
          advance(c, "implement",
                  [record_llm_call(mem[c].state) EXCEPT
                     !.diff = d, !.iteration = @ + 1,
                     !.target_files = IF touched = {} THEN @ ELSE touched])
    BY <1>5 DEF implement
  <2> DEFINE s == [record_llm_call(mem[c].state) EXCEPT
                     !.diff = d, !.iteration = @ + 1,
                     !.target_files = IF touched = {} THEN @ ELSE touched]
  <2>2. AtNode(c, "implement") /\ "implement" \in Nodes
        /\ UNCHANGED <<ckpt, pc, op, git, memory, crashes>>
    BY <1>5 DEF implement, Nodes
  <2>3. /\ s \in States /\ s.iteration = mem[c].state.iteration + 1
        /\ s.llm_calls = mem[c].state.llm_calls + 1
        /\ s.verify_report = mem[c].state.verify_report
    <3>1. PICK b \in States : b = record_llm_call(mem[c].state)
      BY <1>0, <2>2, CallCounted
    <3>2. /\ b.llm_calls = mem[c].state.llm_calls + 1
          /\ b.iteration = mem[c].state.iteration
          /\ b.verify_report = mem[c].state.verify_report
      BY <1>0, <2>2, <3>1, CallCounted
    <3>3. s = [b EXCEPT !.diff = d, !.iteration = @ + 1,
                        !.target_files = IF touched = {} THEN @ ELSE touched]
      BY <3>1
    <3> HIDE DEF s
    <3>4. /\ s \in States /\ s.iteration = b.iteration + 1
          /\ s.llm_calls = b.llm_calls /\ s.verify_report = b.verify_report
      <4>1. PICK files \in SUBSET Files :
              files = IF touched = {} THEN b.target_files ELSE touched
        BY DEF States
      <4>2. s = [b EXCEPT !.diff = d, !.iteration = @ + 1, !.target_files = files]
        BY <3>3, <4>1
      <4>3. LET t == [b EXCEPT !.diff = d, !.iteration = @ + 1, !.target_files = files]
            IN /\ t \in States /\ t.iteration = b.iteration + 1
               /\ t.llm_calls = b.llm_calls /\ t.verify_report = b.verify_report
               /\ t.pending = b.pending /\ SameRun(b, t)
        BY AttemptCounted, Zenon
      <4>4. QED
        BY <4>2, <4>3, Zenon
    <3>5. QED
      BY <3>2, <3>4
  <2>4. advance(c, "implement", s)
    BY <2>1
  <2> HIDE DEF s
  <2>5. Left("implement", s) /\ (_gates_ok(s) <=> _gates_ok(mem[c].state))
        /\ (_gates_ok(s) => branch)
    BY <1>0, <2>2, <2>3, DevConstants DEF CopyOk, Left, _gates_ok
  <2>6. QED
    BY <2>2, <2>3, <2>4, <2>5, Ready, PlainNode
<1>6. CASE human_review(c)
  <2> DEFINE old == mem[c].state
             s == IF require_human_review
                    THEN [old EXCEPT !.status = "waiting_for_human", !.pending = TRUE]
                    ELSE [old EXCEPT !.status = "running"]
  <2>1. AtNode(c, "human_review") /\ "human_review" \in Nodes
        /\ advance(c, "human_review", s) /\ UNCHANGED <<ckpt, pc, op, git, memory, crashes>>
    BY <1>6 DEF human_review, Nodes
  <2>2. /\ s \in States /\ s.iteration = old.iteration /\ s.llm_calls = old.llm_calls
        /\ s.verify_report = old.verify_report
        /\ require_human_review => s.status = "waiting_for_human"
    BY <1>0, <2>1 DEF States
  <2> HIDE DEF s
  <2>3. Left("human_review", s) /\ (_gates_ok(s) => branch)
    BY <1>0, <2>1, <2>2, DevConstants DEF CopyOk, Left, _gates_ok
  <2>4. QED
    BY <2>1, <2>2, <2>3, PlainNode
<1>7. QED
  BY <1>1, <1>2, <1>3, <1>4, <1>5, <1>6

\* A node that may write the worktree or the memory.
LEMMA BusyNode ==
  ASSUME IInv, NEW c \in Calls, NEW n \in Nodes, AtNode(c, n),
         NEW s \in States, advance(c, n, s), Left(n, s), _gates_ok(s) => branch,
         require_human_review /\ op[c] = "start" /\ _gates_ok(s) => n = "verify",
         UNCHANGED <<ckpt, pc, op, branch>>, worktree' => worktree
  PROVE  /\ LocalOk(c)
         /\ mem' \in [Calls -> Threads]
         /\ unsaved' \in [Calls -> {"no", "yes", "overtaken"}]
<1>1. pc[c] = "run" /\ mem[c].next = n
  BY Ready
<1>2. mem' \in [Calls -> Threads] /\ unsaved' \in [Calls -> {"no", "yes", "overtaken"}]
  BY AdvanceTyping DEF IInv
<1>3. LocalOk(c)
  BY <1>1, AdvanceLocal
<1>4. QED
  BY <1>2, <1>3

\* What a node at which a call stands starts from.
LEMMA Budgeted ==
  ASSUME IInv, NEW c \in Calls, NEW n \in Nodes, AtNode(c, n),
         NEW s \in States, s.iteration = mem[c].state.iteration,
         n \notin {"bootstrap", "load_context", "retrieve", "analyze", "plan", "implement"},
         \/ s.llm_calls = mem[c].state.llm_calls /\ n # "reflect"
         \/ s.llm_calls = mem[c].state.llm_calls + 1 /\ n \in {"verify", "reflect"}
  PROVE  Left(n, s)
<1>1. mem[c].state.iteration \in Nat /\ mem[c].state.llm_calls \in Nat
  BY MemTyping DEF States, IInv
<1>2. CopyOk(mem[c], branch) /\ mem[c].next = n
  BY Ready
<1>3. QED
  BY <1>1, <1>2, DevConstants DEF CopyOk, Left

\* Applying a diff, whether git takes it or not.
LEMMA ApplyStep ==
  ASSUME IInv, NEW c \in Calls, apply(c)
  PROVE  TypeOK' /\ LocalOk(c) /\ CommitStep(c)
<1> DEFINE old == mem[c].state
<1>1. /\ AtNode(c, "apply") /\ "apply" \in Nodes
      /\ UNCHANGED <<ckpt, pc, op, branch, worktree, commits, memory, crashes>>
  BY DEF apply, Nodes
<1>2. old \in States /\ CopyOk(mem[c], branch)
      /\ (require_human_review /\ op[c] = "start" => ~_gates_ok(old))
  BY <1>1, Ready
<1>3. PICK s \in {[old EXCEPT !.applied = TRUE],
                  [old EXCEPT !.applied = FALSE, !.verify_report = NotOk,
                              !.status = "failed"]} :
        advance(c, "apply", s)
  BY DEF apply
<1>4. /\ s \in States /\ s.iteration = old.iteration /\ s.llm_calls = old.llm_calls
      /\ s.verify_report = old.verify_report \/ s.verify_report = NotOk
  <2>1. NotOk \in Reports
    BY DEF NotOk, Reports
  <2>2. QED
    BY <1>2, <1>3, <2>1 DEF States
<1>5. _gates_ok(s) => _gates_ok(old)
  BY <1>4 DEF _gates_ok, NotOk
<1>6. Left("apply", s) /\ (_gates_ok(s) => branch)
  BY <1>1, <1>2, <1>4, <1>5, Budgeted DEF CopyOk
<1>7. tree' \subseteq Changes
  <2>1. tree \subseteq Changes /\ old.diff \in Diffs \cup {EmptyDiff}
    BY <1>2 DEF IInv, TypeOK, States
  <2>2. QED
    BY <2>1 DEF apply, Changes
<1>8. /\ LocalOk(c)
      /\ mem' \in [Calls -> Threads]
      /\ unsaved' \in [Calls -> {"no", "yes", "overtaken"}]
  BY <1>1, <1>2, <1>3, <1>4, <1>5, <1>6, BusyNode
<1>9. TypeOK'
  BY <1>1, <1>7, <1>8 DEF IInv, TypeOK, memory
<1>10. QED
  BY <1>1, <1>8, <1>9 DEF CommitStep

\* Running the gates: they may rewrite files, and a green report is of the tree
\* they left.
LEMMA VerifyStep ==
  ASSUME IInv, NEW c \in Calls, verify(c)
  PROVE  TypeOK' /\ LocalOk(c) /\ CommitStep(c)
<1>1. /\ AtNode(c, "verify") /\ "verify" \in Nodes
      /\ UNCHANGED <<ckpt, pc, op, branch, worktree, commits, memory, crashes>>
  BY DEF verify, Nodes
<1>2. PICK rewrites \in SUBSET Rewrites, ok \in BOOLEAN :
        /\ ok => worktree
        /\ tree' = Gated(rewrites)
        /\ advance(c, "verify",
             [record_llm_call(mem[c].state) EXCEPT
                !.verify_report = IF ok THEN [ok |-> TRUE, tree |-> Gated(rewrites),
                                              files |-> Paths(mem[c].state)]
                                        ELSE NotOk,
                !.status = IF ok THEN "running" ELSE "failed"])
  BY DEF verify
<1>3. mem[c].state \in States /\ branch \in BOOLEAN
  BY <1>1, Ready
<1>4. tree' \subseteq Changes
  BY <1>2 DEF IInv, TypeOK, Gated, Changes
<1>5. PICK rep \in Reports :
        rep = IF ok THEN [ok |-> TRUE, tree |-> Gated(rewrites),
                          files |-> Paths(mem[c].state)]
                    ELSE NotOk
  <2>1. Paths(mem[c].state) \in SUBSET Files
    BY <1>3 DEF Paths, States
  <2>2. Gated(rewrites) \in SUBSET Changes
    BY <1>2, <1>4
  <2>3. QED
    BY <2>1, <2>2 DEF Reports, NotOk
<1>6. rep.ok => worktree
  BY <1>2, <1>5 DEF NotOk
<1>7. PICK b \in States : b = record_llm_call(mem[c].state)
  BY <1>3, CallCounted
<1>8. b.llm_calls = mem[c].state.llm_calls + 1 /\ b.iteration = mem[c].state.iteration
  BY <1>3, <1>7, CallCounted
<1> DEFINE s == [b EXCEPT !.verify_report = rep, !.status = IF ok THEN "running" ELSE "failed"]
<1>9. /\ s \in States /\ s.llm_calls = mem[c].state.llm_calls + 1
      /\ s.iteration = mem[c].state.iteration /\ s.verify_report = rep
  BY <1>8 DEF States
<1>10. advance(c, "verify", s)
  BY <1>2, <1>5, <1>7
<1> HIDE DEF s
<1>11. Left("verify", s)
  BY <1>1, <1>9, Budgeted
<1>12. _gates_ok(s) => branch
  BY <1>6, <1>9 DEF _gates_ok, IInv, WorktreeOk
<1>13. /\ LocalOk(c)
       /\ mem' \in [Calls -> Threads]
       /\ unsaved' \in [Calls -> {"no", "yes", "overtaken"}]
  BY <1>1, <1>9, <1>10, <1>11, <1>12, BusyNode
<1>14. TypeOK'
  BY <1>1, <1>4, <1>13 DEF IInv, TypeOK, memory
<1>15. QED
  BY <1>1, <1>13, <1>14 DEF CommitStep

\* Storing a lesson and going for another attempt.
LEMMA ReflectStep ==
  ASSUME IInv, NEW c \in Calls, reflect(c)
  PROVE  TypeOK' /\ LocalOk(c) /\ CommitStep(c)
<1>1. /\ AtNode(c, "reflect") /\ "reflect" \in Nodes
      /\ UNCHANGED <<ckpt, pc, op, git, rewards, episodes, crashes>>
  BY DEF reflect, record_lesson, Nodes
<1>2. PICK l \in Lessons \ stored :
        /\ stored' = stored \cup {l}
        /\ advance(c, "reflect",
             [record_llm_call(mem[c].state) EXCEPT
                !.reflections = @ \cup {l}, !.status = "running"])
  BY DEF reflect, record_lesson
<1>3. /\ mem[c].state \in States /\ CopyOk(mem[c], branch)
      /\ (require_human_review /\ op[c] = "start" => ~_gates_ok(mem[c].state))
  BY <1>1, Ready
<1>4. PICK b \in States : b = record_llm_call(mem[c].state)
  BY <1>3, CallCounted
<1>5. /\ b.llm_calls = mem[c].state.llm_calls + 1 /\ b.iteration = mem[c].state.iteration
      /\ b.verify_report = mem[c].state.verify_report
  BY <1>3, <1>4, CallCounted
<1> DEFINE s == [b EXCEPT !.reflections = @ \cup {l}, !.status = "running"]
<1>6. /\ s \in States /\ s.llm_calls = b.llm_calls /\ s.iteration = b.iteration
      /\ s.verify_report = b.verify_report
  BY DEF States
<1>7. advance(c, "reflect", s)
  BY <1>2, <1>4
<1> HIDE DEF s
<1>8. Left("reflect", s)
  BY <1>1, <1>5, <1>6, Budgeted
<1>9. (_gates_ok(s) <=> _gates_ok(mem[c].state)) /\ (_gates_ok(s) => branch)
  BY <1>3, <1>5, <1>6 DEF _gates_ok, CopyOk
<1>10. worktree' => worktree
  BY <1>1 DEF git
<1>11. /\ LocalOk(c)
       /\ mem' \in [Calls -> Threads]
       /\ unsaved' \in [Calls -> {"no", "yes", "overtaken"}]
  BY <1>1, <1>3, <1>6, <1>7, <1>8, <1>9, <1>10, BusyNode DEF git
<1>12. TypeOK'
  BY <1>1, <1>2, <1>11 DEF IInv, TypeOK, git
<1>13. QED
  BY <1>1, <1>11, <1>12 DEF CommitStep, git

\* Removing the worktree, or failing to.
LEMMA TeardownStep ==
  ASSUME IInv, NEW c \in Calls, teardown(c)
  PROVE  TypeOK' /\ LocalOk(c) /\ CommitStep(c)
<1> DEFINE s == mem[c].state
<1>1. /\ AtNode(c, "teardown") /\ "teardown" \in Nodes /\ advance(c, "teardown", s)
      /\ UNCHANGED <<ckpt, pc, op, branch, commits, memory, crashes>>
  BY DEF teardown, Nodes
<1>2. /\ s \in States /\ CopyOk(mem[c], branch)
      /\ (require_human_review /\ op[c] = "start" => ~_gates_ok(s))
  BY <1>1, Ready
<1>3. s.workspace \in BOOLEAN
  BY <1>2 DEF States
<1>4. worktree \in BOOLEAN /\ tree \subseteq Changes
  BY DEF IInv, TypeOK
<1>5. worktree' \in BOOLEAN /\ (worktree' => worktree) /\ tree' \subseteq Changes
  <2>1. worktree' = (worktree /\ ~s.workspace) \/ worktree' = worktree
    BY DEF teardown
  <2>2. tree' = tree \/ tree' = {}
    BY DEF teardown
  <2>3. worktree' \in BOOLEAN
    BY <1>3, <1>4, <2>1, Zenon
  <2>4. worktree' => worktree
    BY <2>1, Zenon
  <2>5. tree' \subseteq Changes
    BY <1>4, <2>2
  <2>6. QED
    BY <2>3, <2>4, <2>5
<1>6. Left("teardown", s)
  BY <1>1, <1>2, Budgeted
<1>7. /\ LocalOk(c)
      /\ mem' \in [Calls -> Threads]
      /\ unsaved' \in [Calls -> {"no", "yes", "overtaken"}]
  BY <1>1, <1>2, <1>5, <1>6, BusyNode DEF CopyOk
<1>8. TypeOK'
  BY <1>1, <1>5, <1>7 DEF IInv, TypeOK, memory
<1>9. QED
  BY <1>1, <1>7, <1>8 DEF CommitStep

\* The commit: only an approve() is there with a green report, and it moves on to
\* learn, past its only commit.
LEMMA FinalizeStep ==
  ASSUME IInv, NEW c \in Calls, finalize(c)
  PROVE  TypeOK' /\ LocalOk(c) /\ CommitStep(c)
<1> DEFINE old == mem[c].state
           result == IF _gates_ok(old) THEN "completed" ELSE "failed"
           s == [old EXCEPT !.outcome = result, !.status = result]
           commit == _gates_ok(old) /\ old.workspace
           change == [tree |-> tree, gated |-> old.verify_report.tree,
                      files |-> old.verify_report.files]
<1>1. /\ AtNode(c, "finalize") /\ "finalize" \in Nodes
      /\ UNCHANGED <<ckpt, pc, op, branch, worktree, tree, memory, crashes>>
      /\ commits' = IF commit THEN Append(commits, change) ELSE commits
  BY DEF finalize, Nodes
<1>2. advance(c, "finalize", s)
  BY DEF finalize
<1>3. /\ old \in States /\ CopyOk(mem[c], branch)
      /\ pc[c] = "run" /\ mem[c].next = "finalize"
      /\ (require_human_review /\ op[c] = "start" => ~_gates_ok(old))
  BY <1>1, Ready
<1>4. result \in {"completed", "failed"}
  OBVIOUS
<1> HIDE DEF result
<1>5. /\ s \in States /\ s.llm_calls = old.llm_calls /\ s.iteration = old.iteration
      /\ s.verify_report = old.verify_report
  BY <1>3, <1>4 DEF States
<1> HIDE DEF s
<1>6. (_gates_ok(s) <=> _gates_ok(old)) /\ (_gates_ok(s) => branch)
  BY <1>3, <1>5 DEF _gates_ok, CopyOk
<1>7. Left("finalize", s)
  BY <1>1, <1>3, <1>5, Budgeted
<1>8. /\ LocalOk(c)
      /\ mem' \in [Calls -> Threads]
      /\ unsaved' \in [Calls -> {"no", "yes", "overtaken"}]
  BY <1>1, <1>2, <1>3, <1>5, <1>6, <1>7, BusyNode
<1> DEFINE Commit == [tree : SUBSET Changes, gated : SUBSET Changes,
                      files : SUBSET Files]
<1>9. commits \in Seq(Commit) /\ tree \in SUBSET Changes
  BY DEF IInv, TypeOK
<1>10. change \in Commit
  BY <1>3, <1>9 DEF States, Reports
<1> HIDE DEF change, Commit
<1>11. /\ Append(commits, change) \in Seq(Commit)
       /\ Len(Append(commits, change)) = Len(commits) + 1
  BY <1>9, <1>10
<1>12. commits' \in Seq(Commit)
  BY <1>1, <1>9, <1>11
<1>13. TypeOK'
  BY <1>1, <1>8, <1>12 DEF IInv, TypeOK, memory, Commit
<1>14. CommitStep(c)
  <2>1. CASE ~commit
    BY <1>1, <2>1 DEF CommitStep
  <2>2. CASE commit
    <3>1. Len(commits') = Len(commits) + 1
      BY <1>1, <1>11, <2>2
    <3>2. op[c] \in {"none", "start", "approve"} /\ CallOk(pc[c], op[c], mem[c])
      BY DEF IInv, TypeOK, CallsOk
    <3>3. require_human_review => op[c] = "approve"
      BY <1>3, <2>2, <3>2 DEF CallOk
    <3>4. mem'[c].next = "learn"
      <4>1. PICK late \in BOOLEAN :
              mem'[c] = [state |-> s, next |-> NextNode("finalize", s, late)]
        BY <1>1, <1>2, <1>5, AdvanceTyping DEF IInv
      <4>2. NextNode("finalize", s, late) = "learn"
        BY <1>1, NextCases
      <4>3. QED
        BY <4>1, <4>2
    <3>5. QED
      BY <1>1, <1>3, <3>1, <3>3, <3>4 DEF CommitStep, Spent
  <2>3. QED
    BY <2>1, <2>2
<1>15. QED
  BY <1>8, <1>13, <1>14

\* Recording the episode, then rewarding the lessons of a completed run.
LEMMA LearnStep ==
  ASSUME IInv, NEW c \in Calls, learn_episode(c) \/ learn_reward(c)
  PROVE  TypeOK' /\ LocalOk(c) /\ CommitStep(c)
<1>1. CASE learn_episode(c)
  <2>1. /\ pc' = [pc EXCEPT ![c] = "reward"] /\ episodes' = episodes + 1
        /\ UNCHANGED <<ckpt, op, mem, unsaved, git, stored, rewards, crashes>>
        /\ AtNode(c, "learn") /\ "learn" \in Nodes
    BY <1>1 DEF learn_episode, record_episode, Nodes
  <2>2. TypeOK'
    BY <2>1 DEF IInv, TypeOK, git
  <2>3. /\ CallOk(pc[c], op[c], mem[c]) /\ CopyOk(mem[c], branch) /\ CopyOk(ckpt, branch)
        /\ pc[c] = "run" /\ mem[c].next = "learn"
        /\ (require_human_review /\ op[c] = "start" => ~_gates_ok(mem[c].state))
    BY <2>1, Ready DEF IInv, CallsOk, CopiesOk
  <2>4. /\ pc'[c] = "reward" /\ \A d \in Calls : d # c => pc'[d] = pc[d]
        /\ UNCHANGED <<branch, worktree, commits, mem, op, ckpt>>
    BY <2>1 DEF IInv, TypeOK, git
  <2>5. CallOk(pc'[c], op'[c], mem'[c])
    BY <2>3, <2>4 DEF CallOk
  <2>6. Spent(pc[c], op[c], mem[c]) => Spent(pc'[c], op'[c], mem'[c])
    BY <2>3, <2>4 DEF Spent
  <2>7. LocalOk(c)
    BY <2>3, <2>4, <2>5, <2>6 DEF LocalOk, IInv, WorktreeOk
  <2>8. QED
    BY <2>2, <2>4, <2>7 DEF CommitStep
<1>2. CASE learn_reward(c)
  <2> DEFINE s == mem[c].state
  <2>1. /\ pc[c] = "reward" /\ pc' = [pc EXCEPT ![c] = "run"] /\ advance(c, "learn", s)
        /\ UNCHANGED <<ckpt, op, git, stored, episodes, crashes>> /\ "learn" \in Nodes
    BY <1>2 DEF learn_reward, Nodes
  <2>2. rewards' \in [Lessons -> Nat]
    <3>1. PICK ls : Reward(ls)
      BY <1>2 DEF learn_reward
    <3>2. rewards \in [Lessons -> Nat]
      BY DEF IInv, TypeOK
    <3>3. \A l \in Lessons : (IF l \in ls THEN rewards[l] + 1 ELSE rewards[l]) \in Nat
      BY <3>2
    <3>4. QED
      BY <3>1, <3>3 DEF Reward
  <2>3. /\ CallOk(pc[c], op[c], mem[c]) /\ CopyOk(mem[c], branch) /\ s \in States
    BY MemTyping DEF IInv, CallsOk, CopiesOk
  <2>4. /\ mem[c].next = "learn"
        /\ (require_human_review /\ op[c] = "start" => ~_gates_ok(s))
        /\ (_gates_ok(s) => branch)
    BY <2>1, <2>3 DEF CallOk, CopyOk
  <2>5. Left("learn", s)
    BY <2>3, DevConstants DEF CopyOk, Left
  <2>6. /\ pc'[c] = "run" /\ \A d \in Calls : d # c => pc'[d] = pc[d]
        /\ UNCHANGED <<branch, worktree, commits, op, ckpt>>
    BY <2>1 DEF IInv, TypeOK, git
  <2>7. LocalOk(c)
    BY <2>1, <2>3, <2>4, <2>5, <2>6, AdvanceLocal
  <2>8. mem' \in [Calls -> Threads] /\ unsaved' \in [Calls -> {"no", "yes", "overtaken"}]
    BY <2>1, <2>3, AdvanceTyping DEF IInv
  <2>9. TypeOK'
    BY <2>1, <2>2, <2>8 DEF IInv, TypeOK, git
  <2>10. QED
    BY <2>6, <2>7, <2>9 DEF CommitStep
<1>3. QED
  BY <1>1, <1>2

\* Making the worktree takes a branch that does not exist, so no report is green;
\* then the files are provisioned, or the call leaves.
LEMMA BootstrapStep ==
  ASSUME IInv, NEW c \in Calls, bootstrap_create(c) \/ bootstrap_provision(c)
  PROVE  TypeOK' /\ LocalOk(c) /\ CommitStep(c)
<1>1. /\ CallOk(pc[c], op[c], mem[c]) /\ CopyOk(mem[c], branch) /\ CopyOk(ckpt, branch)
      /\ branch \in BOOLEAN /\ mem[c].state \in States
  BY MemTyping DEF IInv, CallsOk, CopiesOk, TypeOK
<1>2. CASE bootstrap_create(c)
  <2>1. /\ AtNode(c, "bootstrap") /\ ~branch
        /\ branch' = TRUE /\ worktree' = TRUE /\ tree' = {}
        /\ pc' = [pc EXCEPT ![c] = "provision"]
        /\ UNCHANGED <<ckpt, op, mem, unsaved, commits, memory, crashes>>
    BY <1>2 DEF bootstrap_create
  <2>2. TypeOK'
    BY <2>1 DEF IInv, TypeOK, memory
  <2>3. pc[c] = "run" /\ mem[c].next = "bootstrap" /\ ~_gates_ok(mem[c].state)
    BY <1>1, <2>1 DEF AtNode, CopyOk
  <2>4. pc'[c] = "provision" /\ \A d \in Calls : d # c => pc'[d] = pc[d]
    BY <2>1 DEF IInv, TypeOK
  <2>5. CallOk(pc'[c], op'[c], mem'[c])
    BY <1>1, <2>1, <2>3, <2>4 DEF CallOk
  <2>6. Spent(pc[c], op[c], mem[c]) => Spent(pc'[c], op'[c], mem'[c])
    BY <2>3 DEF Spent
  <2>7. CopyOk(mem'[c], branch') /\ CopyOk(ckpt', branch')
    BY <1>1, <2>1, CopyKept
  <2>8. QED
    BY <2>1, <2>2, <2>4, <2>5, <2>6, <2>7 DEF LocalOk, CommitStep
<1>3. CASE bootstrap_provision(c) /\ ~Leave(c)
  <2> DEFINE s == [mem[c].state EXCEPT !.workspace = TRUE, !.status = "running"]
  <2>1. /\ pc[c] = "provision" /\ advance(c, "bootstrap", s)
        /\ pc' = [pc EXCEPT ![c] = "run"]
        /\ UNCHANGED <<ckpt, op, git, memory, crashes>> /\ "bootstrap" \in Nodes
    BY <1>3 DEF bootstrap_provision, Nodes
  <2>2. /\ s \in States /\ s.iteration = mem[c].state.iteration
        /\ s.llm_calls = mem[c].state.llm_calls
        /\ s.verify_report = mem[c].state.verify_report
    BY <1>1 DEF States
  <2> HIDE DEF s
  <2>3. /\ mem[c].next = "bootstrap" /\ (_gates_ok(s) => branch)
        /\ (require_human_review /\ op[c] = "start" => ~_gates_ok(s))
    BY <1>1, <2>1, <2>2 DEF CallOk, CopyOk, _gates_ok
  <2>4. Left("bootstrap", s)
    BY <1>1, <2>2, <2>3, DevConstants DEF CopyOk, Left
  <2>5. /\ pc'[c] = "run" /\ \A d \in Calls : d # c => pc'[d] = pc[d]
        /\ UNCHANGED <<branch, worktree, commits, op, ckpt>>
    BY <2>1 DEF IInv, TypeOK, git
  <2>6. LocalOk(c)
    BY <2>1, <2>2, <2>3, <2>4, <2>5, AdvanceLocal
  <2>7. mem' \in [Calls -> Threads] /\ unsaved' \in [Calls -> {"no", "yes", "overtaken"}]
    BY <2>1, <2>2, AdvanceTyping DEF IInv
  <2>8. TypeOK'
    BY <2>1, <2>7 DEF IInv, TypeOK, git, memory
  <2>9. QED
    BY <2>5, <2>6, <2>8 DEF CommitStep
<1>4. CASE bootstrap_provision(c) /\ Leave(c)
  <2>1. pc[c] # "idle" /\ UNCHANGED <<ckpt, op, git, memory, crashes>>
    BY <1>4 DEF bootstrap_provision
  <2>2. LocalOk(c)
    BY <1>4, <2>1, LeaveLocal DEF git
  <2>3. TypeOK'
    BY <1>4, <2>1, LeaveTyping DEF IInv, TypeOK, git, memory
  <2>4. QED
    BY <2>1, <2>2, <2>3 DEF CommitStep, git
<1>5. QED
  BY <1>2, <1>3, <1>4

\* A call that returns or raises.  What it did to the files or to the rewards
\* stays.
LEMMA LeaveStep ==
  ASSUME IInv, NEW c \in Calls,
         \/ bootstrap_refused(c) \/ apply_raises(c) \/ verify_raises(c)
         \/ finalize_raises(c) \/ learn_unknown(c) \/ learn_raises(c)
         \/ node_raises(c) \/ invoke_returns(c)
  PROVE  TypeOK' /\ LocalOk(c) /\ CommitStep(c)
<1>1. /\ Leave(c) /\ pc[c] # "idle"
      /\ UNCHANGED <<ckpt, op, branch, worktree, commits, stored, episodes, crashes>>
  BY DEF bootstrap_refused, apply_raises, verify_raises, finalize_raises, learn_unknown,
         learn_raises, node_raises, invoke_returns, AtNode, git, memory
<1>2. LocalOk(c)
  BY <1>1, LeaveLocal
<1>3. tree' \subseteq Changes
  <2>1. tree \subseteq Changes
    BY DEF IInv, TypeOK
  <2>2. CASE verify_raises(c)
    BY <2>1, <2>2 DEF verify_raises, Gated, Changes
  <2>3. CASE ~verify_raises(c)
    BY <2>1, <2>3 DEF bootstrap_refused, apply_raises, finalize_raises, learn_unknown,
                      learn_raises, node_raises, invoke_returns, git
  <2>4. QED
    BY <2>2, <2>3
<1>4. rewards' \in [Lessons -> Nat]
  <2>1. rewards \in [Lessons -> Nat]
    BY DEF IInv, TypeOK
  <2>2. CASE learn_raises(c)
    <3>1. PICK ls : Reward(ls)
      BY <2>2 DEF learn_raises
    <3>2. \A l \in Lessons : (IF l \in ls THEN rewards[l] + 1 ELSE rewards[l]) \in Nat
      BY <2>1
    <3>3. QED
      BY <3>1, <3>2 DEF Reward
  <2>3. CASE ~learn_raises(c)
    BY <2>1, <2>3 DEF bootstrap_refused, apply_raises, verify_raises, finalize_raises,
                      learn_unknown, node_raises, invoke_returns, memory
  <2>4. QED
    BY <2>2, <2>3
<1>5. TypeOK'
  BY <1>1, <1>3, <1>4, LeaveTyping DEF IInv, TypeOK
<1>6. QED
  BY <1>1, <1>2, <1>5 DEF CommitStep

-----------------------------------------------------------------------------
(* The calls and the checkpoints. *)

\* The state a start() merges its input into is typed and has spent nothing.
LEMMA InputTyping ==
  ASSUME NEW s \in States
  PROVE  /\ initial_state(s) \in States
         /\ initial_state(s).iteration = 0 /\ initial_state(s).llm_calls = 0
         /\ initial_state(s).verify_report = s.verify_report
  BY DEF initial_state, States

\* A new call: start() begins within the budgets, approve() takes the thread as it is.
LEMMA CallStep ==
  ASSUME IInv, NEW c \in Calls, start(c) \/ approve(c)
  PROVE  TypeOK' /\ LocalOk(c) /\ CommitStep(c)
<1>1. /\ ckpt \in Threads /\ ckpt.state \in States /\ branch \in BOOLEAN
      /\ CopyOk(ckpt, branch)
  BY DEF IInv, TypeOK, CopiesOk, Threads
<1>2. CASE start(c)
  <2>1. PICK s \in States : s = initial_state(ckpt.state)
    BY <1>1, InputTyping
  <2>2. s.iteration = 0 /\ s.llm_calls = 0 /\ s.verify_report = ckpt.state.verify_report
    BY <1>1, <2>1, InputTyping
  <2> DEFINE t == [state |-> s, next |-> "bootstrap"]
  <2>3. /\ pc[c] = "idle" /\ op' = [op EXCEPT ![c] = "start"]
        /\ mem' = [mem EXCEPT ![c] = t]
        /\ unsaved' = [unsaved EXCEPT ![c] = "yes"]
        /\ pc' = [pc EXCEPT ![c] = "run"]
        /\ UNCHANGED <<ckpt, git, memory, crashes>>
    BY <1>2, <2>1 DEF start, Arrive
  <2>4. t \in Threads /\ t.state = s /\ t.next = "bootstrap"
    BY ThreadTyping DEF Nodes
  <2> HIDE DEF t
  <2>5. CopyOk(t, branch)
    BY <1>1, <2>2, <2>4, DevConstants DEF CopyOk, _gates_ok
  <2>6. TypeOK'
    BY <2>3, <2>4 DEF IInv, TypeOK, git, memory
  <2>7. /\ pc'[c] = "run" /\ op'[c] = "start" /\ mem'[c] = t
        /\ \A d \in Calls : d # c => pc'[d] = pc[d] /\ op'[d] = op[d] /\ mem'[d] = mem[d]
    BY <2>3 DEF IInv, TypeOK
  <2>8. CallOk(pc'[c], op'[c], mem'[c])
    BY <2>4, <2>7 DEF CallOk
  <2>9. ~Spent(pc[c], op[c], mem[c])
    BY <2>3 DEF Spent
  <2>10. LocalOk(c)
    BY <1>1, <2>3, <2>5, <2>7, <2>8, <2>9 DEF LocalOk, git, IInv, WorktreeOk
  <2>11. QED
    BY <2>3, <2>6, <2>10 DEF CommitStep, git
<1>3. CASE approve(c)
  <2>1. /\ pc[c] = "idle" /\ op' = [op EXCEPT ![c] = "approve"]
        /\ mem' = [mem EXCEPT ![c] = ckpt]
        /\ pc' = [pc EXCEPT ![c] = "update_write"]
        /\ UNCHANGED <<ckpt, unsaved, git, memory, crashes>>
    BY <1>3 DEF approve, Arrive
  <2>2. TypeOK'
    BY <1>1, <2>1 DEF IInv, TypeOK, git, memory
  <2>3. /\ pc'[c] = "update_write" /\ op'[c] = "approve" /\ mem'[c] = ckpt
        /\ \A d \in Calls : d # c => pc'[d] = pc[d] /\ op'[d] = op[d] /\ mem'[d] = mem[d]
    BY <2>1 DEF IInv, TypeOK
  <2>4. CallOk(pc'[c], op'[c], mem'[c])
    BY <2>3 DEF CallOk
  <2>5. ~Spent(pc[c], op[c], mem[c])
    BY <2>1 DEF Spent
  <2>6. LocalOk(c)
    BY <1>1, <2>1, <2>3, <2>4, <2>5 DEF LocalOk, git, IInv, WorktreeOk
  <2>7. QED
    BY <2>1, <2>2, <2>6 DEF CommitStep, git
<1>4. QED
  BY <1>2, <1>3

\* The patch of approve() spends nothing, and leaves the report as it is.
LEMMA UpdateStep ==
  ASSUME IInv, NEW c \in Calls, update_state(c)
  PROVE  TypeOK' /\ LocalOk(c) /\ CommitStep(c)
<1> DEFINE s == [mem[c].state EXCEPT !.status = "running", !.pending = FALSE]
           t == [state |-> s, next |-> route_after_human_review(s)]
<1>1. /\ mem[c] \in Threads /\ mem[c].state \in States /\ branch \in BOOLEAN
      /\ CopyOk(mem[c], branch) /\ CallOk(pc[c], op[c], mem[c])
  BY MemTyping DEF IInv, TypeOK, CopiesOk, CallsOk
<1>2. /\ pc[c] = "update_write" /\ ckpt' = t /\ unsaved' = Overtaken(c)
      /\ pc' = [pc EXCEPT ![c] = "load"]
      /\ UNCHANGED <<op, mem, git, memory, crashes>>
  BY DEF update_state
<1>3. /\ s \in States /\ s.iteration = mem[c].state.iteration
      /\ s.llm_calls = mem[c].state.llm_calls
      /\ s.verify_report = mem[c].state.verify_report
  BY <1>1 DEF States
<1> HIDE DEF s
<1>4. /\ t \in Threads /\ t.state = s /\ t.next \in {"end", "finalize"}
  BY <1>3, ThreadTyping DEF route_after_human_review, Nodes
<1>5. CopyOk(t, branch)
  BY <1>1, <1>3, <1>4, DevConstants DEF CopyOk, _gates_ok
<1> HIDE DEF t
<1>6. unsaved' \in [Calls -> {"no", "yes", "overtaken"}]
  BY <1>2 DEF Overtaken, IInv, TypeOK
<1>7. TypeOK'
  BY <1>2, <1>4, <1>6 DEF IInv, TypeOK, git, memory
<1>8. pc'[c] = "load" /\ \A d \in Calls : d # c => pc'[d] = pc[d]
  BY <1>2 DEF IInv, TypeOK
<1>9. CallOk(pc'[c], op'[c], mem'[c])
  BY <1>1, <1>2, <1>8 DEF CallOk
<1>10. ~Spent(pc[c], op[c], mem[c])
  BY <1>2 DEF Spent
<1>11. LocalOk(c)
  BY <1>1, <1>2, <1>5, <1>8, <1>9, <1>10 DEF LocalOk, git, IInv, WorktreeOk
<1>12. QED
  BY <1>2, <1>7, <1>11 DEF CommitStep, git

\* Only an approve() takes a thread up where another call left it.
LEMMA LoadStep ==
  ASSUME IInv, NEW c \in Calls, load(c)
  PROVE  TypeOK' /\ LocalOk(c) /\ CommitStep(c)
<1>1. /\ pc[c] = "load" /\ mem' = [mem EXCEPT ![c] = ckpt]
      /\ pc' = [pc EXCEPT ![c] = "run"]
      /\ UNCHANGED <<ckpt, op, unsaved, git, memory, crashes>>
  BY DEF load
<1>2. /\ ckpt \in Threads /\ CopyOk(ckpt, branch) /\ CallOk(pc[c], op[c], mem[c])
  BY DEF IInv, TypeOK, CopiesOk, CallsOk
<1>3. TypeOK'
  BY <1>1, <1>2 DEF IInv, TypeOK, git, memory
<1>4. /\ pc'[c] = "run" /\ mem'[c] = ckpt
      /\ \A d \in Calls : d # c => pc'[d] = pc[d] /\ mem'[d] = mem[d]
  BY <1>1 DEF IInv, TypeOK
<1>5. CallOk(pc'[c], op'[c], mem'[c])
  BY <1>1, <1>2, <1>4 DEF CallOk
<1>6. ~Spent(pc[c], op[c], mem[c])
  BY <1>1 DEF Spent
<1>7. LocalOk(c)
  BY <1>1, <1>2, <1>4, <1>5, <1>6 DEF LocalOk, git, IInv, WorktreeOk
<1>8. QED
  BY <1>1, <1>3, <1>7 DEF CommitStep, git

\* A checkpoint is a copy of what the call holds.
LEMMA SaveStep ==
  ASSUME IInv, NEW c \in Calls, save(c)
  PROVE  TypeOK' /\ LocalOk(c) /\ CommitStep(c)
<1>1. /\ ckpt' = mem[c] \/ ckpt' = ckpt
      /\ UNCHANGED <<pc, op, mem, git, memory, crashes>>
  BY DEF save
<1>2. /\ mem[c] \in Threads /\ CopyOk(mem[c], branch) /\ CopyOk(ckpt, branch)
      /\ CallOk(pc[c], op[c], mem[c])
  BY MemTyping DEF IInv, CopiesOk, CallsOk
<1>3. unsaved' \in [Calls -> {"no", "yes", "overtaken"}]
  <2>1. /\ unsaved \in [Calls -> {"no", "yes", "overtaken"}]
        /\ Overtaken(c) \in [Calls -> {"no", "yes", "overtaken"}]
    BY DEF Overtaken, IInv, TypeOK
  <2>2. \/ unsaved' = [Overtaken(c) EXCEPT ![c] = "no"]
        \/ unsaved' = [unsaved EXCEPT ![c] = "no"]
    BY DEF save
  <2>3. QED
    BY <2>1, <2>2
<1>4. TypeOK'
  BY <1>1, <1>2, <1>3 DEF IInv, TypeOK, git, memory
<1>5. LocalOk(c)
  BY <1>1, <1>2 DEF LocalOk, git, IInv, WorktreeOk
<1>6. QED
  BY <1>1, <1>4, <1>5 DEF CommitStep, git

\* A crash takes every copy but the checkpoint; an approve() in progress is spent.
LEMMA CrashInv ==
  ASSUME IInv, Crash
  PROVE  IInv'
<1> DEFINE Old == {d \in Calls : Spent(pc[d], op[d], mem[d])}
           New == {d \in Calls : Spent(pc'[d], op'[d], mem'[d])}
<1>1. /\ crashes' = crashes + 1
      /\ pc' = [c \in Calls |-> IF Active(c) THEN "done" ELSE pc[c]]
      /\ mem' = [c \in Calls |-> NoThread]
      /\ unsaved' = [c \in Calls |-> "no"]
      /\ UNCHANGED <<ckpt, op, git, memory>>
  BY DEF Crash
<1>2. TypeOK'
  BY <1>1, NoThreadTyping DEF IInv, TypeOK, git, memory, Active
<1>3. CopiesOk' /\ WorktreeOk'
  BY <1>1, NoThreadOk DEF IInv, CopiesOk, WorktreeOk, git
<1>4. \A c \in Calls : pc'[c] \in {"idle", "done"} /\ (pc'[c] = "idle" => pc[c] = "idle")
  BY <1>1 DEF Active
<1>5. CallsOk'
  <2>1. ASSUME NEW c \in Calls PROVE CallOk(pc'[c], op'[c], mem'[c])
    <3>1. CallOk(pc[c], op[c], mem[c]) /\ op'[c] = op[c] /\ pc'[c] \in {"idle", "done"}
          /\ (pc'[c] # "idle" => pc[c] # "idle")
      BY <1>1, <1>4 DEF IInv, CallsOk, Active
    <3>2. QED
      BY <3>1 DEF CallOk
  <2>2. QED
    BY <2>1 DEF CallsOk
<1>6. Old \subseteq New
  <2>1. ASSUME NEW c \in Calls, Spent(pc[c], op[c], mem[c])
        PROVE  Spent(pc'[c], op'[c], mem'[c])
    BY <1>1, <2>1 DEF Spent, Active
  <2>2. QED
    BY <2>1
<1>7. IsFiniteSet(Old) /\ IsFiniteSet(New)
  BY DevConstants, FS_Subset
<1>8. /\ Cardinality(Old) \in Nat /\ Cardinality(New) \in Nat
      /\ Cardinality(Old) <= Cardinality(New)
  BY <1>6, <1>7, FS_CardinalityType, FS_Subset
<1>9. Len(commits) \in Nat /\ commits' = commits
  BY <1>1 DEF IInv, TypeOK, git
<1>10. require_human_review => Len(commits) <= Cardinality(Old)
  BY DEF IInv, CommitsOk
<1>11. require_human_review => Len(commits') <= Cardinality(New)
  BY <1>8, <1>9, <1>10
<1>12. CommitsOk'
  BY <1>11 DEF CommitsOk
<1>13. QED
  BY <1>2, <1>3, <1>5, <1>12 DEF IInv

-----------------------------------------------------------------------------
(* The theorems. *)

\* The invariant holds before the first call.
LEMMA InitInv == Init => IInv
<1> SUFFICES ASSUME Init PROVE IInv
  OBVIOUS
<1>1. TypeOK
  <2> DEFINE Commit == [tree : SUBSET Changes, gated : SUBSET Changes,
                        files : SUBSET Files]
  <2>1. commits = <<>> /\ <<>> \in Seq(Commit)
    BY DEF Init
  <2> HIDE DEF Commit
  <2>2. commits \in Seq(Commit)
    BY <2>1
  <2>3. rewards \in [Lessons -> Nat] /\ stored \subseteq Lessons
    BY DevConstants DEF Init
  <2>4. QED
    BY <2>2, <2>3, NoThreadTyping DEF Init, TypeOK, Commit
<1>2. CopiesOk /\ WorktreeOk
  BY NoThreadOk DEF Init, CopiesOk, WorktreeOk
<1>3. CallsOk
  BY DEF Init, CallsOk, CallOk
<1>4. CommitsOk
  <2>1. {c \in Calls : Spent(pc[c], op[c], mem[c])} = {}
    BY DEF Init, Spent
  <2>2. Len(commits) = 0
    BY DEF Init
  <2>3. QED
    BY <2>1, <2>2, FS_EmptySet DEF CommitsOk
<1>5. QED
  BY <1>1, <1>2, <1>3, <1>4 DEF IInv

\* Every step keeps the invariant.
LEMMA NextInv == IInv /\ [Next]_vars => IInv'
<1> SUFFICES ASSUME IInv, [Next]_vars PROVE IInv'
  OBVIOUS
<1>1. ASSUME NEW c \in Calls, start(c) \/ approve(c) PROVE IInv'
  BY <1>1, CallStep, StepKeeps
<1>2. ASSUME NEW c \in Calls, Serve(c) PROVE IInv'
  <2>1. CASE update_state(c)
    BY <2>1, UpdateStep, StepKeeps
  <2>2. CASE load(c)
    BY <2>2, LoadStep, StepKeeps
  <2>3. CASE bootstrap_create(c) \/ bootstrap_provision(c)
    BY <2>3, BootstrapStep, StepKeeps
  <2>4. CASE load_context(c) \/ retrieve(c) \/ analyze(c) \/ plan(c) \/ implement(c)
               \/ human_review(c)
    BY <2>4, PlainNodes, StepKeeps
  <2>5. CASE apply(c)
    BY <2>5, ApplyStep, StepKeeps
  <2>6. CASE verify(c)
    BY <2>6, VerifyStep, StepKeeps
  <2>7. CASE reflect(c)
    BY <2>7, ReflectStep, StepKeeps
  <2>8. CASE finalize(c)
    BY <2>8, FinalizeStep, StepKeeps
  <2>9. CASE learn_episode(c) \/ learn_reward(c)
    BY <2>9, LearnStep, StepKeeps
  <2>10. CASE teardown(c)
    BY <2>10, TeardownStep, StepKeeps
  <2>11. CASE save(c)
    BY <2>11, SaveStep, StepKeeps
  <2>12. CASE \/ bootstrap_refused(c) \/ apply_raises(c) \/ verify_raises(c)
              \/ finalize_raises(c) \/ learn_unknown(c) \/ learn_raises(c)
              \/ node_raises(c) \/ invoke_returns(c)
    BY <2>12, LeaveStep, StepKeeps
  <2>13. QED
    BY <1>2, <2>1, <2>2, <2>3, <2>4, <2>5, <2>6, <2>7, <2>8, <2>9, <2>10, <2>11,
       <2>12 DEF Serve
<1>3. CASE Crash
  BY <1>3, CrashInv
<1>4. CASE UNCHANGED vars
  BY <1>4 DEF IInv, TypeOK, WorktreeOk, CopiesOk, CallsOk, CommitsOk, vars
<1>5. QED
  BY <1>1, <1>2, <1>3, <1>4 DEF Next, Quiet

\* The inductive invariant holds in every reachable state.
THEOREM Invariance == Spec => []IInv
  BY InitInv, NextInv, PTL DEF Spec

\* Every variable stays in its domain.
THEOREM TypeCorrect == Spec => []TypeOK
<1>1. IInv => TypeOK
  BY DEF IInv
<1>2. QED
  BY <1>1, Invariance, PTL

\* However many calls overlap, fail or crash, the thread never holds more LLM
\* calls than three, or one more than the budget.
THEOREM BudgetBounded == Spec => []BudgetBound
<1>1. IInv => BudgetBound
  BY DEF IInv, CopiesOk, CopyOk, BudgetBound, Copies
<1>2. QED
  BY <1>1, Invariance, PTL

\* However many calls overlap, fail or crash, no copy of the thread has been
\* through more attempts than one, or max_iterations.
THEOREM IterationsBounded == Spec => []IterationBound
<1>1. IInv => IterationBound
  BY DEF IInv, CopiesOk, CopyOk, IterationBound, Copies
<1>2. QED
  BY <1>1, Invariance, PTL

\* Where a human must review, each commit takes an approve() of its own, however
\* many calls overlap, fail or crash.
THEOREM CommitsApproved == Spec => []CommitIsApproved
<1>1. ASSUME IInv PROVE CommitIsApproved
  <2> DEFINE Old == {c \in Calls : Spent(pc[c], op[c], mem[c])}
             All == {c \in Calls : op[c] = "approve"}
  <2>1. Old \subseteq All /\ IsFiniteSet(Old) /\ IsFiniteSet(All)
    BY DevConstants, FS_Subset DEF Spent
  <2>2. /\ Cardinality(Old) \in Nat /\ Cardinality(All) \in Nat
        /\ Cardinality(Old) <= Cardinality(All)
    BY <2>1, FS_CardinalityType, FS_Subset
  <2>3. Len(commits) \in Nat
    BY <1>1 DEF IInv, TypeOK
  <2>4. require_human_review => Len(commits) <= Cardinality(Old)
    BY <1>1 DEF IInv, CommitsOk
  <2>5. require_human_review => Len(commits) <= Cardinality(All)
    BY <2>2, <2>3, <2>4
  <2>6. QED
    BY <2>5 DEF CommitIsApproved
<1>2. QED
  BY <1>1, Invariance, PTL

=============================================================================
