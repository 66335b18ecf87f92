----------------------------- MODULE SharedRuns -----------------------------
(***************************************************************************)
(* Several runs of the dev orchestrator in one repository and with one     *)
(* memory.  DevOrchestrator has each run's nodes, calls and checkpoints;   *)
(* here a run is what its nodes do to the things it shares: its branch and *)
(* worktree, which are named by the first part of its workflow_id, and the *)
(* lessons, which it reads, writes and rewards.                            *)
(*                                                                         *)
(* A lesson is the structured answer of the LLM, whose schema has the id   *)
(* and the reward too: the LLM may fill them in.                           *)
(***************************************************************************)
EXTENDS Naturals, FiniteSets

CONSTANTS
  Runs,          \* workflow_ids; at most one call of each is in progress
  Names,         \* the short ids they are cut to
  short_id,      \* [Runs -> Names]
  Ids,           \* ids of lessons
  retrieval_k,   \* DevOrchestratorConfig
  MaxReflections, MaxCalls, MaxCrashes   \* bounds: of a run, of all runs, crashes

ASSUME SharedConstants ==
  /\ short_id \in [Runs -> Names]
  /\ {retrieval_k, MaxReflections, MaxCalls, MaxCrashes} \subseteq Nat

VARIABLES
  pc,
  branches,        \* short ids whose task branch exists
  worktrees,       \* short ids whose worktree exists
  tree,            \* the runs whose changes are in the files of a worktree
  commits,         \* what was committed on a branch: by whom, whose changes
  memory_backend,
  memory,          \* the lessons by id
  episodes,        \* how many episodes of a run it was told
  workspace,       \* whether a run was given a worktree
  retrieved, reflections,   \* a run's copies of lessons
  green,           \* whether its last verify_report is ok
  outcome,         \* in its final_result
  todo, read,      \* reflections still to reward; the reward that was read
  calls, crashes

repo == <<branches, worktrees, tree, commits>>
store == <<memory_backend, memory, episodes>>
thread == <<workspace, retrieved, reflections, green, outcome>>
learning == <<todo, read>>
vars == <<pc, repo, store, thread, learning, calls, crashes>>

\* What the LLM answered: a lesson of a run, the nth one, its id and reward filled in or not.
Lessons == [by : Runs, no : 1..MaxReflections, filled : BOOLEAN]
Given(lesson) == IF lesson.filled THEN 1 ELSE 0

Resting == {"new", "parked", "raised", "done"}
AtWork  == {"retrieve", "develop", "verified", "parked"}
Closing == {"finalize", "learn", "reinforce", "rewrite", "teardown"}
PCs     == Resting \cup AtWork \cup Closing \cup {"bootstrap"}

Init ==
  /\ pc = [r \in Runs |-> "new"]
  /\ branches = {} /\ worktrees = {}
  /\ tree = [n \in Names |-> {}] /\ commits = [n \in Names |-> {}]
  /\ memory_backend \in {"in_memory", "sql"} /\ memory = [i \in {} |-> 0]
  /\ episodes = [r \in Runs |-> 0] /\ workspace = [r \in Runs |-> FALSE]
  /\ retrieved = [r \in Runs |-> {}] /\ reflections = [r \in Runs |-> {}]
  /\ green = [r \in Runs |-> FALSE] /\ outcome = [r \in Runs |-> "none"]
  /\ todo = [r \in Runs |-> {}] /\ read = [r \in Runs |-> 0]
  /\ calls = 0 /\ crashes = 0

Goto(r, from, to) == pc[r] = from /\ pc' = [pc EXCEPT ![r] = to]

-----------------------------------------------------------------------------
(* The calls. *)

\* start() may be called again for a run that ended, raised or is parked: its
\* lessons are reset, its workspace, its report and its result stay.
start(r) ==
  /\ pc[r] \in Resting /\ calls < MaxCalls
  /\ pc' = [pc EXCEPT ![r] = "bootstrap"]
  /\ calls' = calls + 1
  /\ retrieved' = [retrieved EXCEPT ![r] = {}]
  /\ reflections' = [reflections EXCEPT ![r] = {}]
  /\ UNCHANGED <<repo, store, workspace, green, outcome, learning, crashes>>

\* approve() asks nothing of the run: one that raised, crashed or ended goes to
\* finalize as a parked one does.  (One that was never started raises there.)
approve(r) ==
  /\ pc[r] \in Resting \ {"new"}
  /\ pc' = [pc EXCEPT ![r] = "finalize"]
  /\ IF pc[r] = "parked" THEN UNCHANGED calls
                         ELSE calls < MaxCalls /\ calls' = calls + 1
  /\ UNCHANGED <<repo, store, thread, learning, crashes>>

-----------------------------------------------------------------------------
(* The worktree. *)

\* (slip: the worktree of an existing branch is taken over)
Refused_adopts(r) == short_id[r] \in branches \ worktrees

\* (slip: git worktree add -B, which resets a branch that is not checked out)
Refused_forced(r) == short_id[r] \in worktrees

\* git worktree add -b refuses a branch that exists, whosever it is.
Refused(r) == short_id[r] \in branches

\* The branch starts at base_ref.  Files are then copied and linked into the
\* worktree: when that fails, the branch and the worktree stay and the run has none.
create_worktree(r) ==
  /\ ~Refused(r)
  /\ branches' = branches \cup {short_id[r]}
  /\ worktrees' = worktrees \cup {short_id[r]}
  /\ commits' = [commits EXCEPT ![short_id[r]] = {}]
  /\ \/ Goto(r, "bootstrap", "retrieve") /\ workspace' = [workspace EXCEPT ![r] = TRUE]
     \/ Goto(r, "bootstrap", "raised") /\ UNCHANGED workspace
  /\ UNCHANGED <<tree, store, retrieved, reflections, green, outcome, learning, calls, crashes>>

create_refused(r) ==
  /\ Refused(r)
  /\ Goto(r, "bootstrap", "raised")
  /\ UNCHANGED <<repo, store, thread, learning, calls, crashes>>

apply_patch(r) ==
  /\ pc[r] = "develop" /\ short_id[r] \in worktrees
  /\ tree' = [tree EXCEPT ![short_id[r]] = @ \cup {r}]
  /\ UNCHANGED <<pc, branches, worktrees, commits, store, thread, learning, calls, crashes>>

\* The gates pass; or they fail, and the run tries again or gives up.
verify(r) ==
  /\ \E ok \in BOOLEAN :
       /\ \E to \in IF ok THEN {"verified"} ELSE {"develop", "finalize"} : Goto(r, "develop", to)
       /\ green' = [green EXCEPT ![r] = ok]
  /\ UNCHANGED <<repo, store, workspace, retrieved, reflections, outcome, learning, calls, crashes>>

human_review(r) ==
  /\ Goto(r, "verified", "parked")
  /\ UNCHANGED <<repo, store, thread, learning, calls, crashes>>

\* The commit needs the worktree, which a teardown may have removed: then it raises.
finalize(r) ==
  LET commit == green[r] /\ workspace[r]
  IN /\ Goto(r, "finalize", "learn")
     /\ commit => short_id[r] \in worktrees
     /\ commits' = [commits EXCEPT ![short_id[r]] =
                      IF commit THEN @ \cup {[by |-> r, tree |-> tree[short_id[r]]]} ELSE @]
     /\ outcome' = [outcome EXCEPT ![r] = IF green[r] THEN "completed" ELSE "failed"]
     /\ UNCHANGED <<branches, worktrees, tree, store, workspace, retrieved, reflections, green,
                    learning, calls, crashes>>

\* (slip: the worktree of the short id is removed, whoever was given it)
teardown_by_name(r) ==
  /\ Goto(r, "teardown", "done")
  /\ worktrees' \in {worktrees, worktrees \ {short_id[r]}}
  /\ tree' = [n \in Names |-> IF n \in worktrees' THEN tree[n] ELSE {}]
  /\ UNCHANGED <<branches, commits, store, thread, learning, calls, crashes>>

\* Best effort.  The branch stays.
teardown(r) ==
  /\ Goto(r, "teardown", "done")
  /\ worktrees' \in {worktrees} \cup (IF workspace[r] THEN {worktrees \ {short_id[r]}} ELSE {})
  /\ tree' = [n \in Names |-> IF n \in worktrees' THEN tree[n] ELSE {}]
  /\ UNCHANGED <<branches, commits, store, thread, learning, calls, crashes>>

-----------------------------------------------------------------------------
(* The memory. *)

Copies == UNION {retrieved[r] \cup reflections[r] : r \in Runs}

\* At most k of the lessons, whichever the scores, which are left open, put first.
Best == {ids \in SUBSET DOMAIN memory : Cardinality(ids) <= retrieval_k}

retrieve_lessons(r) ==
  /\ Goto(r, "retrieve", "develop")
  /\ \E ids \in Best :
       retrieved' = [retrieved EXCEPT ![r] =
                       {[id |-> i, lesson |-> memory[i].lesson] : i \in ids}]
  /\ UNCHANGED <<repo, store, workspace, reflections, green, outcome, learning, calls, crashes>>

\* uuid4()
Fresh == Ids \ (DOMAIN memory \cup {c.id : c \in Copies})

Stored(id, lesson) ==
  [i \in DOMAIN memory \cup {id} |->
     IF i = id THEN [lesson |-> lesson, reward |-> Given(lesson)] ELSE memory[i]]

\* (slip: session.merge() instead of session.add())
Accepts_merge(id) == TRUE

\* The rows have a primary key; the dictionary takes what comes.
Accepts(id) == memory_backend = "sql" => id \notin DOMAIN memory

\* The lesson is stored under the id the LLM filled in, or a new one.
record_lesson(r) ==
  /\ pc[r] = "develop" /\ Cardinality(reflections[r]) < MaxReflections
  /\ \E filled \in BOOLEAN, id \in Ids :
       LET lesson == [by |-> r, no |-> Cardinality(reflections[r]) + 1, filled |-> filled]
       IN /\ IF filled THEN Accepts(id) ELSE id \in Fresh
          /\ memory' = Stored(id, lesson)
          /\ reflections' = [reflections EXCEPT ![r] = @ \cup {[id |-> id, lesson |-> lesson]}]
  /\ UNCHANGED <<pc, repo, memory_backend, episodes, workspace, retrieved, green, outcome, learning,
                 calls, crashes>>

\* (slip: whatever the outcome)
Earned_always(r) == reflections[r]

\* The memory is told the episode; then, on success, the lessons the run wrote are
\* rewarded, not those it retrieved ...
Earned(r) == IF outcome[r] = "completed" THEN reflections[r] ELSE {}

learn(r) ==
  /\ Goto(r, "learn", "reinforce")
  /\ episodes' = [episodes EXCEPT ![r] = @ + 1]
  /\ todo' = [todo EXCEPT ![r] = Earned(r)]
  /\ UNCHANGED <<repo, memory_backend, memory, thread, read, calls, crashes>>

\* ... one by one, in their order ...
Turn(r) == CHOOSE c \in todo[r] : \A d \in todo[r] : c.lesson.no <= d.lesson.no

\* ... the reward is read, ...
reinforce_read(r) ==
  /\ todo[r] # {} /\ Turn(r).id \in DOMAIN memory
  /\ Goto(r, "reinforce", "rewrite")
  /\ read' = [read EXCEPT ![r] = memory[Turn(r).id].reward]
  /\ UNCHANGED <<repo, store, thread, todo, calls, crashes>>

\* ... and written back with 1 added; ...
reinforce_write(r) ==
  /\ Goto(r, "rewrite", "reinforce")
  /\ memory' = [memory EXCEPT ![Turn(r).id].reward = read[r] + 1]
  /\ todo' = [todo EXCEPT ![r] = @ \ {Turn(r)}]
  /\ read' = [read EXCEPT ![r] = 0]
  /\ UNCHANGED <<repo, memory_backend, episodes, thread, calls, crashes>>

\* ... an id that is not there any more is passed over.
reinforce_unknown(r) ==
  /\ pc[r] = "reinforce" /\ todo[r] # {} /\ Turn(r).id \notin DOMAIN memory
  /\ todo' = [todo EXCEPT ![r] = @ \ {Turn(r)}]
  /\ UNCHANGED <<pc, repo, store, thread, read, calls, crashes>>

learned(r) ==
  /\ todo[r] = {} /\ Goto(r, "reinforce", "teardown")
  /\ UNCHANGED <<repo, store, thread, learning, calls, crashes>>

-----------------------------------------------------------------------------
(* Failures. *)

\* git, the LLM or the memory raises: a lesson with an id that SQL refuses, too.
raises(r) ==
  /\ pc[r] \notin Resting \cup {"teardown"}
  /\ pc' = [pc EXCEPT ![r] = "raised"]
  /\ todo' = [todo EXCEPT ![r] = {}] /\ read' = [read EXCEPT ![r] = 0]
  /\ UNCHANGED <<repo, store, thread, calls, crashes>>

\* The process dies.  A parked run is in the checkpoints; the lessons are lost
\* if they are not in the database.
Crash ==
  /\ crashes < MaxCrashes /\ crashes' = crashes + 1
  /\ pc' = [r \in Runs |-> IF pc[r] \in Resting THEN pc[r] ELSE "raised"]
  /\ todo' = [r \in Runs |-> {}] /\ read' = [r \in Runs |-> 0]
  /\ IF memory_backend = "sql"
       THEN UNCHANGED <<memory, episodes>>
       ELSE memory' = [i \in {} |-> 0] /\ episodes' = [r \in Runs |-> 0]
  /\ UNCHANGED <<repo, memory_backend, thread, calls>>

Quiet == (\A r \in Runs : pc[r] \in Resting) /\ UNCHANGED vars

Step(r) ==
  \/ start(r) \/ approve(r) \/ create_worktree(r) \/ create_refused(r)
  \/ retrieve_lessons(r) \/ apply_patch(r) \/ record_lesson(r)
  \/ verify(r) \/ human_review(r) \/ finalize(r)
  \/ learn(r) \/ reinforce_read(r) \/ reinforce_write(r) \/ reinforce_unknown(r) \/ learned(r)
  \/ teardown(r) \/ raises(r)

Next == (\E r \in Runs : Step(r)) \/ Crash \/ Quiet

Spec == Init /\ [][Next]_vars
-----------------------------------------------------------------------------
(* Properties. *)

\* The types of what the repository and the runs' outcomes are.
RepoTypes ==
  /\ pc \in [Runs -> PCs]
  /\ branches \subseteq Names /\ worktrees \subseteq branches
  /\ tree \in [Names -> SUBSET Runs]
  /\ commits \in [Names -> SUBSET [by : Runs, tree : SUBSET Runs]]
  /\ {workspace, green} \subseteq [Runs -> BOOLEAN]
  /\ outcome \in [Runs -> {"none", "completed", "failed"}]

\* The types of the lessons and of what the runs hold of them.
LessonTypes ==
  /\ memory_backend \in {"in_memory", "sql"} /\ episodes \in [Runs -> Nat]
  /\ DOMAIN memory \subseteq Ids /\ IsFiniteSet(DOMAIN memory)
  /\ \A i \in DOMAIN memory : memory[i] \in [lesson : Lessons, reward : Nat]
  /\ {retrieved, reflections, todo} \subseteq [Runs -> SUBSET [id : Ids, lesson : Lessons]]
  /\ read \in [Runs -> Nat] /\ {calls, crashes} \subseteq Nat

\* The types; a run holds at most k lessons it retrieved, and its own, in their order.
TypeOK ==
  /\ RepoTypes
  /\ LessonTypes
  /\ \A r \in Runs :
       /\ IsFiniteSet(retrieved[r]) /\ Cardinality(retrieved[r]) <= retrieval_k
       /\ IsFiniteSet(reflections[r])
       /\ {c.lesson.no : c \in reflections[r]} = 1..Cardinality(reflections[r])
       /\ \A c \in reflections[r] : c.lesson.by = r
       /\ todo[r] \subseteq reflections[r]

\* Runs never collide, though their short ids may: a run from bootstrap to its
\* review has a worktree, the worktree that a run was given holds no changes but
\* its own, also when it raised or was approved again, and every commit holds
\* nothing but the changes of the run that made it (bootstrap.py:23,
\* create_worktree; docs/dev_orchestrator.md:66).
Isolated ==
  /\ \A r \in Runs :
       /\ pc[r] \in AtWork => workspace[r] /\ short_id[r] \in worktrees
       /\ workspace[r] => tree[short_id[r]] \subseteq {r}
  /\ \A n \in Names : \A c \in commits[n] : c.tree \subseteq {c.by}

\* What a run that reports "completed" committed is on its branch, whatever
\* teardowns, restarts and later runs of the same short id do (finalize, teardown.py).
Delivered ==
  \A r \in Runs :
    outcome[r] = "completed" => \E c \in commits[short_id[r]] : c.by = r

\* A lesson that a run wrote or retrieved is in the memory as it was written.  In
\* the process's memory it may be lost by a crash, or to a lesson whose id the
\* LLM filled in; the database refuses that (record_lesson, memory.py:53, 94).
LessonsKept ==
  \A c \in Copies :
    \/ c.id \in DOMAIN memory /\ memory[c.id].lesson = c.lesson
    \/ /\ memory_backend = "in_memory"
       /\ IF c.id \in DOMAIN memory THEN memory[c.id].lesson.filled ELSE crashes > 0

\* In the database a lesson earns, beyond the reward it was written with, at most
\* one for every episode that the run that wrote it was told to have had, nothing
\* unless that run was completed, and something once it got through learn: so
\* exactly one if it was told once.  A run that is approved again, after a failure,
\* a crash or its end, tells its episode and rewards its lessons again; being
\* retrieved by other runs, or meeting their ids, adds nothing and takes nothing.
\* Calls of one and the same run must not overlap, which approve() does not see to:
\* two would read the same reward (learn.py:33-40, reinforce, memory.py:113).
RewardIsOwn ==
  memory_backend = "sql" =>
    \A i \in DOMAIN memory :
      LET m == memory[i]
          by == m.lesson.by
          earned == m.reward - Given(m.lesson)
      IN /\ earned \in 0..episodes[by]
         /\ earned > 0 => outcome[by] = "completed"
         /\ pc[by] \in {"teardown", "done"} /\ outcome[by] = "completed"
              /\ [id |-> i, lesson |-> m.lesson] \in reflections[by]
              => earned > 0
-----------------------------------------------------------------------------
(* Why runs are isolated and what they delivered stays: a worktree has one   *)
(* owner, because a name is given out only while its branch is free and no   *)
(* step removes a branch; where there is no worktree there are no changes;   *)
(* and a completed run has a branch, so that none of its calls gets past     *)
(* bootstrap again and changes its report.                                   *)

OneOwner ==
  \A r, q \in Runs : workspace[r] /\ workspace[q] /\ short_id[r] = short_id[q] => r = q

CleanWithoutWorktree == \A n \in Names \ worktrees : tree[n] = {}

CompletedIsOver ==
  \A r \in Runs :
    /\ workspace[r] => short_id[r] \in branches
    /\ green[r] => workspace[r]
    /\ outcome[r] = "completed" => green[r] /\ pc[r] \notin AtWork

RepoInv ==
  /\ RepoTypes
  /\ Isolated
  /\ Delivered
  /\ OneOwner
  /\ CleanWithoutWorktree
  /\ CompletedIsOver

-----------------------------------------------------------------------------
(* Why rewards are right: while a run goes through its lessons, those that   *)
(* wait for their turn have not had what this episode brings, and the others *)
(* have; and what it read is still there when it writes.                     *)

AfterLearn == {"reinforce", "rewrite", "teardown", "done"}

InTurn(r) ==
  /\ todo[r] # {} => pc[r] \in {"reinforce", "rewrite"} /\ outcome[r] = "completed"
  /\ pc[r] = "rewrite" =>
       todo[r] # {} /\ (memory_backend = "sql" => read[r] = memory[Turn(r).id].reward)

RewardedSoFar(r) ==
  memory_backend = "sql" =>
    \A c \in reflections[r] :
      /\ c \in todo[r] => memory[c.id].reward < Given(c.lesson) + episodes[r]
      /\ pc[r] \in AfterLearn /\ outcome[r] = "completed" /\ c \notin todo[r] =>
           memory[c.id].reward > Given(c.lesson)

RewardsEarned ==
  memory_backend = "sql" =>
    \A i \in DOMAIN memory :
      LET m == memory[i]
      IN /\ Given(m.lesson) <= m.reward /\ m.reward <= Given(m.lesson) + episodes[m.lesson.by]
         /\ m.reward > Given(m.lesson) => outcome[m.lesson.by] = "completed"

RunInv(r) == InTurn(r) /\ RewardedSoFar(r)

IInv ==
  /\ TypeOK
  /\ RepoInv
  /\ LessonsKept
  /\ RewardsEarned
  /\ \A r \in Runs : RunInv(r)
=============================================================================
