------------------------- MODULE SharedLessonsProofs -------------------------
(***************************************************************************)
(* Proofs about the lessons of SharedRuns, for any runs, any number of     *)
(* lessons and any bounds: a lesson stays as it was written, and its       *)
(* reward is the one it earned.  They rest on what SharedRunsProofs shows  *)
(* of the repository: that a completed run has a branch.                   *)
(***************************************************************************)
EXTENDS SharedRunsProofs, FiniteSetTheorems, WellFoundedInduction

\* A lesson as a run holds it.
Held == [id : Ids, lesson : Lessons]

\* Every nonempty set of numbers has a least one ...
LEMMA LeastNumber ==
  ASSUME NEW S, S \subseteq Nat, S # {}
  PROVE  \E m \in S : \A n \in S : m <= n
PROOF
  <1> DEFINE R == {p \in Nat \X Nat : p[1] < p[2]}
  <1>1. IsWellFoundedOn(R, Nat)
    BY NatLessThanWellFounded DEF OpToRel
  <1>2. PICK m \in S : \A n \in S : ~(<<n, m>> \in R)
    BY <1>1, WFMin
  <1>3. \A n \in S : n \in Nat /\ m \in Nat /\ ~(n < m)
    BY <1>2
  <1>4. QED
    BY <1>3

\* ... so that it is some lesson's turn.
LEMMA TurnIsToDo ==
  ASSUME TypeOK, NEW r \in Runs, todo[r] # {}
  PROVE  Turn(r) \in todo[r]
PROOF
  <1> DEFINE S == {c.lesson.no : c \in todo[r]}
  <1>1. \A c \in todo[r] : c.lesson.no \in Nat
    BY DEF TypeOK, LessonTypes, Lessons
  <1>2. PICK m \in S : \A n \in S : m <= n
    BY <1>1, LeastNumber
  <1>3. \E c \in todo[r] : \A d \in todo[r] : c.lesson.no <= d.lesson.no
    BY <1>2
  <1>4. QED
    BY <1>3 DEF Turn

\* The types of one run's lessons, each by itself.
LEMMA LessonTyping ==
  ASSUME TypeOK, NEW r \in Runs
  PROVE  /\ retrieved[r] \subseteq Held /\ reflections[r] \subseteq Held
         /\ todo[r] \subseteq reflections[r] /\ read[r] \in Nat
         /\ IsFiniteSet(reflections[r]) /\ Cardinality(reflections[r]) \in Nat
         /\ \A c \in reflections[r] :
              c.id \in Ids /\ c.lesson \in Lessons /\ c.lesson.by = r
              /\ c.lesson.no \in 1..Cardinality(reflections[r])
PROOF
  <1>1. IsFiniteSet(reflections[r]) /\ Cardinality(reflections[r]) \in Nat
    BY FS_CardinalityType DEF TypeOK
  <1>2. retrieved[r] \subseteq Held /\ reflections[r] \subseteq Held
    BY DEF TypeOK, LessonTypes, Held
  <1>3. \A c \in reflections[r] : c.lesson.no \in 1..Cardinality(reflections[r])
    BY DEF TypeOK
  <1>4. QED
    BY <1>1, <1>2, <1>3 DEF TypeOK, LessonTypes, Held

\* In the database the lessons a run wrote are there, and each is told by its id.
LEMMA WrittenInDatabase ==
  ASSUME TypeOK, LessonsKept, memory_backend = "sql", NEW r \in Runs, NEW c \in reflections[r]
  PROVE  /\ c.id \in DOMAIN memory /\ memory[c.id].lesson = c.lesson
         /\ memory[c.id].lesson.by = r
         /\ \A q \in Runs : \A d \in reflections[q] : d.id = c.id => d = c /\ q = r
PROOF
  <1>1. \A q \in Runs : \A d \in reflections[q] :
          d.id \in DOMAIN memory /\ memory[d.id].lesson = d.lesson
    BY DEF LessonsKept, Copies
  <1>2. \A q \in Runs : \A d \in reflections[q] : d \in Held /\ d.lesson.by = q
    BY LessonTyping
  <1>3. \A d, e \in Held : d.id = e.id /\ d.lesson = e.lesson => d = e
    BY DEF Held
  <1>4. QED
    BY <1>1, <1>2, <1>3

-----------------------------------------------------------------------------
(* What a step leaves alone. *)

\* A run to which nothing happened, nor to the rewards of its lessons.
LEMMA RunUntouched ==
  ASSUME IInv, NEW r \in Runs,
         memory_backend' = memory_backend, pc'[r] = pc[r], outcome'[r] = outcome[r],
         todo'[r] = todo[r], read'[r] = read[r], reflections'[r] = reflections[r],
         episodes'[r] = episodes[r],
         memory_backend = "sql" =>
           \A c \in reflections[r] : memory'[c.id].reward = memory[c.id].reward
  PROVE  RunInv(r)'
PROOF
  <1>1. Turn(r)' = Turn(r)
    BY DEF Turn
  <1>2. todo[r] # {} => Turn(r) \in reflections[r]
    BY TurnIsToDo DEF IInv, TypeOK
  <1>3. InTurn(r)'
    BY <1>1, <1>2 DEF IInv, RunInv, InTurn
  <1>4. RewardedSoFar(r)'
    BY DEF IInv, RunInv, RewardedSoFar, Given
  <1>5. QED
    BY <1>3, <1>4 DEF RunInv

\* Nothing happened to the lessons, and no run is less completed than before.
LEMMA LessonsUntouched ==
  ASSUME IInv, RepoInv',
         UNCHANGED <<memory_backend, memory, retrieved, reflections>>, crashes' = crashes,
         episodes' \in [Runs -> Nat], \A r \in Runs : episodes[r] <= episodes'[r],
         calls' \in Nat, todo' \in [Runs -> SUBSET Held], read' \in [Runs -> Nat],
         \A r \in Runs : todo'[r] \subseteq todo[r] \/ todo'[r] \subseteq reflections[r],
         \A r \in Runs : outcome[r] = "completed" => outcome'[r] = "completed"
  PROVE  TypeOK' /\ LessonsKept' /\ RewardsEarned'
PROOF
  <1>1. TypeOK /\ LessonsKept /\ RewardsEarned /\ RepoTypes'
    BY DEF IInv, RepoInv
  <1>2. TypeOK'
    <2>1. LessonTypes'
      BY <1>1 DEF TypeOK, LessonTypes, Held
    <2>2. QED
      BY <1>1, <2>1 DEF TypeOK
  <1>3. LessonsKept'
    <2>1. Copies' = Copies
      BY DEF Copies
    <2>2. QED
      BY <1>1, <2>1 DEF LessonsKept
  <1>4. RewardsEarned'
    <2>1. SUFFICES ASSUME memory_backend = "sql", NEW i \in DOMAIN memory
          PROVE  LET m == memory[i]
                 IN /\ Given(m.lesson) <= m.reward
                    /\ m.reward <= Given(m.lesson) + episodes'[m.lesson.by]
                    /\ m.reward > Given(m.lesson) => outcome'[m.lesson.by] = "completed"
      BY DEF RewardsEarned, Given
    <2> DEFINE m == memory[i]
    <2>2. m.lesson.by \in Runs /\ m.reward \in Nat /\ Given(m.lesson) \in Nat
      BY <1>1, <2>1 DEF TypeOK, LessonTypes, Lessons, Given
    <2>3. /\ Given(m.lesson) <= m.reward
          /\ m.reward <= Given(m.lesson) + episodes[m.lesson.by]
          /\ m.reward > Given(m.lesson) => outcome[m.lesson.by] = "completed"
      BY <1>1, <2>1 DEF RewardsEarned
    <2>4. /\ episodes[m.lesson.by] \in Nat /\ episodes'[m.lesson.by] \in Nat
          /\ episodes[m.lesson.by] <= episodes'[m.lesson.by]
      BY <1>1, <2>2 DEF TypeOK, LessonTypes
    <2> HIDE DEF m
    <2>5. QED
      BY <2>2, <2>3, <2>4 DEF m
  <1>5. QED
    BY <1>2, <1>3, <1>4

\* One run went on, which has nothing to reward.
LEMMA RunGoesOn ==
  ASSUME IInv, RepoInv', NEW r \in Runs, NEW to \in PCs,
         pc' = [pc EXCEPT ![r] = to],
         UNCHANGED <<memory_backend, memory, episodes, retrieved, reflections, learning, crashes>>,
         calls' \in Nat,
         \A q \in Runs : q # r => outcome'[q] = outcome[q],
         outcome[r] = "completed" => outcome'[r] = "completed",
         todo[r] = {}, to # "rewrite",
         to \in AfterLearn /\ outcome'[r] = "completed" =>
           pc[r] \in AfterLearn /\ outcome[r] = "completed"
  PROVE  IInv'
PROOF
  <1>1. /\ TypeOK /\ RunInv(r) /\ pc \in [Runs -> PCs] /\ episodes \in [Runs -> Nat]
        /\ todo \in [Runs -> SUBSET Held] /\ read \in [Runs -> Nat]
    BY DEF IInv, RepoInv, RepoTypes, TypeOK, LessonTypes, Held
  <1>2. TypeOK' /\ LessonsKept' /\ RewardsEarned'
    <2>1. /\ todo' \in [Runs -> SUBSET Held] /\ read' \in [Runs -> Nat]
          /\ episodes' \in [Runs -> Nat] /\ \A q \in Runs : episodes[q] <= episodes'[q]
          /\ \A q \in Runs : todo'[q] \subseteq todo[q]
      BY <1>1 DEF learning
    <2>2. QED
      BY <2>1, LessonsUntouched
  <1>3. ASSUME NEW q \in Runs, q # r PROVE RunInv(q)'
    <2>1. pc'[q] = pc[q]
      BY <1>1, <1>3
    <2>2. QED
      BY <1>3, <2>1, RunUntouched DEF learning
  <1>4. RunInv(r)'
    <2>1. pc'[r] = to /\ todo'[r] = {} /\ reflections' = reflections /\ memory' = memory
      BY <1>1 DEF learning
    <2>2. InTurn(r)'
      BY <2>1 DEF InTurn
    <2>3. RewardedSoFar(r)'
      BY <1>1, <2>1 DEF RunInv, RewardedSoFar, AfterLearn, Given
    <2>4. QED
      BY <2>2, <2>3 DEF RunInv
  <1>5. QED
    BY <1>2, <1>3, <1>4 DEF IInv

-----------------------------------------------------------------------------
(* The steps of a run. *)

\* What holds of any run: one that is not reinforcing has nothing to reward.
LEMMA AtRest ==
  ASSUME IInv, NEW r \in Runs
  PROVE  /\ TypeOK /\ LessonsKept /\ RewardsEarned /\ RunInv(r)
         /\ pc \in [Runs -> PCs] /\ outcome \in [Runs -> {"none", "completed", "failed"}]
         /\ calls \in Nat /\ episodes \in [Runs -> Nat]
         /\ pc[r] \notin {"reinforce", "rewrite"} => todo[r] = {}
         /\ outcome[r] = "completed" => green[r]
PROOF
  BY DEF IInv, RepoInv, RepoTypes, TypeOK, LessonTypes, RunInv, InTurn, CompletedIsOver

\* The nodes between bootstrap and learn that leave the lessons alone, approve and teardown.
LEMMA OtherNodes ==
  ASSUME SharedConstants, IInv, RepoInv', NEW r \in Runs,
         \/ create_worktree(r) \/ create_refused(r) \/ apply_patch(r) \/ verify(r)
         \/ human_review(r) \/ approve(r) \/ learned(r) \/ teardown(r)
  PROVE  IInv'
PROOF
  <1> USE AtRest DEF Goto, PCs, Resting, AtWork, Closing, AfterLearn
  <1>1. CASE create_worktree(r)
    <2>1. PICK to \in {"retrieve", "raised"} :
            /\ pc[r] = "bootstrap" /\ pc' = [pc EXCEPT ![r] = to]
            /\ UNCHANGED <<store, retrieved, reflections, outcome, learning, calls, crashes>>
      BY <1>1 DEF create_worktree
    <2>2. QED
      BY <2>1, RunGoesOn DEF store
  <1>2. CASE create_refused(r)
    BY <1>2, RunGoesOn DEF create_refused, thread, store
  <1>3. CASE apply_patch(r)
    <2>1. pc' = [pc EXCEPT ![r] = "develop"] /\ pc[r] = "develop"
      BY <1>3 DEF apply_patch
    <2>2. QED
      BY <1>3, <2>1, RunGoesOn DEF apply_patch, thread, store
  <1>4. CASE verify(r)
    <2>1. PICK to \in {"verified", "develop", "finalize"} :
            pc[r] = "develop" /\ pc' = [pc EXCEPT ![r] = to]
      BY <1>4 DEF verify
    <2>2. QED
      BY <1>4, <2>1, RunGoesOn DEF verify, store
  <1>5. CASE human_review(r)
    BY <1>5, RunGoesOn DEF human_review, thread, store
  <1>6. CASE approve(r)
    <2>1. /\ pc[r] \notin {"reinforce", "rewrite"} /\ pc' = [pc EXCEPT ![r] = "finalize"]
          /\ UNCHANGED <<store, retrieved, reflections, outcome, learning, crashes>>
      BY <1>6 DEF approve, thread
    <2>2. calls' \in Nat
      BY <1>6 DEF approve
    <2>3. QED
      BY <2>1, <2>2, RunGoesOn DEF store
  <1>7. CASE learned(r)
    BY <1>7, RunGoesOn DEF learned, thread, store
  <1>8. CASE teardown(r)
    BY <1>8, RunGoesOn DEF teardown, thread, store
  <1>9. QED
    BY <1>1, <1>2, <1>3, <1>4, <1>5, <1>6, <1>7, <1>8

\* finalize: a run that was completed has a green report, and is completed again.
LEMMA FinalizeLessons ==
  ASSUME IInv, RepoInv', NEW r \in Runs, finalize(r)
  PROVE  IInv'
PROOF
  <1>1. /\ pc[r] = "finalize" /\ pc' = [pc EXCEPT ![r] = "learn"]
        /\ outcome' = [outcome EXCEPT ![r] = IF green[r] THEN "completed" ELSE "failed"]
        /\ UNCHANGED <<memory_backend, memory, episodes, retrieved, reflections, learning, calls,
                       crashes>>
    BY DEF finalize, Goto, store
  <1>2. todo[r] = {} /\ "learn" \in PCs /\ calls' \in Nat
    BY <1>1, AtRest DEF PCs, Closing
  <1>3. /\ \A q \in Runs : q # r => outcome'[q] = outcome[q]
        /\ outcome[r] = "completed" => outcome'[r] = "completed"
    BY <1>1, AtRest
  <1>4. QED
    BY <1>1, <1>2, <1>3, RunGoesOn DEF AfterLearn

\* A new start forgets the lessons of the last one.
LEMMA Start ==
  ASSUME IInv, RepoInv', NEW r \in Runs, start(r)
  PROVE  IInv'
PROOF
  <1>1. /\ pc[r] \in Resting /\ pc' = [pc EXCEPT ![r] = "bootstrap"] /\ calls' = calls + 1
        /\ retrieved' = [retrieved EXCEPT ![r] = {}]
        /\ reflections' = [reflections EXCEPT ![r] = {}]
        /\ UNCHANGED <<memory_backend, memory, episodes, outcome, todo, read, crashes>>
    BY DEF start, learning, store
  <1>2. /\ TypeOK /\ LessonsKept /\ RewardsEarned /\ todo[r] = {} /\ RepoTypes'
        /\ retrieved \in [Runs -> SUBSET Held] /\ reflections \in [Runs -> SUBSET Held]
        /\ pc \in [Runs -> PCs]
    BY <1>1, AtRest DEF Resting, RepoInv, TypeOK, LessonTypes, Held
  <1>3. \A q \in Runs :
          IF q = r THEN retrieved'[q] = {} /\ reflections'[q] = {}
          ELSE retrieved'[q] = retrieved[q] /\ reflections'[q] = reflections[q] /\ pc'[q] = pc[q]
    BY <1>1, <1>2
  <1>4. TypeOK'
    <2>1. LessonTypes'
      BY <1>1, <1>2, <1>3 DEF TypeOK, LessonTypes, Held
    <2>2. ASSUME NEW q \in Runs
          PROVE  /\ IsFiniteSet(retrieved'[q]) /\ Cardinality(retrieved'[q]) <= retrieval_k
                 /\ IsFiniteSet(reflections'[q])
                 /\ {c.lesson.no : c \in reflections'[q]} = 1..Cardinality(reflections'[q])
                 /\ \A c \in reflections'[q] : c.lesson.by = q
                 /\ todo'[q] \subseteq reflections'[q]
      <3>1. CASE q = r
        <4>1. retrieval_k \in Nat
          BY SharedConstants
        <4>2. QED
          BY <1>1, <1>2, <1>3, <3>1, <4>1, FS_EmptySet
      <3>2. CASE q # r
        BY <1>1, <1>2, <1>3, <3>2 DEF TypeOK
      <3>3. QED
        BY <3>1, <3>2
    <2>3. QED
      BY <1>2, <2>1, <2>2 DEF TypeOK
  <1>5. LessonsKept'
    <2>1. Copies' \subseteq Copies
      BY <1>3 DEF Copies
    <2>2. QED
      BY <1>1, <1>2, <2>1 DEF LessonsKept
  <1>6. RewardsEarned'
    BY <1>1, <1>2 DEF RewardsEarned, Given
  <1>7. ASSUME NEW q \in Runs PROVE RunInv(q)'
    <2>1. CASE q = r
      <3>1. pc'[r] = "bootstrap" /\ reflections'[r] = {} /\ todo'[r] = {}
        BY <1>1, <1>2, <1>3
      <3>2. QED
        BY <2>1, <3>1 DEF RunInv, InTurn, RewardedSoFar
    <2>2. CASE q # r
      BY <1>1, <1>3, <2>2, RunUntouched
    <2>3. QED
      BY <2>1, <2>2
  <1>8. QED
    BY <1>4, <1>5, <1>6, <1>7 DEF IInv

\* The copies of at most k lessons are at most k.
LEMMA CopiesBounded ==
  ASSUME TypeOK, NEW ids \in Best
  PROVE  LET taken == {[id |-> i, lesson |-> memory[i].lesson] : i \in ids}
         IN  /\ taken \subseteq Held
             /\ IsFiniteSet(taken) /\ Cardinality(taken) <= retrieval_k
PROOF
  <1> DEFINE taken == {[id |-> i, lesson |-> memory[i].lesson] : i \in ids}
             f == [i \in ids |-> [id |-> i, lesson |-> memory[i].lesson]]
  <1>1. ids \subseteq DOMAIN memory /\ Cardinality(ids) <= retrieval_k
    BY DEF Best
  <1>2. IsFiniteSet(ids)
    BY <1>1, FS_Subset DEF TypeOK, LessonTypes
  <1>3. f \in Surjection(ids, taken)
    BY DEF Surjection
  <1>4. IsFiniteSet(taken) /\ Cardinality(taken) <= Cardinality(ids)
    BY <1>2, <1>3, FS_Surjection
  <1>5. Cardinality(taken) \in Nat /\ Cardinality(ids) \in Nat /\ retrieval_k \in Nat
    BY <1>2, <1>4, FS_CardinalityType, SharedConstants
  <1>6. taken \subseteq Held
    BY <1>1 DEF TypeOK, LessonTypes, Held
  <1>7. QED
    BY <1>1, <1>4, <1>5, <1>6

\* What is retrieved is in the memory.
LEMMA Retrieve ==
  ASSUME IInv, RepoInv', NEW r \in Runs, retrieve_lessons(r)
  PROVE  IInv'
PROOF
  <1>1. /\ pc[r] = "retrieve" /\ pc' = [pc EXCEPT ![r] = "develop"]
        /\ UNCHANGED <<memory_backend, memory, episodes, reflections, outcome, todo, read, calls,
                       crashes>>
    BY DEF retrieve_lessons, Goto, learning, store
  <1>2. PICK ids \in Best :
          retrieved' = [retrieved EXCEPT ![r] =
                          {[id |-> i, lesson |-> memory[i].lesson] : i \in ids}]
    BY DEF retrieve_lessons
  <1> DEFINE taken == {[id |-> i, lesson |-> memory[i].lesson] : i \in ids}
  <1>3. /\ TypeOK /\ LessonsKept /\ RewardsEarned /\ todo[r] = {} /\ RepoTypes'
        /\ retrieved \in [Runs -> SUBSET Held] /\ pc \in [Runs -> PCs]
    BY <1>1, AtRest DEF RepoInv, TypeOK, LessonTypes, Held
  <1>4. taken \subseteq Held /\ IsFiniteSet(taken) /\ Cardinality(taken) <= retrieval_k
    BY <1>3, CopiesBounded
  <1>5. \A c \in taken : c.id \in DOMAIN memory /\ memory[c.id].lesson = c.lesson
    BY DEF Best
  <1>6. retrieved' = [retrieved EXCEPT ![r] = taken]
    BY <1>2
  <1> HIDE DEF taken
  <1>7. \A q \in Runs : IF q = r THEN retrieved'[q] = taken
                        ELSE retrieved'[q] = retrieved[q] /\ pc'[q] = pc[q]
    BY <1>1, <1>3, <1>6
  <1>8. TypeOK'
    <2>1. LessonTypes'
      BY <1>1, <1>3, <1>4, <1>6 DEF TypeOK, LessonTypes, Held
    <2>2. \A q \in Runs : IsFiniteSet(retrieved'[q]) /\ Cardinality(retrieved'[q]) <= retrieval_k
      BY <1>3, <1>4, <1>7 DEF TypeOK
    <2>3. QED
      BY <1>1, <1>3, <2>1, <2>2 DEF TypeOK
  <1>9. LessonsKept'
    <2>1. \A c \in Copies' : c \in Copies \/ c \in taken
      BY <1>1, <1>7 DEF Copies
    <2>2. QED
      BY <1>1, <1>3, <1>5, <2>1 DEF LessonsKept
  <1>10. RewardsEarned'
    BY <1>1, <1>3 DEF RewardsEarned, Given
  <1>11. ASSUME NEW q \in Runs PROVE RunInv(q)'
    <2>1. CASE q = r
      <3>1. pc'[r] = "develop"
        BY <1>1, <1>3
      <3>2. QED
        BY <1>1, <1>3, <2>1, <3>1 DEF RunInv, InTurn, RewardedSoFar, AfterLearn
    <2>2. CASE q # r
      BY <1>1, <1>7, <2>2, RunUntouched
    <2>3. QED
      BY <2>1, <2>2
  <1>12. QED
    BY <1>8, <1>9, <1>10, <1>11 DEF IInv

\* A lesson goes in under an id no lesson of the database has.
LEMMA Record ==
  ASSUME IInv, RepoInv', NEW r \in Runs, record_lesson(r)
  PROVE  IInv'
PROOF
  <1>1. PICK filled \in BOOLEAN, id \in Ids :
          LET lesson == [by |-> r, no |-> Cardinality(reflections[r]) + 1, filled |-> filled]
          IN /\ IF filled THEN Accepts(id) ELSE id \in Fresh
             /\ memory' = Stored(id, lesson)
             /\ reflections' = [reflections EXCEPT ![r] = @ \cup {[id |-> id, lesson |-> lesson]}]
    BY DEF record_lesson
  <1> DEFINE no == Cardinality(reflections[r]) + 1
             lesson == [by |-> r, no |-> no, filled |-> filled]
             new == [id |-> id, lesson |-> lesson]
  <1>2. /\ pc[r] = "develop" /\ Cardinality(reflections[r]) < MaxReflections
        /\ UNCHANGED <<pc, memory_backend, episodes, retrieved, outcome, todo, read, calls, crashes>>
    BY DEF record_lesson, learning
  <1>3. /\ TypeOK /\ LessonsKept /\ RewardsEarned /\ todo[r] = {} /\ RepoTypes'
        /\ reflections \in [Runs -> SUBSET Held] /\ episodes[r] \in Nat
    BY <1>2, AtRest DEF RepoInv, TypeOK, LessonTypes, Held
  <1>4. /\ IsFiniteSet(reflections[r]) /\ Cardinality(reflections[r]) \in Nat
        /\ \A c \in reflections[r] : c.lesson.no \in 1..Cardinality(reflections[r])
    BY <1>3, LessonTyping
  <1>5. /\ lesson \in Lessons /\ lesson.by = r /\ lesson.no = no /\ lesson.filled = filled
        /\ new \in Held /\ new.id = id /\ new.lesson = lesson /\ Given(lesson) \in Nat
    BY <1>2, <1>4, SharedConstants DEF Lessons, Held, Given
  <1>6. memory' = Stored(id, lesson) /\ reflections' = [reflections EXCEPT ![r] = @ \cup {new}]
    BY <1>1
  <1>7. filled \/ (id \notin DOMAIN memory /\ \A c \in Copies : c.id # id)
    BY <1>1 DEF Fresh
  <1>8. memory_backend = "sql" => id \notin DOMAIN memory
    BY <1>1 DEF Fresh, Accepts
  <1> HIDE DEF new, lesson
  <1>9. /\ DOMAIN memory' = DOMAIN memory \cup {id}
        /\ memory'[id] = [lesson |-> lesson, reward |-> Given(lesson)]
        /\ \A i \in DOMAIN memory : i # id => memory'[i] = memory[i]
    BY <1>6 DEF Stored
  <1>10. \A q \in Runs : IF q = r THEN reflections'[q] = reflections[q] \cup {new}
                         ELSE reflections'[q] = reflections[q]
    BY <1>3, <1>6
  <1>11. TypeOK'
    <2>1. IsFiniteSet(DOMAIN memory')
      <3>1. IsFiniteSet(DOMAIN memory)
        BY <1>3 DEF TypeOK, LessonTypes
      <3>2. IsFiniteSet(DOMAIN memory \cup {id})
        BY <3>1, FS_AddElement
      <3>3. QED
        BY <1>9, <3>2, Zenon
    <2>2. \A i \in DOMAIN memory' : memory'[i] \in [lesson : Lessons, reward : Nat]
      BY <1>3, <1>5, <1>9 DEF TypeOK, LessonTypes
    <2>3. LessonTypes'
      <3>1. reflections' \in [Runs -> SUBSET Held]
        BY <1>3, <1>5, <1>6
      <3>2. DOMAIN memory' \subseteq Ids
        BY <1>3, <1>9 DEF TypeOK, LessonTypes
      <3>3. QED
        BY <1>2, <1>3, <2>1, <2>2, <3>1, <3>2 DEF TypeOK, LessonTypes, Held
    <2>4. new \notin reflections[r]
      BY <1>4, <1>5
    <2>5. IsFiniteSet(reflections'[r]) /\ Cardinality(reflections'[r]) = no
      BY <1>4, <1>10, <2>4, FS_AddElement
    <2>6. {c.lesson.no : c \in reflections'[r]} = 1..Cardinality(reflections'[r])
      <3>1. {c.lesson.no : c \in reflections[r]} = 1..(no - 1)
        BY <1>3, <1>4 DEF TypeOK
      <3>2. {c.lesson.no : c \in reflections'[r]} = {c.lesson.no : c \in reflections[r]} \cup {no}
        BY <1>5, <1>10
      <3>3. 1..(no - 1) \cup {no} = 1..no
        BY <1>4
      <3>4. QED
        BY <2>5, <3>1, <3>2, <3>3
    <2>7. ASSUME NEW q \in Runs
          PROVE  /\ IsFiniteSet(retrieved'[q]) /\ Cardinality(retrieved'[q]) <= retrieval_k
                 /\ IsFiniteSet(reflections'[q])
                 /\ {c.lesson.no : c \in reflections'[q]} = 1..Cardinality(reflections'[q])
                 /\ \A c \in reflections'[q] : c.lesson.by = q
                 /\ todo'[q] \subseteq reflections'[q]
      <3>1. CASE q = r
        BY <1>2, <1>3, <1>5, <1>10, <2>5, <2>6, <3>1 DEF TypeOK
      <3>2. CASE q # r
        BY <1>2, <1>3, <1>10, <3>2 DEF TypeOK
      <3>3. QED
        BY <3>1, <3>2
    <2>8. QED
      BY <1>3, <2>3, <2>7 DEF TypeOK
  <1>12. LessonsKept'
    <2>1. SUFFICES ASSUME NEW c \in Copies'
          PROVE  \/ c.id \in DOMAIN memory' /\ memory'[c.id].lesson = c.lesson
                 \/ /\ memory_backend = "in_memory"
                    /\ IF c.id \in DOMAIN memory' THEN memory'[c.id].lesson.filled
                       ELSE crashes > 0
      BY <1>2 DEF LessonsKept
    <2>2. c \in Copies \/ c = new
      BY <1>2, <1>10 DEF Copies
    <2>3. CASE c = new
      BY <1>5, <1>9, <2>3
    <2>4. CASE c \in Copies /\ c.id = id
      <3>1. filled /\ memory'[id].lesson.filled = filled
        BY <1>5, <1>7, <1>9, <2>4
      <3>2. memory_backend = "in_memory"
        BY <1>3, <1>8, <2>4 DEF LessonsKept, TypeOK, LessonTypes
      <3>3. QED
        BY <1>9, <2>4, <3>1, <3>2
    <2>5. CASE c \in Copies /\ c.id # id
      <3>1. \/ c.id \in DOMAIN memory /\ memory[c.id].lesson = c.lesson
            \/ /\ memory_backend = "in_memory"
               /\ IF c.id \in DOMAIN memory THEN memory[c.id].lesson.filled ELSE crashes > 0
        BY <1>3, <2>5 DEF LessonsKept
      <3>2. /\ c.id \in DOMAIN memory' <=> c.id \in DOMAIN memory
            /\ c.id \in DOMAIN memory => memory'[c.id] = memory[c.id]
        BY <1>9, <2>5
      <3>3. QED
        BY <3>1, <3>2
    <2>6. QED
      BY <2>2, <2>3, <2>4, <2>5
  <1>13. RewardsEarned'
    <2>1. SUFFICES ASSUME memory_backend = "sql", NEW i \in DOMAIN memory'
          PROVE  LET m == memory'[i]
                 IN /\ Given(m.lesson) <= m.reward
                    /\ m.reward <= Given(m.lesson) + episodes[m.lesson.by]
                    /\ m.reward > Given(m.lesson) => outcome[m.lesson.by] = "completed"
      BY <1>2 DEF RewardsEarned, Given
    <2>2. CASE i = id
      BY <1>3, <1>5, <1>9, <2>2
    <2>3. CASE i # id
      BY <1>3, <1>9, <2>1, <2>3 DEF RewardsEarned
    <2>4. QED
      BY <2>2, <2>3
  <1>14. ASSUME memory_backend = "sql", NEW q \in Runs, NEW c \in reflections[q]
         PROVE  memory'[c.id] = memory[c.id]
    BY <1>3, <1>8, <1>9, <1>14, WrittenInDatabase
  <1>15. ASSUME NEW q \in Runs PROVE RunInv(q)'
    <2>1. CASE q = r
      BY <1>2, <1>3, <2>1 DEF RunInv, InTurn, RewardedSoFar, AfterLearn
    <2>2. CASE q # r
      BY <1>2, <1>10, <1>14, <2>2, RunUntouched
    <2>3. QED
      BY <2>1, <2>2
  <1>16. QED
    BY <1>11, <1>12, <1>13, <1>15 DEF IInv

\* A run tells its episode; a completed one begins to reward what it wrote, none of
\* which was rewarded for this episode before.
LEMMA Learn ==
  ASSUME IInv, RepoInv', NEW r \in Runs, learn(r)
  PROVE  IInv'
PROOF
  <1>1. /\ pc[r] = "learn" /\ pc' = [pc EXCEPT ![r] = "reinforce"]
        /\ todo' = [todo EXCEPT ![r] = Earned(r)]
        /\ episodes' = [episodes EXCEPT ![r] = @ + 1]
        /\ UNCHANGED <<memory_backend, memory, retrieved, reflections, outcome, read, calls,
                       crashes>>
    BY DEF learn, Goto, thread
  <1>2. /\ TypeOK /\ RunInv(r) /\ Earned(r) \subseteq reflections[r]
        /\ todo \in [Runs -> SUBSET Held] /\ reflections \in [Runs -> SUBSET Held]
        /\ pc \in [Runs -> PCs] /\ calls \in Nat /\ read \in [Runs -> Nat]
        /\ episodes \in [Runs -> Nat] /\ todo[r] = {}
    BY <1>1, AtRest DEF TypeOK, LessonTypes, Held, Earned
  <1>3. /\ todo'[r] = Earned(r) /\ pc'[r] = "reinforce" /\ episodes'[r] = episodes[r] + 1
        /\ \A q \in Runs : q # r =>
             todo'[q] = todo[q] /\ pc'[q] = pc[q] /\ episodes'[q] = episodes[q]
    BY <1>1, <1>2
  <1>4. TypeOK' /\ LessonsKept' /\ RewardsEarned'
    <2>1. /\ todo' \in [Runs -> SUBSET Held] /\ episodes' \in [Runs -> Nat]
          /\ \A q \in Runs : episodes[q] <= episodes'[q]
      BY <1>1, <1>2, <1>3
    <2>2. \A q \in Runs : todo'[q] \subseteq todo[q] \/ todo'[q] \subseteq reflections[q]
      BY <1>2, <1>3
    <2>3. QED
      BY <1>1, <1>2, <2>1, <2>2, LessonsUntouched
  <1>5. ASSUME NEW q \in Runs PROVE RunInv(q)'
    <2>1. CASE q = r
      <3>1. InTurn(r)'
        BY <1>1, <1>3 DEF InTurn, Earned
      <3>2. RewardedSoFar(r)'
        <4>1. SUFFICES ASSUME memory_backend = "sql", NEW c \in reflections[r]
              PROVE  memory[c.id].reward < Given(c.lesson) + (episodes[r] + 1)
          BY <1>1, <1>3 DEF RewardedSoFar, Earned, Given
        <4>2. /\ c.id \in DOMAIN memory /\ memory[c.id].lesson = c.lesson
              /\ memory[c.id].lesson.by = r
          BY <1>2, <4>1, WrittenInDatabase, AtRest
        <4>3. memory[c.id].reward <= Given(c.lesson) + episodes[r]
          BY <4>1, <4>2, AtRest DEF RewardsEarned
        <4>4. memory[c.id].reward \in Nat /\ Given(c.lesson) \in Nat /\ episodes[r] \in Nat
          BY <1>2, <4>2 DEF TypeOK, LessonTypes, Given
        <4>5. QED
          BY <4>3, <4>4
      <3>3. QED
        BY <2>1, <3>1, <3>2 DEF RunInv
    <2>2. CASE q # r
      BY <1>1, <1>3, <2>2, RunUntouched
    <2>3. QED
      BY <2>1, <2>2
  <1>6. QED
    BY <1>4, <1>5 DEF IInv

\* What is read is what the lesson has.
LEMMA ReinforceRead ==
  ASSUME IInv, RepoInv', NEW r \in Runs, reinforce_read(r)
  PROVE  IInv'
PROOF
  <1> DEFINE t == Turn(r)
  <1>1. /\ pc[r] = "reinforce" /\ pc' = [pc EXCEPT ![r] = "rewrite"]
        /\ todo[r] # {} /\ t.id \in DOMAIN memory
        /\ read' = [read EXCEPT ![r] = memory[t.id].reward]
        /\ UNCHANGED <<memory_backend, memory, episodes, retrieved, reflections, outcome, todo, calls,
                       crashes>>
    BY DEF reinforce_read, Goto, thread, store
  <1>2. /\ TypeOK /\ RunInv(r) /\ pc \in [Runs -> PCs] /\ calls \in Nat
        /\ todo \in [Runs -> SUBSET Held] /\ read \in [Runs -> Nat]
        /\ memory[t.id].reward \in Nat /\ episodes \in [Runs -> Nat]
    BY <1>1, AtRest DEF TypeOK, LessonTypes, Held
  <1>3. t \in todo[r] /\ t \in reflections[r]
    BY <1>1, <1>2, TurnIsToDo, LessonTyping
  <1>4. /\ pc'[r] = "rewrite" /\ read'[r] = memory[t.id].reward
        /\ \A q \in Runs : q # r => read'[q] = read[q] /\ pc'[q] = pc[q]
    BY <1>1, <1>2
  <1>5. TypeOK' /\ LessonsKept' /\ RewardsEarned'
    BY <1>1, <1>2, LessonsUntouched
  <1>6. ASSUME NEW q \in Runs PROVE RunInv(q)'
    <2>1. CASE q = r
      <3>1. Turn(r)' = t
        BY <1>1 DEF Turn
      <3>2. InTurn(r)'
        BY <1>1, <1>2, <1>4, <3>1 DEF RunInv, InTurn
      <3>3. RewardedSoFar(r)'
        BY <1>1, <1>2, <1>4 DEF RunInv, RewardedSoFar, AfterLearn, Given
      <3>4. QED
        BY <2>1, <3>2, <3>3 DEF RunInv
    <2>2. CASE q # r
      BY <1>1, <1>4, <2>2, RunUntouched
    <2>3. QED
      BY <2>1, <2>2
  <1>7. QED
    BY <1>5, <1>6 DEF IInv

\* The lesson whose turn it was has one more than before, and no other lesson is touched.
LEMMA ReinforceWrite ==
  ASSUME IInv, RepoInv', NEW r \in Runs, reinforce_write(r)
  PROVE  IInv'
PROOF
  <1> DEFINE t == Turn(r)
  <1>1. /\ pc[r] = "rewrite" /\ pc' = [pc EXCEPT ![r] = "reinforce"]
        /\ memory' = [memory EXCEPT ![t.id].reward = read[r] + 1]
        /\ todo' = [todo EXCEPT ![r] = @ \ {t}] /\ read' = [read EXCEPT ![r] = 0]
        /\ UNCHANGED <<memory_backend, episodes, retrieved, reflections, outcome, calls, crashes>>
    BY DEF reinforce_write, Goto, thread
  <1>2. /\ TypeOK /\ LessonsKept /\ RewardsEarned /\ RunInv(r) /\ pc \in [Runs -> PCs]
        /\ todo \in [Runs -> SUBSET Held] /\ read \in [Runs -> Nat] /\ RepoTypes'
    BY AtRest DEF TypeOK, LessonTypes, Held, RepoInv
  <1>3. /\ todo[r] # {} /\ outcome[r] = "completed"
        /\ memory_backend = "sql" => read[r] = memory[t.id].reward
    BY <1>1, <1>2 DEF RunInv, InTurn
  <1>4. t \in todo[r] /\ t \in reflections[r] /\ t.lesson.by = r
    BY <1>2, <1>3, TurnIsToDo, LessonTyping
  <1> HIDE DEF t
  <1>5. /\ DOMAIN memory' = DOMAIN memory
        /\ \A i \in DOMAIN memory : i # t.id => memory'[i] = memory[i]
    BY <1>1
  <1>6. t.id \in DOMAIN memory =>
          memory'[t.id].lesson = memory[t.id].lesson /\ memory'[t.id].reward = read[r] + 1
        /\ memory'[t.id] \in [lesson : Lessons, reward : Nat]
    <2>1. ASSUME t.id \in DOMAIN memory
          PROVE  memory'[t.id] = [memory[t.id] EXCEPT !.reward = read[r] + 1]
      BY <1>1, <2>1
    <2>2. ASSUME t.id \in DOMAIN memory
          PROVE  memory[t.id] \in [lesson : Lessons, reward : Nat]
      BY <1>2, <2>2 DEF TypeOK, LessonTypes
    <2>3. read[r] + 1 \in Nat
      BY <1>2
    <2>4. QED
      BY <2>1, <2>2, <2>3
  <1>7. /\ pc'[r] = "reinforce" /\ todo'[r] = todo[r] \ {t}
        /\ \A q \in Runs : q # r => todo'[q] = todo[q] /\ read'[q] = read[q] /\ pc'[q] = pc[q]
    BY <1>1, <1>2
  <1>8. TypeOK'
    <2>1. \A i \in DOMAIN memory' : memory'[i] \in [lesson : Lessons, reward : Nat]
      BY <1>2, <1>5, <1>6 DEF TypeOK, LessonTypes
    <2>2. todo' \in [Runs -> SUBSET Held] /\ read' \in [Runs -> Nat]
      BY <1>1, <1>2
    <2>3. LessonTypes'
      BY <1>1, <1>2, <1>5, <2>1, <2>2 DEF TypeOK, LessonTypes, Held
    <2>4. \A q \in Runs : todo'[q] \subseteq todo[q]
      BY <1>7
    <2>5. QED
      BY <1>1, <1>2, <2>3, <2>4 DEF TypeOK
  <1>9. LessonsKept'
    <2>1. Copies' = Copies
      BY <1>1 DEF Copies
    <2>2. \A i \in DOMAIN memory : memory'[i].lesson = memory[i].lesson
      BY <1>5, <1>6
    <2>3. QED
      BY <1>1, <1>2, <1>5, <2>1, <2>2 DEF LessonsKept
  <1>10. ASSUME memory_backend = "sql"
         PROVE  /\ t.id \in DOMAIN memory /\ memory[t.id].lesson = t.lesson
                /\ memory'[t.id].reward = memory[t.id].reward + 1
                /\ memory[t.id].reward \in Nat /\ Given(t.lesson) \in Nat
                /\ Given(t.lesson) <= memory[t.id].reward
                /\ memory[t.id].reward < Given(t.lesson) + episodes[r]
                /\ episodes[r] \in Nat
                /\ \A q \in Runs : \A c \in reflections[q] :
                     c # t => memory'[c.id] = memory[c.id]
                /\ \A q \in Runs : q # r => t \notin reflections[q]
    <2>1. /\ t.id \in DOMAIN memory /\ memory[t.id].lesson = t.lesson
          /\ \A q \in Runs : \A c \in reflections[q] : c.id = t.id => c = t /\ q = r
      BY <1>2, <1>4, <1>10, WrittenInDatabase
    <2>2. \A q \in Runs : \A c \in reflections[q] : c.id \in DOMAIN memory
      BY <1>2, <1>10, WrittenInDatabase
    <2>3. memory[t.id].reward \in Nat /\ Given(t.lesson) \in Nat /\ episodes[r] \in Nat
      BY <1>2, <2>1 DEF TypeOK, LessonTypes, Given
    <2>4. Given(t.lesson) <= memory[t.id].reward
      BY <1>2, <1>10, <2>1 DEF RewardsEarned
    <2>5. memory[t.id].reward < Given(t.lesson) + episodes[r]
      BY <1>2, <1>4, <1>10 DEF RunInv, RewardedSoFar
    <2>6. QED
      BY <1>3, <1>5, <1>6, <1>10, <2>1, <2>2, <2>3, <2>4, <2>5
  <1>11. RewardsEarned'
    <2>1. SUFFICES ASSUME memory_backend = "sql", NEW i \in DOMAIN memory
          PROVE  LET m == memory'[i]
                 IN /\ Given(m.lesson) <= m.reward
                    /\ m.reward <= Given(m.lesson) + episodes[m.lesson.by]
                    /\ m.reward > Given(m.lesson) => outcome[m.lesson.by] = "completed"
      BY <1>1, <1>5 DEF RewardsEarned, Given
    <2>2. CASE i = t.id
      <3>1. memory'[i].lesson = t.lesson /\ memory'[i].reward = memory[t.id].reward + 1
        BY <1>6, <1>10, <2>1, <2>2
      <3>2. QED
        BY <1>3, <1>4, <1>10, <2>1, <3>1
    <2>3. CASE i # t.id
      BY <1>2, <1>5, <2>1, <2>3 DEF RewardsEarned
    <2>4. QED
      BY <2>2, <2>3
  <1>12. ASSUME NEW q \in Runs PROVE RunInv(q)'
    <2>1. CASE q = r
      <3>1. InTurn(r)'
        BY <1>1, <1>3, <1>7 DEF InTurn
      <3>2. RewardedSoFar(r)'
        <4>1. SUFFICES ASSUME memory_backend = "sql", NEW c \in reflections[r]
              PROVE  /\ c \in todo[r] \ {t} =>
                          memory'[c.id].reward < Given(c.lesson) + episodes[r]
                     /\ c \notin todo[r] \ {t} => memory'[c.id].reward > Given(c.lesson)
          BY <1>1, <1>7 DEF RewardedSoFar, Given
        <4>2. CASE c = t
          BY <1>10, <4>1, <4>2
        <4>3. CASE c # t
          <5>1. memory'[c.id] = memory[c.id]
            BY <1>10, <4>1, <4>3
          <5>2. QED
            BY <1>1, <1>2, <1>3, <4>1, <4>3, <5>1 DEF RunInv, RewardedSoFar, AfterLearn
        <4>4. QED
          BY <4>2, <4>3
      <3>3. QED
        BY <2>1, <3>1, <3>2 DEF RunInv
    <2>2. CASE q # r
      <3>1. memory_backend = "sql" =>
              \A c \in reflections[q] : memory'[c.id].reward = memory[c.id].reward
        BY <1>10, <2>2
      <3>2. QED
        BY <1>1, <1>7, <2>2, <3>1, RunUntouched
    <2>3. QED
      BY <2>1, <2>2
  <1>13. QED
    BY <1>8, <1>9, <1>11, <1>12 DEF IInv

\* A lesson that is not there any more is not in the database.
LEMMA ReinforceUnknown ==
  ASSUME IInv, RepoInv', NEW r \in Runs, reinforce_unknown(r)
  PROVE  IInv'
PROOF
  <1> DEFINE t == Turn(r)
  <1>1. /\ pc[r] = "reinforce" /\ todo[r] # {} /\ t.id \notin DOMAIN memory
        /\ todo' = [todo EXCEPT ![r] = @ \ {t}]
        /\ UNCHANGED <<pc, memory_backend, memory, episodes, retrieved, reflections, outcome,
                       read, calls, crashes>>
    BY DEF reinforce_unknown, thread, store
  <1>2. /\ TypeOK /\ LessonsKept /\ RunInv(r) /\ calls \in Nat /\ episodes \in [Runs -> Nat]
        /\ todo \in [Runs -> SUBSET Held] /\ read \in [Runs -> Nat]
    BY AtRest DEF TypeOK, LessonTypes, Held
  <1>3. t \in reflections[r]
    BY <1>1, <1>2, TurnIsToDo, LessonTyping
  <1>4. memory_backend # "sql"
    BY <1>1, <1>2, <1>3, WrittenInDatabase
  <1>5. /\ todo'[r] = todo[r] \ {t} /\ todo' \in [Runs -> SUBSET Held]
        /\ \A q \in Runs : q # r => todo'[q] = todo[q]
    BY <1>1, <1>2
  <1>6. TypeOK' /\ LessonsKept' /\ RewardsEarned'
    BY <1>1, <1>2, <1>5, LessonsUntouched
  <1>7. ASSUME NEW q \in Runs PROVE RunInv(q)'
    <2>1. CASE q = r
      BY <1>1, <1>2, <1>4, <1>5, <2>1 DEF RunInv, InTurn, RewardedSoFar
    <2>2. CASE q # r
      BY <1>1, <1>5, <2>2, RunUntouched
    <2>3. QED
      BY <2>1, <2>2
  <1>8. QED
    BY <1>6, <1>7 DEF IInv

-----------------------------------------------------------------------------
(* Failures. *)

\* A run that raises rewards nothing more.
LEMMA Raises ==
  ASSUME IInv, RepoInv', NEW r \in Runs, raises(r)
  PROVE  IInv'
PROOF
  <1>1. /\ pc' = [pc EXCEPT ![r] = "raised"]
        /\ todo' = [todo EXCEPT ![r] = {}] /\ read' = [read EXCEPT ![r] = 0]
        /\ UNCHANGED <<memory_backend, memory, episodes, retrieved, reflections, outcome, calls,
                       crashes>>
    BY DEF raises, thread, store
  <1>2. /\ TypeOK /\ calls \in Nat /\ pc \in [Runs -> PCs] /\ episodes \in [Runs -> Nat]
        /\ todo \in [Runs -> SUBSET Held] /\ read \in [Runs -> Nat]
    BY AtRest DEF TypeOK, LessonTypes, Held
  <1>3. /\ pc'[r] = "raised" /\ todo'[r] = {}
        /\ todo' \in [Runs -> SUBSET Held] /\ read' \in [Runs -> Nat]
        /\ \A q \in Runs : q # r => todo'[q] = todo[q] /\ read'[q] = read[q] /\ pc'[q] = pc[q]
    BY <1>1, <1>2
  <1>4. TypeOK' /\ LessonsKept' /\ RewardsEarned'
    BY <1>1, <1>2, <1>3, LessonsUntouched
  <1>5. ASSUME NEW q \in Runs PROVE RunInv(q)'
    <2>1. CASE q = r
      BY <1>3, <2>1
         DEF RunInv, InTurn, RewardedSoFar, AfterLearn
    <2>2. CASE q # r
      BY <1>1, <1>3, <2>2, RunUntouched
    <2>3. QED
      BY <2>1, <2>2
  <1>6. QED
    BY <1>4, <1>5 DEF IInv

\* A crash takes the lessons of the process, not those of the database.
LEMMA CrashLessons ==
  ASSUME IInv, RepoInv', Crash
  PROVE  IInv'
PROOF
  <1>1. /\ crashes' = crashes + 1
        /\ pc' = [r \in Runs |-> IF pc[r] \in Resting THEN pc[r] ELSE "raised"]
        /\ todo' = [r \in Runs |-> {}] /\ read' = [r \in Runs |-> 0]
        /\ UNCHANGED <<memory_backend, retrieved, reflections, outcome, calls>>
    BY DEF Crash, thread
  <1>2. IF memory_backend = "sql"
          THEN memory' = memory /\ episodes' = episodes
          ELSE memory' = [i \in {} |-> 0] /\ episodes' = [r \in Runs |-> 0]
    BY DEF Crash
  <1>3. TypeOK /\ LessonsKept /\ RewardsEarned /\ RepoTypes' /\ crashes \in Nat
    BY DEF IInv, RepoInv, TypeOK, LessonTypes
  <1>4. memory_backend # "sql" => DOMAIN memory' = {}
    BY <1>2
  <1>5. TypeOK'
    <2>1. DOMAIN memory' \subseteq Ids /\ IsFiniteSet(DOMAIN memory')
      BY <1>2, <1>3, <1>4, FS_EmptySet DEF TypeOK, LessonTypes
    <2>2. \A i \in DOMAIN memory' : memory'[i] \in [lesson : Lessons, reward : Nat]
      BY <1>2, <1>3, <1>4 DEF TypeOK, LessonTypes
    <2>3. todo' \in [Runs -> SUBSET [id : Ids, lesson : Lessons]] /\ read' \in [Runs -> Nat]
      BY <1>1
    <2>4. episodes' \in [Runs -> Nat]
      BY <1>2, <1>3 DEF TypeOK, LessonTypes
    <2>5. LessonTypes'
      BY <1>1, <1>3, <2>1, <2>2, <2>3, <2>4 DEF TypeOK, LessonTypes
    <2>6. QED
      BY <1>1, <1>3, <2>5 DEF TypeOK
  <1>6. LessonsKept'
    <2>1. Copies' = Copies
      BY <1>1 DEF Copies
    <2>2. CASE memory_backend = "sql"
      BY <1>1, <1>2, <1>3, <2>1, <2>2 DEF LessonsKept
    <2>3. CASE memory_backend # "sql"
      BY <1>1, <1>3, <1>4, <2>3 DEF LessonsKept, TypeOK, LessonTypes
    <2>4. QED
      BY <2>2, <2>3
  <1>7. RewardsEarned'
    BY <1>1, <1>2, <1>3 DEF RewardsEarned, Given
  <1>8. ASSUME NEW r \in Runs PROVE RunInv(r)'
    <2>1. RunInv(r) /\ todo'[r] = {}
      BY <1>1 DEF IInv
    <2>2. CASE pc[r] \in Resting
      <3>1. pc'[r] = pc[r] /\ todo[r] = {}
        BY <1>1, <2>1, <2>2 DEF RunInv, InTurn, Resting
      <3>2. QED
        BY <1>1, <1>2, <2>1, <2>2, <3>1
           DEF RunInv, InTurn, RewardedSoFar, Given, Resting
    <2>3. CASE pc[r] \notin Resting
      <3>1. pc'[r] = "raised"
        BY <1>1, <2>3
      <3>2. QED
        BY <2>1, <3>1
           DEF RunInv, InTurn, RewardedSoFar, AfterLearn
    <2>4. QED
      BY <2>2, <2>3
  <1>9. QED
    BY <1>5, <1>6, <1>7, <1>8 DEF IInv

-----------------------------------------------------------------------------
LEMMA InitInv ==
  ASSUME Init PROVE IInv
PROOF
  <1>1. RepoInv
    BY RepoInit
  <1>2. TypeOK
    <2>1. DOMAIN memory = {} /\ IsFiniteSet(DOMAIN memory)
      BY FS_EmptySet DEF Init
    <2>2. LessonTypes
      BY <2>1 DEF Init, LessonTypes
    <2>3. ASSUME NEW r \in Runs
          PROVE  /\ IsFiniteSet(retrieved[r]) /\ Cardinality(retrieved[r]) <= retrieval_k
                 /\ IsFiniteSet(reflections[r])
                 /\ {c.lesson.no : c \in reflections[r]} = 1..Cardinality(reflections[r])
                 /\ \A c \in reflections[r] : c.lesson.by = r
                 /\ todo[r] \subseteq reflections[r]
      <3>1. retrieved[r] = {} /\ reflections[r] = {} /\ todo[r] = {} /\ retrieval_k \in Nat
        BY SharedConstants DEF Init
      <3>2. QED
        BY <3>1, FS_EmptySet
    <2>4. QED
      BY <1>1, <2>2, <2>3 DEF TypeOK, RepoInv
  <1>3. LessonsKept /\ RewardsEarned
    BY DEF Init, LessonsKept, RewardsEarned, Copies
  <1>4. \A r \in Runs : RunInv(r)
    BY DEF Init, RunInv, InTurn, RewardedSoFar
  <1>5. QED
    BY <1>1, <1>2, <1>3, <1>4 DEF IInv

LEMMA NextInv ==
  ASSUME SharedConstants, IInv, [Next]_vars
  PROVE  IInv'
PROOF
  <1> RepoInv'
    BY RepoNext DEF IInv
  <1>1. ASSUME NEW r \in Runs, Step(r) PROVE IInv'
    BY <1>1, Start, OtherNodes, Retrieve, Record, FinalizeLessons, Learn, ReinforceRead,
       ReinforceWrite, ReinforceUnknown, Raises DEF Step
  <1>2. CASE Crash
    BY <1>2, CrashLessons
  <1>3. CASE UNCHANGED vars
    <2>1. UNCHANGED <<pc, memory_backend, memory, episodes, retrieved, reflections, outcome, todo,
                      read, calls, crashes>>
      BY <1>3 DEF vars, thread, learning, store
    <2>2. TypeOK' /\ LessonsKept' /\ RewardsEarned'
      BY <2>1, LessonsUntouched DEF IInv, TypeOK, LessonTypes, Held
    <2>3. \A r \in Runs : RunInv(r)'
      BY <2>1, RunUntouched
    <2>4. QED
      BY <2>2, <2>3 DEF IInv
  <1>4. QED
    BY <1>1, <1>2, <1>3 DEF Next, Quiet

\* In every reachable state the types are right, every lesson is kept, and each lesson
\* of a run has the reward that fits where the run is.
THEOREM Invariance == Spec => []IInv
PROOF
  <1>1. Init => IInv
    BY InitInv
  <1>2. IInv /\ [Next]_vars => IInv'
    BY NextInv, SharedConstants
  <1>3. QED
    BY <1>1, <1>2, PTL DEF Spec

\* A lesson that a run holds is in the memory as it was written; the process's memory
\* loses it to a crash, or to an id the LLM filled in (record_lesson, memory.py).
THEOREM LessonsStay == Spec => []LessonsKept
PROOF
  <1>1. IInv => LessonsKept
    BY DEF IInv
  <1>2. QED
    BY <1>1, Invariance, PTL

\* In the database a lesson is rewarded only by the completed run that wrote it, once
\* for each episode it told, whatever other runs do and whatever fails in between, as
\* long as no two calls of that run overlap (learn.py, reinforce).
THEOREM RewardsAreOwn == Spec => []RewardIsOwn
PROOF
  <1>1. ASSUME IInv PROVE RewardIsOwn
    <2>1. SUFFICES ASSUME memory_backend = "sql", NEW i \in DOMAIN memory
          PROVE  LET m == memory[i]
                     by == m.lesson.by
                     earned == m.reward - Given(m.lesson)
                 IN /\ earned \in 0..episodes[by]
                    /\ earned > 0 => outcome[by] = "completed"
                    /\ pc[by] \in {"teardown", "done"} /\ outcome[by] = "completed"
                         /\ [id |-> i, lesson |-> m.lesson] \in reflections[by]
                         => earned > 0
      BY DEF RewardIsOwn
    <2> DEFINE m == memory[i]
               by == m.lesson.by
               c == [id |-> i, lesson |-> m.lesson]
    <2>2. /\ Given(m.lesson) <= m.reward /\ m.reward <= Given(m.lesson) + episodes[by]
          /\ m.reward > Given(m.lesson) => outcome[by] = "completed"
      BY <1>1, <2>1 DEF IInv, RewardsEarned
    <2>3. m \in [lesson : Lessons, reward : Nat] /\ episodes \in [Runs -> Nat]
      BY <1>1, <2>1 DEF IInv, TypeOK, LessonTypes
    <2>4. /\ by \in Runs /\ Given(m.lesson) \in Nat /\ m.reward \in Nat
          /\ episodes[by] \in Nat
      BY <2>3 DEF Lessons, Given
    <2>5. ASSUME pc[by] \in {"teardown", "done"}, outcome[by] = "completed",
                 c \in reflections[by]
          PROVE  m.reward > Given(m.lesson)
      <3>1. RunInv(by) /\ todo[by] = {}
        BY <1>1, <2>4, <2>5 DEF IInv, RunInv, InTurn
      <3>2. c.id = i /\ c.lesson = m.lesson
        OBVIOUS
      <3>3. QED
        BY <2>1, <2>5, <3>1, <3>2 DEF RunInv, RewardedSoFar, AfterLearn
    <2> HIDE DEF m, c
    <2>6. QED
      BY <2>2, <2>4, <2>5 DEF m, c
  <1>2. QED
    BY <1>1, Invariance, PTL
=============================================================================
