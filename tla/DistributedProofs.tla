-------------------------- MODULE DistributedProofs --------------------------
(***************************************************************************)
(* The safety properties of the coordinator and of the adapter whose       *)
(* callers share it, for any set of tasks, workers and callers, any        *)
(* capabilities, retry limit and poll budget.                              *)
(***************************************************************************)
EXTENDS DistributedAdapter, SequenceFilterProofs

-----------------------------------------------------------------------------
(* The queue and the assignment table.                                     *)

\* Appending one element extends the sequence at its end.
LEMMA AppendAt ==
  ASSUME NEW T, NEW q \in Seq(T), NEW t \in T
  PROVE  /\ Len(q) \in Nat
         /\ Append(q, t) \in Seq(T)
         /\ Len(Append(q, t)) = Len(q) + 1
         /\ \A i \in 1..Len(Append(q, t)) :
              Append(q, t)[i] = IF i \in 1..Len(q) THEN q[i] ELSE t
BY AppendProperties, LenProperties

\* So it adds exactly that element.
LEMMA AppendElems ==
  ASSUME NEW T, NEW q \in Seq(T), NEW t \in T
  PROVE  /\ Append(q, t) \in Seq(T)
         /\ Elems(Append(q, t)) = Elems(q) \cup {t}
         /\ Distinct(q) /\ t \notin Elems(q) => Distinct(Append(q, t))
<1> DEFINE r == Append(q, t)
<1>1. Len(q) \in Nat /\ r \in Seq(T) /\ Len(r) = Len(q) + 1
  BY AppendAt
<1>2. \A i \in 1..Len(r) : r[i] = IF i \in 1..Len(q) THEN q[i] ELSE t
  BY AppendAt
<1>3. Elems(r) = Elems(q) \cup {t}
  <2>1. 1..Len(r) = (1..Len(q)) \cup {Len(q) + 1}
    BY <1>1
  <2>2. Len(q) + 1 \notin 1..Len(q)
    BY <1>1
  <2>3. QED
    BY <1>2, <2>1, <2>2 DEF Elems
<1>4. ASSUME Distinct(q), t \notin Elems(q)
      PROVE  Distinct(r)
  <2> SUFFICES ASSUME NEW i \in 1..Len(r), NEW j \in 1..Len(r), r[i] = r[j]
               PROVE  i = j
    BY DEF Distinct
  <2>1. \A k \in 1..Len(q) : q[k] # t
    BY <1>4 DEF Elems
  <2>2. CASE i \in 1..Len(q) /\ j \in 1..Len(q)
    BY <1>2, <1>4, <2>2 DEF Distinct
  <2>3. CASE i \notin 1..Len(q) /\ j \notin 1..Len(q)
    BY <1>1, <2>3
  <2>4. QED
    BY <1>2, <2>1, <2>2, <2>3
<1>5. QED
  BY <1>1, <1>3, <1>4

\* Requeuing a task leaves exactly one occurrence of it.
LEMMA RequeueElems ==
  ASSUME NEW q \in Seq(Tasks), NEW t \in Tasks
  PROVE  /\ Requeue(q, t) \in Seq(Tasks)
         /\ Elems(Requeue(q, t)) = Elems(q) \cup {t}
         /\ Distinct(q) => Distinct(Requeue(q, t))
<1>1. CASE t \in Elems(q)
  BY <1>1 DEF Requeue
<1>2. CASE t \notin Elems(q)
  BY <1>2, AppendElems DEF Requeue
<1>3. QED
  BY <1>1, <1>2

\* Concatenating two sequences without a common element.
LEMMA ConcatElems ==
  ASSUME NEW T, NEW q \in Seq(T), NEW r \in Seq(T)
  PROVE  /\ q \o r \in Seq(T)
         /\ Elems(q \o r) = Elems(q) \cup Elems(r)
         /\ Distinct(q) /\ Distinct(r) /\ Elems(q) \cap Elems(r) = {}
              => Distinct(q \o r)
<1> DEFINE s == q \o r
<1>1. Len(q) \in Nat /\ Len(r) \in Nat
  BY LenProperties
<1>2. /\ s \in Seq(T)
      /\ Len(s) = Len(q) + Len(r)
      /\ \A i \in 1..Len(s) :
           s[i] = IF i <= Len(q) THEN q[i] ELSE r[i - Len(q)]
  BY ConcatProperties
<1>3. Elems(s) = Elems(q) \cup Elems(r)
  <2>1. \A i \in 1..Len(s) : \/ i \in 1..Len(q) /\ s[i] = q[i]
                             \/ /\ i - Len(q) \in 1..Len(r)
                                /\ s[i] = r[i - Len(q)]
    BY <1>1, <1>2
  <2>2. \A i \in 1..Len(q) : i \in 1..Len(s) /\ s[i] = q[i]
    BY <1>1, <1>2
  <2>3. \A i \in 1..Len(r) : i + Len(q) \in 1..Len(s) /\ s[i + Len(q)] = r[i]
    BY <1>1, <1>2
  <2>4. Elems(s) \subseteq Elems(q) \cup Elems(r)
    BY <2>1 DEF Elems
  <2>5. Elems(q) \subseteq Elems(s) /\ Elems(r) \subseteq Elems(s)
    BY <2>2, <2>3 DEF Elems
  <2>6. QED
    BY <2>4, <2>5
<1>4. ASSUME Distinct(q), Distinct(r), Elems(q) \cap Elems(r) = {}
      PROVE  Distinct(s)
  <2> SUFFICES ASSUME NEW i \in 1..Len(s), NEW j \in 1..Len(s), s[i] = s[j]
               PROVE  i = j
    BY DEF Distinct
  <2>0. \A k \in 1..Len(q), m \in 1..Len(r) : q[k] # r[m]
    BY <1>4 DEF Elems
  <2>1. CASE i <= Len(q) /\ j <= Len(q)
    BY <1>1, <1>2, <1>4, <2>1 DEF Distinct
  <2>2. CASE i > Len(q) /\ j > Len(q)
    <3>1. i - Len(q) \in 1..Len(r) /\ j - Len(q) \in 1..Len(r)
      BY <1>1, <1>2, <2>2
    <3>2. r[i - Len(q)] = r[j - Len(q)]
      BY <1>1, <1>2, <2>2
    <3>3. i - Len(q) = j - Len(q)
      BY <1>4, <3>1, <3>2 DEF Distinct
    <3>4. QED
      BY <1>1, <1>2, <3>3
  <2>3. CASE i <= Len(q) /\ j > Len(q)
    BY <1>1, <1>2, <2>0, <2>3
  <2>4. CASE i > Len(q) /\ j <= Len(q)
    BY <1>1, <1>2, <2>0, <2>4
  <2>5. QED
    BY <1>1, <1>2, <2>1, <2>2, <2>3, <2>4
<1>5. QED
  BY <1>2, <1>3, <1>4

\* Dropping entries leaves at most one entry per task.
LEMMA KeepOneEach ==
  ASSUME NEW T, NEW tab \in Seq(T), NEW S
  PROVE  OneEach(tab) => OneEach(Keep(tab, S))
<1>1. /\ Len(Keep(tab, S)) \in Nat
      /\ \A n \in 1..Len(Keep(tab, S)) :
           /\ Source(tab, S, n) \in Kept(tab, S)
           /\ RankIn(Kept(tab, S), Source(tab, S, n)) = n - 1
           /\ Keep(tab, S)[n] = tab[Source(tab, S, n)]
  BY KeepSource
<1>2. \A n \in 1..Len(Keep(tab, S)) : Source(tab, S, n) \in 1..Len(tab)
  BY <1>1 DEF Kept
<1>3. \A m, n \in 1..Len(Keep(tab, S)) :
        Source(tab, S, m) = Source(tab, S, n) => m = n
  <2> SUFFICES ASSUME NEW m \in 1..Len(Keep(tab, S)),
                      NEW n \in 1..Len(Keep(tab, S)),
                      Source(tab, S, m) = Source(tab, S, n)
               PROVE  m = n
    OBVIOUS
  <2>1. m - 1 = n - 1
    BY <1>1
  <2>2. QED
    BY <1>1, <2>1
<1>4. ASSUME OneEach(tab)
      PROVE  \A m, n \in 1..Len(Keep(tab, S)) :
               Keep(tab, S)[m].task = Keep(tab, S)[n].task => m = n
  BY <1>1, <1>2, <1>3, <1>4, Zenon DEF OneEach
<1>5. QED
  BY <1>4 DEF OneEach

\* Removing entries from the assignment table.
LEMMA WithoutElems ==
  ASSUME NEW tab \in Seq(Assignment), NEW A
  PROVE  /\ Without(tab, A) \in Seq(Assignment)
         /\ Elems(Without(tab, A)) = Elems(tab) \ A
         /\ OneEach(tab) => OneEach(Without(tab, A))
<1>1. \A S : /\ Keep(tab, S) \in Seq(Assignment)
             /\ Elems(Keep(tab, S)) = Elems(tab) \cap S
             /\ OneEach(tab) => OneEach(Keep(tab, S))
  BY KeepElems, KeepOneEach
<1>2. Elems(tab) \cap (Elems(tab) \ A) = Elems(tab) \ A
  OBVIOUS
<1>3. Without(tab, A) = Keep(tab, Elems(tab) \ A)
  BY DEF Without
<1>4. QED
  BY <1>1, <1>2, <1>3

\* A new assignment for a task that has none.
LEMMA AppendOneEach ==
  ASSUME NEW T, NEW tab \in Seq(T), NEW a \in T
  PROVE  OneEach(tab) /\ (\A b \in Elems(tab) : b.task # a.task)
           => OneEach(Append(tab, a))
<1> DEFINE r == Append(tab, a)
           I == 1..Len(tab)
<1>1. \A i \in 1..Len(r) : r[i] = IF i \in I THEN tab[i] ELSE a
  BY AppendAt
<1>2. \A i, j \in 1..Len(r) : i \notin I /\ j \notin I => i = j
  BY AppendAt
<1> HIDE DEF r, I
<1>3. ASSUME NEW i \in 1..Len(r), NEW j \in 1..Len(r),
             \A k, m \in I : tab[k].task = tab[m].task => k = m,
             \A k \in I : tab[k].task # a.task,
             r[i].task = r[j].task
      PROVE  i = j
  BY <1>1, <1>2, <1>3, Zenon
<1>4. ASSUME OneEach(tab), \A b \in Elems(tab) : b.task # a.task
      PROVE  OneEach(r)
  <2>1. \A k, m \in I : tab[k].task = tab[m].task => k = m
    BY <1>4 DEF OneEach, I
  <2>2. \A k \in I : tab[k].task # a.task
    BY <1>4 DEF Elems, I
  <2>3. QED
    BY <1>3, <2>1, <2>2 DEF OneEach
<1>5. QED
  BY <1>4 DEF r

-----------------------------------------------------------------------------
(* The inductive invariant.  CallsArePast is what makes the attempt number *)
(* of a new assignment fresh, so that no open call or old result has it.   *)

IInv ==
  /\ TypeOK
  /\ TaskInOnePlace
  /\ AssignmentIsCurrent
  /\ OneOutcomePerAttempt
  /\ ResultMatchesStatus
  /\ CallsArePast

LEMMA InitIInv == Init => IInv
<1> SUFFICES ASSUME Init
             PROVE  IInv
  OBVIOUS
<1> USE DEF Init
<1>1. TypeOK
  BY CoordinatorAssumption, EmptySeq DEF TypeOK, TaskStatus, NoResult
<1>2. Elems(queue) = {} /\ Elems(assignments) = {}
  BY DEF Elems
<1>3. TaskInOnePlace
  BY <1>2 DEF TaskInOnePlace, Distinct, OneEach
<1>4. AssignmentIsCurrent
  BY <1>2 DEF AssignmentIsCurrent
<1>5. OneOutcomePerAttempt /\ CallsArePast
  BY DEF OneOutcomePerAttempt, CallsArePast
<1>6. ResultMatchesStatus
  BY DEF ResultMatchesStatus, NoResult
<1>7. QED
  BY <1>1, <1>3, <1>4, <1>5, <1>6 DEF IInv

\* What the type invariant says of the assignment table.
LEMMA TableTypes ==
  ASSUME TypeOK
  PROVE  /\ assignments \in Seq(Assignment)
         /\ Len(assignments) \in Nat
         /\ Elems(assignments) \subseteq Assignment
         /\ \A a \in Assignment : a.task \in Tasks /\ a.worker \in Workers
<1>1. assignments \in Seq(Assignment)
  BY DEF TypeOK
<1>2. Len(assignments) \in Nat
  BY <1>1, LenProperties
<1>3. Elems(assignments) \subseteq Assignment
  BY <1>1, ElementOfSeq DEF Elems
<1>4. \A a \in Assignment : a.task \in Tasks /\ a.worker \in Workers
  BY DEF Assignment
<1>5. QED
  BY <1>1, <1>2, <1>3, <1>4

\* Submit.
LEMMA SubmitIInv ==
  ASSUME IInv, NEW t \in Tasks, Submit(t)
  PROVE  IInv'
<1> USE DEF Submit, taskState, workerState
<1>0. queue \in Seq(Tasks) /\ t \notin Elems(queue)
  BY DEF IInv, TypeOK, TaskInOnePlace
<1>1. /\ queue' \in Seq(Tasks)
      /\ Elems(queue') = Elems(queue) \cup {t}
      /\ Distinct(queue) => Distinct(queue')
  BY <1>0, AppendElems
<1>2. TypeOK'
  BY <1>1 DEF IInv, TypeOK, TaskStatus
<1>3. TaskInOnePlace'
  BY <1>0, <1>1 DEF IInv, TypeOK, TaskInOnePlace, TaskStatus
<1>4. AssignmentIsCurrent'
  BY DEF IInv, TypeOK, AssignmentIsCurrent, Elems
<1>5. OneOutcomePerAttempt' /\ CallsArePast'
  BY DEF IInv, OneOutcomePerAttempt, CallsArePast
<1>6. ResultMatchesStatus'
  BY DEF IInv, TypeOK, ResultMatchesStatus
<1>7. QED
  BY <1>2, <1>3, <1>4, <1>5, <1>6 DEF IInv

\* _find_assignment returns the entry of the task when there is one.
LEMMA ActiveEntry ==
  ASSUME OneEach(assignments), Len(assignments) \in Nat, NEW t
  PROVE  {assignments[i] : i \in ActiveIndex(t)}
           = {a \in Elems(assignments) : a.task = t}
<1>1. \A i \in ActiveIndex(t) :
        assignments[i] \in Elems(assignments) /\ assignments[i].task = t
  BY DEF ActiveIndex, Elems
<1>2. ASSUME NEW i \in 1..Len(assignments), assignments[i].task = t
      PROVE  i \in ActiveIndex(t)
  <2>1. ASSUME NEW j \in 1..(i - 1), assignments[j].task = t
        PROVE  FALSE
    <3>1. j \in 1..Len(assignments) /\ j # i
      OBVIOUS
    <3>2. QED
      BY <1>2, <2>1, <3>1 DEF OneEach
  <2>2. QED
    BY <1>2, <2>1 DEF ActiveIndex
<1>3. QED
  BY <1>1, <1>2 DEF Elems

\* Cancelling a queued task.
LEMMA CancelQueuedIInv ==
  ASSUME IInv, NEW t \in Tasks, CancelQueued(t)
  PROVE  IInv'
<1> USE DEF CancelQueued, workerState
<1>1. TypeOK'
  BY DEF IInv, TypeOK, TaskStatus
<1>2. TaskInOnePlace'
  BY DEF IInv, TypeOK, TaskInOnePlace, TaskStatus
<1>3. AssignmentIsCurrent'
  BY DEF IInv, TypeOK, AssignmentIsCurrent, Elems
<1>4. OneOutcomePerAttempt' /\ CallsArePast'
  BY DEF IInv, OneOutcomePerAttempt, CallsArePast
<1>5. ResultMatchesStatus'
  BY DEF IInv, TypeOK, ResultMatchesStatus
<1>6. QED
  BY <1>1, <1>2, <1>3, <1>4, <1>5 DEF IInv

\* Cancelling an assigned task.
LEMMA CancelAssignedIInv ==
  ASSUME IInv, NEW t \in Tasks, CancelAssigned(t)
  PROVE  IInv'
<1> USE DEF CancelAssigned, workerState
<1> DEFINE A == {assignments[i] : i \in ActiveIndex(t)}
<1>0. /\ assignments \in Seq(Assignment)
      /\ Len(assignments) \in Nat
      /\ OneEach(assignments)
  BY LenProperties DEF IInv, TypeOK, TaskInOnePlace
<1>1. A = {a \in Elems(assignments) : a.task = t}
  BY <1>0, ActiveEntry
<1>2. /\ assignments' \in Seq(Assignment)
      /\ Elems(assignments') = Elems(assignments) \ A
      /\ OneEach(assignments')
  BY <1>0, WithoutElems
<1> HIDE DEF A
<1>3. Elems(assignments') = {a \in Elems(assignments) : a.task # t}
  BY <1>1, <1>2
<1>4. TypeOK'
  BY <1>2 DEF IInv, TypeOK, TaskStatus
<1>5. TaskInOnePlace'
  BY <1>2, <1>3 DEF IInv, TypeOK, TaskInOnePlace, TaskStatus
<1>6. AssignmentIsCurrent'
  <2>1. \A a \in Elems(assignments) : a.task \in Tasks
    BY TableTypes DEF IInv
  <2>2. QED
    BY <1>3, <2>1 DEF IInv, TypeOK, AssignmentIsCurrent
<1>7. OneOutcomePerAttempt' /\ CallsArePast'
  BY DEF IInv, OneOutcomePerAttempt, CallsArePast
<1>8. ResultMatchesStatus'
  BY DEF IInv, TypeOK, ResultMatchesStatus
<1>9. QED
  BY <1>4, <1>5, <1>6, <1>7, <1>8 DEF IInv

\* The call that returns gives the only reply to its attempt.
LEMMA ReplyOnce ==
  ASSUME OneOutcomePerAttempt, NEW c \in calls, NEW ok \in BOOLEAN,
         calls' = calls \ {c}, replies' = replies \cup {ReplyOf(c, ok)}
  PROVE  OneOutcomePerAttempt'
<1>1. ReplyOf(c, ok).task = c.task /\ ReplyOf(c, ok).attempt = c.attempt
  BY DEF ReplyOf
<1>2. QED
  BY <1>1 DEF OneOutcomePerAttempt

\* An answer of a worker.
LEMMA WorkerRepliesIInv ==
  ASSUME IInv, NEW c \in calls, NEW ok \in BOOLEAN, WorkerReplies(c, ok)
  PROVE  IInv'
<1> USE DEF WorkerReplies, taskState, workerState
<1>0. c \in Assignment
  BY DEF IInv, TypeOK
<1>1. ReplyOf(c, ok) \in Reply
  BY <1>0 DEF ReplyOf, Assignment, Reply
<1>2. TypeOK'
  BY <1>1 DEF IInv, TypeOK
<1>3. TaskInOnePlace' /\ AssignmentIsCurrent' /\ ResultMatchesStatus'
  BY DEF IInv, TaskInOnePlace, AssignmentIsCurrent, ResultMatchesStatus,
         Elems, Distinct, OneEach
<1>4. OneOutcomePerAttempt'
  BY ReplyOnce DEF IInv
<1>5. CallsArePast'
  BY DEF IInv, CallsArePast, ReplyOf
<1>6. QED
  BY <1>2, <1>3, <1>4, <1>5 DEF IInv

\* A released assignment.
LEMMA UnreachableIInv ==
  ASSUME IInv, NEW c \in calls, Unreachable(c)
  PROVE  IInv'
<1> USE DEF Unreachable, workerState
<1>0. /\ c \in Assignment
      /\ c.task \in Tasks
      /\ queue \in Seq(Tasks)
      /\ assignments \in Seq(Assignment)
      /\ OneEach(assignments)
  BY DEF IInv, TypeOK, Assignment, TaskInOnePlace
<1>1. ReplyOf(c, FALSE) \in Reply
  BY <1>0 DEF ReplyOf, Assignment, Reply
<1>2. UNCHANGED <<attempts, results>>
  BY DEF Release, taskState
<1>3. OneOutcomePerAttempt'
  BY ReplyOnce DEF IInv
<1>4. CallsArePast'
  BY <1>2 DEF IInv, CallsArePast, ReplyOf
<1>5. CASE c \notin Elems(assignments)
  <2> USE <1>5 DEF Release, taskState
  <2>1. TypeOK'
    BY <1>1 DEF IInv, TypeOK
  <2>2. TaskInOnePlace' /\ AssignmentIsCurrent' /\ ResultMatchesStatus'
    BY DEF IInv, TaskInOnePlace, AssignmentIsCurrent, ResultMatchesStatus,
           Elems, Distinct, OneEach
  <2>3. QED
    BY <1>3, <1>4, <2>1, <2>2 DEF IInv
<1>6. CASE c \in Elems(assignments)
  <2> USE <1>6 DEF Release
  <2>1. /\ assignments' \in Seq(Assignment)
        /\ Elems(assignments') = Elems(assignments) \ {c}
        /\ OneEach(assignments')
    BY <1>0, WithoutElems
  <2>2. /\ queue' \in Seq(Tasks)
        /\ Elems(queue') = Elems(queue) \cup {c.task}
        /\ Distinct(queue) => Distinct(queue')
    BY <1>0, RequeueElems
  <2>3. \A a \in Elems(assignments) : a.task = c.task => a = c
    BY DEF IInv, TaskInOnePlace, OneEach, Elems
  <2>4. status[c.task] = "assigned"
    BY <1>0 DEF IInv, TaskInOnePlace
  <2>5. TypeOK'
    BY <1>0, <1>1, <2>1, <2>2 DEF IInv, TypeOK, TaskStatus
  <2>6. TaskInOnePlace'
    BY <1>0, <2>1, <2>2, <2>3 DEF IInv, TypeOK, TaskInOnePlace, TaskStatus
  <2>7. AssignmentIsCurrent'
    <3>1. \A a \in Elems(assignments') : a.task \in Tasks /\ a.task # c.task
      BY <2>1, <2>3, TableTypes DEF IInv
    <3>2. QED
      BY <1>0, <2>1, <3>1 DEF IInv, TypeOK, AssignmentIsCurrent
  <2>8. ResultMatchesStatus'
    BY <1>0, <2>4 DEF IInv, TypeOK, ResultMatchesStatus
  <2>9. QED
    BY <1>3, <1>4, <2>5, <2>6, <2>7, <2>8 DEF IInv
<1>7. QED
  BY <1>5, <1>6

\* Removing the entry of an assigned task leaves the others.
LEMMA RemoveEntry ==
  ASSUME IInv, NEW a \in Elems(assignments),
         assignments' = Without(assignments, {a})
  PROVE  /\ assignments' \in Seq(Assignment)
         /\ Elems(assignments') =
              {b \in Elems(assignments) : b.task # a.task}
         /\ OneEach(assignments')
         /\ \A b \in Elems(assignments) : b.task \in Tasks
         /\ a.task \in Tasks
         /\ status[a.task] = "assigned"
         /\ a.attempt = attempts[a.task]
<1>1. assignments \in Seq(Assignment) /\ OneEach(assignments)
  BY DEF IInv, TypeOK, TaskInOnePlace
<1>2. /\ assignments' \in Seq(Assignment)
      /\ Elems(assignments') = Elems(assignments) \ {a}
      /\ OneEach(assignments')
  BY <1>1, WithoutElems
<1>3. \A b \in Elems(assignments) : b.task = a.task => b = a
  BY <1>1 DEF OneEach, Elems
<1>4. \A b \in Elems(assignments) : b.task \in Tasks
  BY TableTypes DEF IInv
<1>5. status[a.task] = "assigned"
  BY <1>4 DEF IInv, TaskInOnePlace
<1>6. a.attempt = attempts[a.task]
  BY DEF IInv, AssignmentIsCurrent
<1>7. QED
  BY <1>2, <1>3, <1>4, <1>5, <1>6

\* A result that completes its task, asks for a retry or fails it.
LEMMA AcceptIInv ==
  ASSUME IInv, NEW m \in replies, NEW a \in Elems(assignments),
         CompleteTask(m, a) \/ RetryTask(m, a) \/ FailTask(m, a)
  PROVE  IInv'
<1>0. /\ Finish(a)
      /\ assignments' = Without(assignments, {a})
      /\ UNCHANGED <<attempts, registry, load, calls, replies>>
      /\ lockedBy' = [lockedBy EXCEPT ![a.task] = NoWorker]
  BY DEF CompleteTask, RetryTask, FailTask, Finish, workerState
<1>1. /\ assignments' \in Seq(Assignment)
      /\ Elems(assignments') =
           {b \in Elems(assignments) : b.task # a.task}
      /\ OneEach(assignments')
      /\ \A b \in Elems(assignments) : b.task \in Tasks
      /\ a.task \in Tasks
      /\ status[a.task] = "assigned"
      /\ a.attempt = attempts[a.task]
  BY <1>0, RemoveEntry
<1>2. attempts[a.task] \in 0..MaxRetries
  BY <1>1 DEF IInv, TypeOK
<1>3. OneOutcomePerAttempt' /\ CallsArePast'
  BY <1>0 DEF IInv, OneOutcomePerAttempt, CallsArePast
<1>4. ASSUME queue' = queue,
             NEW s \in {"completed", "failed"},
             status' = [status EXCEPT ![a.task] = s]
      PROVE  TaskInOnePlace' /\ AssignmentIsCurrent'
  <2>1. TaskInOnePlace'
    BY <1>1, <1>4 DEF IInv, TypeOK, TaskInOnePlace, TaskStatus
  <2>2. AssignmentIsCurrent'
    BY <1>0, <1>1, <1>4 DEF IInv, TypeOK, AssignmentIsCurrent
  <2>3. QED
    BY <2>1, <2>2
<1>5. CASE CompleteTask(m, a)
  <2> USE <1>5 DEF CompleteTask
  <2>0. m.attempt = a.attempt
    BY DEF Answers
  <2>1. Success(a.attempt) \in
          [ok : BOOLEAN, attempt : 0..MaxRetries, stored : BOOLEAN]
    BY <1>1, <1>2 DEF Success
  <2>2. TypeOK'
    BY <1>0, <1>1, <2>0, <2>1 DEF IInv, TypeOK, TaskStatus
  <2>3. TaskInOnePlace' /\ AssignmentIsCurrent'
    BY <1>4
  <2>4. ResultMatchesStatus'
    BY <1>0, <1>1, <2>0 DEF IInv, TypeOK, ResultMatchesStatus, Success
  <2>5. QED
    BY <1>3, <2>2, <2>3, <2>4 DEF IInv
<1>6. CASE RetryTask(m, a)
  <2> USE <1>6 DEF RetryTask
  <2>1. /\ queue' \in Seq(Tasks)
        /\ Elems(queue') = Elems(queue) \cup {a.task}
        /\ Distinct(queue) => Distinct(queue')
    BY <1>1, RequeueElems DEF IInv, TypeOK
  <2>2. TypeOK'
    BY <1>0, <1>1, <2>1 DEF IInv, TypeOK, TaskStatus
  <2>3. TaskInOnePlace'
    BY <1>1, <2>1 DEF IInv, TypeOK, TaskInOnePlace, TaskStatus
  <2>4. AssignmentIsCurrent'
    BY <1>0, <1>1 DEF IInv, TypeOK, AssignmentIsCurrent
  <2>5. ResultMatchesStatus'
    BY <1>0, <1>1 DEF IInv, TypeOK, ResultMatchesStatus
  <2>6. QED
    BY <1>3, <2>2, <2>3, <2>4, <2>5 DEF IInv
<1>7. CASE FailTask(m, a)
  <2> USE <1>7 DEF FailTask
  <2>1. Failure(a.attempt) \in
          [ok : BOOLEAN, attempt : 0..MaxRetries, stored : BOOLEAN]
    BY <1>1, <1>2 DEF Failure
  <2>2. TypeOK'
    BY <1>0, <1>1, <2>1 DEF IInv, TypeOK, TaskStatus
  <2>3. TaskInOnePlace' /\ AssignmentIsCurrent'
    BY <1>4
  <2>4. ResultMatchesStatus'
    BY <1>0, <1>1 DEF IInv, TypeOK, ResultMatchesStatus, Failure
  <2>5. QED
    BY <1>3, <2>2, <2>3, <2>4 DEF IInv
<1>8. QED
  BY <1>5, <1>6, <1>7

\* Registrations and heartbeats touch no task.
LEMMA WorkerTrafficIInv ==
  ASSUME IInv, WorkerTraffic
  PROVE  IInv'
<1>1. UNCHANGED <<taskState, calls, replies>>
  BY DEF WorkerTraffic, Register, Heartbeat, Unregister
<1>2. /\ registry' \in [Workers -> Reported \cup {"absent", "stale"}]
      /\ load' \in [Workers -> Loads]
  BY DEF WorkerTraffic, Register, Heartbeat, Unregister, IInv, TypeOK
<1>3. TypeOK'
  BY <1>1, <1>2 DEF IInv, TypeOK, taskState
<1>4. TaskInOnePlace' /\ AssignmentIsCurrent' /\ ResultMatchesStatus'
  BY <1>1 DEF IInv, TaskInOnePlace, AssignmentIsCurrent,
              ResultMatchesStatus, Elems, Distinct, OneEach, taskState
<1>5. OneOutcomePerAttempt' /\ CallsArePast'
  BY <1>1 DEF IInv, OneOutcomePerAttempt, CallsArePast, taskState
<1>6. QED
  BY <1>3, <1>4, <1>5 DEF IInv

\* What a drain that fails R and assigns G leaves of the queue.
LEMMA DrainedQueue ==
  ASSUME IInv, NEW R, NEW G, NEW w, AfterDrain(R, G, w)
  PROVE  /\ queue' \in Seq(Tasks)
         /\ Elems(queue') = Live(queue) \ (R \cup G)
         /\ Distinct(queue')
         /\ Live(queue) \subseteq Tasks
         /\ \A t \in Tasks : t \in Live(queue) <=> status[t] = "queued"
<1>1. queue \in Seq(Tasks) /\ Distinct(queue)
  BY DEF IInv, TypeOK, TaskInOnePlace
<1>2. queue' = Keep(queue, Live(queue) \ (R \cup G))
  BY DEF AfterDrain, Remaining
<1>3. queue' \in Seq(Tasks) /\ Distinct(queue')
  BY <1>1, <1>2, KeepElems, KeepDistinct
<1>4. Elems(queue') = Elems(queue) \cap (Live(queue) \ (R \cup G))
  BY <1>1, <1>2, KeepElems
<1>5. Live(queue) \subseteq Elems(queue)
  BY DEF Live
<1>6. Elems(queue) \subseteq Tasks
  BY <1>1, ElementOfSeq, LenProperties DEF Elems
<1>7. \A t \in Tasks : t \in Live(queue) <=> status[t] = "queued"
  BY DEF Live, IInv, TaskInOnePlace
<1>8. QED
  BY <1>3, <1>4, <1>5, <1>6, <1>7

\* The part of the invariant a drain that assigns nothing re-establishes.
LEMMA DispatchNoneIInv ==
  ASSUME IInv, NEW Allowed, NEW Stale, DispatchNone(Allowed, Stale)
  PROVE  IInv'
<1> DEFINE R == Refused(1..Len(queue), Allowed, Stale)
<1>0. /\ AfterDrain(R, {}, NoWorker)
      /\ UNCHANGED <<attempts, assignments, workerState, calls, replies>>
  BY DEF DispatchNone
<1>1. /\ queue' \in Seq(Tasks)
      /\ Elems(queue') = Live(queue) \ R
      /\ Distinct(queue')
      /\ Live(queue) \subseteq Tasks
      /\ \A t \in Tasks : t \in Live(queue) <=> status[t] = "queued"
  BY <1>0, DrainedQueue
<1>2. R \subseteq Live(queue)
  BY DEF Refused
<1> HIDE DEF R
<1>3. /\ status' = [t \in Tasks |-> IF t \in R THEN "failed" ELSE status[t]]
      /\ lockedBy' = [t \in Tasks |-> IF t \in R THEN NoWorker
                                      ELSE lockedBy[t]]
      /\ results' = [t \in Tasks |-> IF t \in R THEN Failure(0)
                                     ELSE results[t]]
  BY <1>0, <1>1 DEF AfterDrain
<1>4. TypeOK'
  <2>1. Failure(0) \in
          [ok : BOOLEAN, attempt : 0..MaxRetries, stored : BOOLEAN]
    BY CoordinatorAssumption DEF Failure
  <2>2. QED
    BY <1>0, <1>1, <1>3, <2>1 DEF IInv, TypeOK, TaskStatus, workerState
<1>5. TaskInOnePlace'
  <2>1. Elems(assignments') = Elems(assignments) /\ OneEach(assignments')
    BY <1>0 DEF IInv, TaskInOnePlace, Elems, OneEach
  <2>2. QED
    BY <1>1, <1>2, <1>3, <2>1 DEF IInv, TypeOK, TaskInOnePlace, TaskStatus
<1>6. AssignmentIsCurrent'
  <2>1. Elems(assignments') = Elems(assignments)
    BY <1>0 DEF Elems
  <2>2. \A a \in Elems(assignments) : a.task \in Tasks /\ a.task \notin R
    BY <1>1, <1>2, TableTypes DEF IInv, TaskInOnePlace
  <2>3. QED
    BY <1>0, <1>2, <1>3, <2>1, <2>2 DEF IInv, TypeOK, AssignmentIsCurrent
<1>7. OneOutcomePerAttempt' /\ CallsArePast'
  BY <1>0 DEF IInv, OneOutcomePerAttempt, CallsArePast
<1>8. ResultMatchesStatus'
  BY <1>0, <1>1, <1>2, <1>3 DEF IInv, TypeOK, ResultMatchesStatus, Failure
<1>9. QED
  BY <1>4, <1>5, <1>6, <1>7, <1>8 DEF IInv

\* A drain that assigns the task at position i.
LEMMA DispatchOneIInv ==
  ASSUME IInv, NEW Allowed, NEW Stale, NEW i \in 1..Len(queue),
         DispatchOne(i, Allowed, Stale)
  PROVE  IInv'
<1> DEFINE t == queue[i]
           R == Refused(1..(i - 1), Allowed, Stale)
<1>0. PICK w \in Preferred(t, Stale) :
        LET a == [task |-> t, attempt |-> attempts[t] + 1, worker |-> w]
        IN  /\ AfterDrain(R, {t}, w)
            /\ attempts' = [attempts EXCEPT ![t] = attempts[t] + 1]
            /\ assignments' = Append(assignments, a)
            /\ calls' = calls \cup {a}
  BY DEF DispatchOne, NextAttempt
<1> DEFINE a == [task |-> t, attempt |-> attempts[t] + 1, worker |-> w]
<1>1. /\ UNCHANGED <<workerState, replies>>
      /\ status[t] # "cancelled"
      /\ ~ (attempts[t] >= MaxRetries)
  BY DEF DispatchOne, Assignable, Exhausted
<1>2. /\ queue' \in Seq(Tasks)
      /\ Elems(queue') = Live(queue) \ (R \cup {t})
      /\ Distinct(queue')
      /\ Live(queue) \subseteq Tasks
      /\ \A u \in Tasks : u \in Live(queue) <=> status[u] = "queued"
  BY <1>0, DrainedQueue
<1>3. t \in Live(queue) /\ t \in Tasks /\ status[t] = "queued"
  BY <1>1, <1>2 DEF Live, Elems
<1>4. R \subseteq Live(queue) /\ t \notin R
  <2>1. \A j \in 1..(i - 1) : j \in 1..Len(queue) /\ j # i
    BY LenProperties DEF IInv, TypeOK
  <2>2. \A j \in 1..(i - 1) : queue[j] # t
    BY <2>1 DEF IInv, TaskInOnePlace, Distinct
  <2>3. QED
    BY <2>2 DEF Refused
<1>5. w \in Workers
  BY <1>3, CoordinatorAssumption DEF Preferred, Eligible
<1>6. attempts[t] + 1 \in 1..MaxRetries /\ attempts[t] \in 0..MaxRetries
  BY <1>1, <1>3, CoordinatorAssumption DEF IInv, TypeOK
<1>7. a \in Assignment
  BY <1>3, <1>5, <1>6 DEF Assignment
<1>8. /\ a.task = t
      /\ a.attempt = attempts[t] + 1
      /\ a.worker = w
  OBVIOUS
<1> HIDE DEF t, R, a
<1>9. /\ attempts' = [attempts EXCEPT ![t] = attempts[t] + 1]
      /\ assignments' = Append(assignments, a)
      /\ calls' = calls \cup {a}
      /\ status' = [u \in Tasks |-> CASE u \in R -> "failed"
                                      [] u = t -> "assigned"
                                      [] OTHER -> status[u]]
      /\ lockedBy' = [u \in Tasks |-> CASE u \in R -> NoWorker
                                        [] u = t -> w
                                        [] OTHER -> lockedBy[u]]
      /\ results' = [u \in Tasks |-> IF u \in R THEN Failure(0)
                                     ELSE results[u]]
  BY <1>0, <1>2 DEF AfterDrain, a
<1>10. \A b \in Elems(assignments) :
         b.task \in Tasks /\ status[b.task] = "assigned"
  BY TableTypes DEF IInv, TaskInOnePlace
<1>11. /\ assignments' \in Seq(Assignment)
       /\ Elems(assignments') = Elems(assignments) \cup {a}
       /\ OneEach(assignments')
  <2>1. assignments \in Seq(Assignment) /\ OneEach(assignments)
    BY DEF IInv, TypeOK, TaskInOnePlace
  <2>2. \A b \in Elems(assignments) : b.task # a.task
    BY <1>3, <1>8, <1>10
  <2>3. QED
    BY <1>7, <1>9, <2>1, <2>2, AppendElems, AppendOneEach
<1>12. TypeOK'
  <2>1. Failure(0) \in
          [ok : BOOLEAN, attempt : 0..MaxRetries, stored : BOOLEAN]
    BY CoordinatorAssumption DEF Failure
  <2>2. status' \in [Tasks -> TaskStatus]
    BY <1>9 DEF IInv, TypeOK, TaskStatus
  <2>3. lockedBy' \in [Tasks -> Workers \cup {NoWorker}]
    BY <1>5, <1>9 DEF IInv, TypeOK
  <2>4. attempts' \in [Tasks -> 0..MaxRetries]
    BY <1>3, <1>6, <1>9 DEF IInv, TypeOK
  <2>5. QED
    BY <1>1, <1>2, <1>7, <1>9, <1>11, <2>1, <2>2, <2>3, <2>4
       DEF IInv, TypeOK, workerState
<1>13. TaskInOnePlace'
  BY <1>2, <1>3, <1>4, <1>8, <1>9, <1>10, <1>11
     DEF IInv, TypeOK, TaskInOnePlace, TaskStatus
<1>14. AssignmentIsCurrent'
  BY <1>2, <1>3, <1>4, <1>6, <1>8, <1>9, <1>10, <1>11
     DEF IInv, TypeOK, AssignmentIsCurrent
<1>15. OneOutcomePerAttempt' /\ CallsArePast'
  <2>1. \A c \in calls \cup replies :
          c.task \in Tasks /\ c.attempt \in Nat /\ c.attempt <= attempts[c.task]
    BY DEF IInv, TypeOK, CallsArePast, Assignment, Reply
  <2>2. \A c \in calls \cup replies : c.task = t => c.attempt # a.attempt
    BY <1>6, <1>8, <2>1
  <2>3. OneOutcomePerAttempt'
    BY <1>1, <1>8, <1>9, <2>2 DEF IInv, OneOutcomePerAttempt
  <2>4. \A c \in calls \cup replies : c.attempt <= attempts'[c.task]
    BY <1>6, <1>9, <2>1 DEF IInv, TypeOK
  <2>5. a.attempt <= attempts'[a.task]
    BY <1>3, <1>6, <1>8, <1>9 DEF IInv, TypeOK
  <2>6. CallsArePast'
    BY <1>1, <1>9, <2>4, <2>5 DEF CallsArePast
  <2>7. QED
    BY <2>3, <2>6
<1>16. ResultMatchesStatus'
  BY <1>2, <1>3, <1>4, <1>9 DEF IInv, TypeOK, ResultMatchesStatus, Failure
<1>17. QED
  BY <1>12, <1>13, <1>14, <1>15, <1>16 DEF IInv

\* The overdue prefix of the assignment table and the tasks it is about.
LEMMA OverduePrefix ==
  ASSUME IInv, NEW k \in 1..Len(assignments)
  PROVE  LET retired == SubSeq(assignments, 1, k)
             tasks == [i \in 1..k |-> assignments[i].task]
         IN  /\ Elems(retired) = {assignments[i] : i \in 1..k}
             /\ tasks \in Seq(Tasks)
             /\ Elems(tasks) = {assignments[i].task : i \in 1..k}
             /\ Distinct(tasks)
             /\ \A t \in Elems(tasks) : t \in Tasks /\ status[t] = "assigned"
             /\ \A b \in Elems(assignments) :
                  b \in Elems(retired) <=> b.task \in Elems(tasks)
<1> DEFINE retired == SubSeq(assignments, 1, k)
           tasks == [i \in 1..k |-> assignments[i].task]
<1>0. /\ assignments \in Seq(Assignment)
      /\ Len(assignments) \in Nat
      /\ k \in Nat
      /\ \A i \in 1..k : i \in 1..Len(assignments)
      /\ \A i \in 1..Len(assignments) :
           assignments[i].task \in Tasks /\ assignments[i] \in Elems(assignments)
  BY TableTypes DEF IInv, Elems
<1>1. Elems(retired) = {assignments[i] : i \in 1..k}
  <2>1. Len(retired) = k /\ \A i \in 1..k : retired[i] = assignments[i]
    BY <1>0, SubSeqProperties
  <2>2. QED
    BY <2>1 DEF Elems
<1>2. tasks \in Seq(Tasks) /\ Len(tasks) = k
  <2>1. tasks \in [1..k -> Tasks]
    BY <1>0
  <2>2. tasks \in Seq(Tasks)
    BY <1>0, <2>1, SeqDef
  <2>3. Len(tasks) = k
    BY <1>0, <2>1, <2>2, LenProperties
  <2>4. QED
    BY <2>2, <2>3
<1>3. \A i \in 1..k : tasks[i] = assignments[i].task
  OBVIOUS
<1> HIDE DEF tasks, retired
<1>4. Elems(tasks) = {assignments[i].task : i \in 1..k}
  BY <1>2, <1>3 DEF Elems
<1>5. \A i, j \in 1..Len(assignments) :
        assignments[i].task = assignments[j].task => i = j
  BY DEF IInv, TaskInOnePlace, OneEach
<1>6. Distinct(tasks)
  BY <1>0, <1>2, <1>3, <1>5 DEF Distinct
<1>7. \A t \in Elems(tasks) : t \in Tasks /\ status[t] = "assigned"
  BY <1>0, <1>4 DEF IInv, TaskInOnePlace
<1>8. ASSUME NEW b \in Elems(assignments)
      PROVE  b \in Elems(retired) <=> b.task \in Elems(tasks)
  <2>1. PICK j \in 1..Len(assignments) : b = assignments[j]
    BY DEF Elems
  <2>2. ASSUME b.task \in Elems(tasks)
        PROVE  b \in Elems(retired)
    BY <1>0, <1>1, <1>4, <1>5, <2>1, <2>2
  <2>3. ASSUME b \in Elems(retired)
        PROVE  b.task \in Elems(tasks)
    BY <1>1, <1>4, <2>3
  <2>4. QED
    BY <2>2, <2>3
<1>9. QED
  BY <1>1, <1>2, <1>4, <1>6, <1>7, <1>8 DEF tasks, retired

\* A timeout sweep.
LEMMA SweepIInv ==
  ASSUME IInv, NEW k \in 1..Len(assignments), NEW Late, CheckInFlight(k, Late)
  PROVE  IInv'
<1> DEFINE retired == SubSeq(assignments, 1, k)
           tasks == [i \in 1..k |-> assignments[i].task]
           timedOut == {t \in Elems(tasks) : status[t] # "cancelled"}
           failed == {t \in timedOut : Exhausted(t)}
           retried == timedOut \ failed
           unheard == {assignments[i].worker : i \in 1..k} \cap Late
<1>0. /\ assignments' = Without(assignments, Elems(retired))
      /\ registry' = [w \in Workers |->
                        IF w \in unheard /\ registry[w] # "absent"
                        THEN "stale" ELSE registry[w]]
      /\ status' = [t \in Tasks |-> IF t \in failed THEN "failed"
                                    ELSE IF t \in retried THEN "queued"
                                    ELSE status[t]]
      /\ lockedBy' = [t \in Tasks |-> IF t \in timedOut THEN NoWorker
                                      ELSE lockedBy[t]]
      /\ results' = [t \in Tasks |-> IF t \in failed THEN Failure(0)
                                     ELSE results[t]]
      /\ queue' = queue \o Keep(tasks, retried \ Elems(queue))
      /\ UNCHANGED <<attempts, load, calls, replies>>
  BY DEF CheckInFlight
<1>1. /\ tasks \in Seq(Tasks)
      /\ Distinct(tasks)
      /\ \A t \in Elems(tasks) : t \in Tasks /\ status[t] = "assigned"
      /\ \A b \in Elems(assignments) :
           b \in Elems(retired) <=> b.task \in Elems(tasks)
  BY OverduePrefix
<1>2. /\ timedOut = Elems(tasks)
      /\ failed \subseteq timedOut
      /\ timedOut = failed \cup retried
      /\ failed \cap retried = {}
  BY <1>1
<1>3. \A b \in Elems(assignments) :
        b.task \in Tasks /\ (b \in Elems(retired) <=> b.task \in timedOut)
  BY <1>1, <1>2, TableTypes DEF IInv
<1>4. \A t \in timedOut : t \in Tasks /\ status[t] = "assigned"
  BY <1>1, <1>2
<1> HIDE DEF retired, tasks, timedOut, failed, retried, unheard
<1>5. /\ assignments' \in Seq(Assignment)
      /\ Elems(assignments') =
           {b \in Elems(assignments) : b.task \notin timedOut}
      /\ OneEach(assignments')
  <2>1. assignments \in Seq(Assignment) /\ OneEach(assignments)
    BY DEF IInv, TypeOK, TaskInOnePlace
  <2>2. /\ assignments' \in Seq(Assignment)
        /\ Elems(assignments') = Elems(assignments) \ Elems(retired)
        /\ OneEach(assignments')
    BY <1>0, <2>1, WithoutElems
  <2>3. QED
    BY <1>3, <2>2
<1>6. /\ queue' \in Seq(Tasks)
      /\ Elems(queue') = Elems(queue) \cup retried
      /\ Distinct(queue')
  <2> DEFINE new == Keep(tasks, retried \ Elems(queue))
  <2>1. queue \in Seq(Tasks) /\ Distinct(queue)
    BY DEF IInv, TypeOK, TaskInOnePlace
  <2>2. /\ new \in Seq(Tasks)
        /\ Elems(new) = Elems(tasks) \cap (retried \ Elems(queue))
        /\ Distinct(new)
    BY <1>1, KeepElems, KeepDistinct
  <2> HIDE DEF new
  <2>3. Elems(new) = retried \ Elems(queue)
    BY <1>2, <2>2
  <2>4. queue' = queue \o new
    BY <1>0 DEF new
  <2>5. Elems(queue) \cap Elems(new) = {}
    BY <2>3
  <2>6. /\ queue' \in Seq(Tasks)
        /\ Elems(queue') = Elems(queue) \cup Elems(new)
        /\ Distinct(queue')
    BY <2>1, <2>2, <2>4, <2>5, ConcatElems
  <2>7. QED
    BY <2>3, <2>6
<1>7. TypeOK'
  <2>1. Failure(0) \in
          [ok : BOOLEAN, attempt : 0..MaxRetries, stored : BOOLEAN]
    BY CoordinatorAssumption DEF Failure
  <2>2. registry' \in [Workers -> Reported \cup {"absent", "stale"}]
    BY <1>0 DEF IInv, TypeOK
  <2>3. QED
    BY <1>0, <1>5, <1>6, <2>1, <2>2 DEF IInv, TypeOK, TaskStatus
<1>8. TaskInOnePlace'
  <2>1. ASSUME NEW t \in Tasks
        PROVE  /\ status'[t] = "queued" => t \in Elems(queue')
               /\ t \in Elems(queue') => status'[t] \in {"queued", "cancelled"}
    BY <1>0, <1>2, <1>4, <1>6, <2>1 DEF IInv, TypeOK, TaskInOnePlace
  <2>2. ASSUME NEW t \in Tasks
        PROVE  status'[t] = "assigned" <=>
                 \E a \in Elems(assignments') : a.task = t
    <3>1. status'[t] = "assigned" <=> status[t] = "assigned" /\ t \notin timedOut
      BY <1>0, <1>2, <2>2
    <3>2. status[t] = "assigned" <=>
            \E a \in Elems(assignments) : a.task = t
      BY <2>2 DEF IInv, TaskInOnePlace
    <3>3. QED
      BY <1>5, <3>1, <3>2
  <2>3. QED
    BY <1>5, <1>6, <2>1, <2>2 DEF TaskInOnePlace
<1>9. AssignmentIsCurrent'
  BY <1>0, <1>2, <1>3, <1>4, <1>5 DEF IInv, TypeOK, AssignmentIsCurrent
<1>10. OneOutcomePerAttempt' /\ CallsArePast'
  BY <1>0 DEF IInv, OneOutcomePerAttempt, CallsArePast
<1>11. ResultMatchesStatus'
  BY <1>0, <1>2, <1>4 DEF IInv, TypeOK, ResultMatchesStatus, Failure
<1>12. QED
  BY <1>7, <1>8, <1>9, <1>10, <1>11 DEF IInv

-----------------------------------------------------------------------------
(* The theorems.                                                           *)

\* Every step of the coordinator preserves the invariant.
LEMMA NextIInv == IInv /\ [Next]_vars => IInv'
<1> SUFFICES ASSUME IInv, [Next]_vars
             PROVE  IInv'
  OBVIOUS
<1>1. CASE \E t \in Tasks : Submit(t) \/ Cancel(t)
  BY <1>1, SubmitIInv, CancelQueuedIInv, CancelAssignedIInv DEF Cancel
<1>2. CASE Dispatching
  BY <1>2, DispatchOneIInv, DispatchNoneIInv DEF Dispatching, DispatchNext
<1>3. CASE CallEnds
  BY <1>3, WorkerRepliesIInv, UnreachableIInv DEF CallEnds
<1>4. CASE \E m \in replies : AcceptResult(m)
  BY <1>4, AcceptIInv DEF AcceptResult
<1>5. CASE Sweeping
  BY <1>5, SweepIInv DEF Sweeping
<1>6. CASE WorkerTraffic
  BY <1>6, WorkerTrafficIInv
<1>7. CASE UNCHANGED vars
  <2> USE <1>7 DEF vars, taskState, workerState
  <2>1. TypeOK' /\ ResultMatchesStatus'
    BY DEF IInv, TypeOK, ResultMatchesStatus
  <2>2. TaskInOnePlace' /\ AssignmentIsCurrent'
    BY DEF IInv, TaskInOnePlace, AssignmentIsCurrent, Elems, Distinct, OneEach
  <2>3. OneOutcomePerAttempt' /\ CallsArePast'
    BY DEF IInv, OneOutcomePerAttempt, CallsArePast
  <2>4. QED
    BY <2>1, <2>2, <2>3 DEF IInv
<1>8. QED
  BY <1>1, <1>2, <1>3, <1>4, <1>5, <1>6, <1>7 DEF Next

\* The invariant holds in every behaviour.
LEMMA SpecIInv == Spec => []IInv
BY InitIInv, NextIInv, PTL DEF Spec

\* Every field of the coordinator keeps to its domain.
THEOREM TypeCorrect == Spec => []TypeOK
<1>1. IInv => TypeOK
  BY DEF IInv
<1>2. QED
  BY <1>1, SpecIInv, PTL

\* submit, cancel, dispatch_next, dispatch_async, accept_result and
\* check_in_flight, in any order and over any number of tasks and workers,
\* neither lose a task nor hold it in two places.
THEOREM NoTaskLost == Spec => []TaskInOnePlace
<1>1. IInv => TaskInOnePlace
  BY DEF IInv
<1>2. QED
  BY <1>1, SpecIInv, PTL

\* The lock of a task (last_assigned_worker_id) and its attempt number agree
\* with the assignment table.
THEOREM AssignmentsAreCurrent == Spec => []AssignmentIsCurrent
<1>1. IInv => AssignmentIsCurrent
  BY DEF IInv
<1>2. QED
  BY <1>1, SpecIInv, PTL

\* No attempt is ever sent out twice or answered twice by the transport.
THEOREM AttemptsAreSentOnce == Spec => []OneOutcomePerAttempt
<1>1. IInv => OneOutcomePerAttempt
  BY DEF IInv
<1>2. QED
  BY <1>1, SpecIInv, PTL

\* accept_result, applied late, out of order or repeatedly, stores exactly
\* the outcome that the status of the task states.
THEOREM ResultsMatch == Spec => []ResultMatchesStatus
<1>1. IInv => ResultMatchesStatus
  BY DEF IInv
<1>2. QED
  BY <1>1, SpecIInv, PTL

-----------------------------------------------------------------------------
(* The coordinator implements TaskLifecycle: what each step does to each   *)
(* task is one of the lifecycle's moves, or nothing.                       *)

Moved(u) ==
  \/ Lifecycle!Accept(u) \/ Lifecycle!Try(u) \/ Lifecycle!GiveBack(u)
  \/ Lifecycle!Complete(u) \/ Lifecycle!Fail(u) \/ Lifecycle!Cancel(u)
  \/ Lifecycle!Stay(u)

\* Task u makes a move, and keeps its result if it is finished.
TaskStep(u) ==
  /\ Moved(u)
  /\ status[u] \in Terminal => results'[u] = results[u]

\* A step that changes one task's status alone.
LEMMA OneTaskStep ==
  ASSUME IInv, NEW t \in Tasks, NEW q,
         status' = [status EXCEPT ![t] = q],
         attempts' = attempts,
         \/ status[t] = "unknown" /\ q = "queued"
         \/ status[t] = "queued" /\ q = "cancelled"
         \/ status[t] = "assigned" /\ q \in {"queued", "completed", "cancelled"}
         \/ status[t] = "assigned" /\ q = "failed" /\ Exhausted(t),
         \A u \in Tasks : u = t \/ results'[u] = results[u]
  PROVE  \A u \in Tasks : TaskStep(u)
<1>1. status \in [Tasks -> TaskStatus] /\ attempts \in [Tasks -> 0..MaxRetries]
  BY DEF IInv, TypeOK
<1>2. \A u \in Tasks : attempts'[u] = attempts[u] /\ attempts'[u] = attempts[u] + 0
  BY <1>1
<1>3. TaskStep(t)
  <2>1. status'[t] = q /\ status[t] \notin Terminal
    BY <1>1 DEF Terminal
  <2>2. Moved(t)
    BY <1>2, <2>1 DEF Moved, Exhausted, Lifecycle!Accept, Lifecycle!Moves,
         Lifecycle!Cancel, Lifecycle!GiveBack, Lifecycle!Complete,
         Lifecycle!Fail
  <2>3. QED
    BY <2>1, <2>2 DEF TaskStep
<1>4. ASSUME NEW u \in Tasks, u # t
      PROVE  TaskStep(u)
  BY <1>1, <1>2, <1>4 DEF TaskStep, Moved, Lifecycle!Stay
<1>5. QED
  BY <1>3, <1>4

\* A step that changes neither status, attempts nor results.
LEMMA NoTaskStep ==
  ASSUME UNCHANGED <<status, attempts, results>>
  PROVE  \A u \in Tasks : TaskStep(u)
BY DEF TaskStep, Moved, Lifecycle!Stay

LEMMA SubmitMoves ==
  ASSUME IInv, NEW t \in Tasks, Submit(t)
  PROVE  \A u \in Tasks : TaskStep(u)
BY OneTaskStep DEF Submit

LEMMA CancelMoves ==
  ASSUME IInv, NEW t \in Tasks, Cancel(t)
  PROVE  \A u \in Tasks : TaskStep(u)
BY OneTaskStep DEF Cancel, CancelQueued, CancelAssigned

LEMMA CallMoves ==
  ASSUME IInv, CallEnds
  PROVE  \A u \in Tasks : TaskStep(u)
<1>1. PICK c \in calls : Unreachable(c) \/ \E ok \in BOOLEAN : WorkerReplies(c, ok)
  BY DEF CallEnds
<1>2. CASE UNCHANGED taskState
  BY <1>2, NoTaskStep DEF taskState
<1>3. CASE Unreachable(c) /\ c \in Elems(assignments)
  <2>1. c.task \in Tasks /\ status[c.task] = "assigned"
    BY <1>3, TableTypes DEF IInv, TaskInOnePlace
  <2>2. /\ status' = [status EXCEPT ![c.task] = "queued"]
        /\ UNCHANGED <<attempts, results>>
    BY <1>3 DEF Unreachable, Release
  <2>3. QED
    BY <2>1, <2>2, OneTaskStep
<1>4. QED
  BY <1>1, <1>2, <1>3 DEF Unreachable, Release, WorkerReplies

LEMMA AcceptMoves ==
  ASSUME IInv, NEW m \in replies, AcceptResult(m)
  PROVE  \A u \in Tasks : TaskStep(u)
<1>1. PICK a \in Elems(assignments) :
        CompleteTask(m, a) \/ RetryTask(m, a) \/ FailTask(m, a)
  BY DEF AcceptResult
<1>2. a.task \in Tasks /\ status[a.task] = "assigned"
  BY TableTypes DEF IInv, TaskInOnePlace
<1>3. attempts' = attempts
  BY <1>1 DEF CompleteTask, RetryTask, FailTask, Finish
<1>4. \A u \in Tasks : u = a.task \/ results'[u] = results[u]
  BY <1>1 DEF CompleteTask, RetryTask, FailTask, IInv, TypeOK
<1>5. \/ status' = [status EXCEPT ![a.task] = "completed"]
      \/ status' = [status EXCEPT ![a.task] = "queued"]
      \/ status' = [status EXCEPT ![a.task] = "failed"] /\ Exhausted(a.task)
  BY <1>1 DEF CompleteTask, RetryTask, FailTask
<1>6. QED
  BY <1>2, <1>3, <1>4, <1>5, OneTaskStep

LEMMA DispatchMoves ==
  ASSUME IInv, Dispatching
  PROVE  \A u \in Tasks : TaskStep(u)
<1>1. PICK Allowed, Stale : DispatchNext(Allowed, Stale)
  BY DEF Dispatching
<1>2. CASE DispatchNone(Allowed, Stale)
  <2> DEFINE R == Refused(1..Len(queue), Allowed, Stale)
  <2>1. AfterDrain(R, {}, NoWorker) /\ attempts' = attempts
    BY <1>2 DEF DispatchNone
  <2>2. \A u \in Tasks : u \in Live(queue) <=> status[u] = "queued"
    BY <2>1, DrainedQueue
  <2>3. R \subseteq Live(queue)
    BY DEF Refused
  <2> HIDE DEF R
  <2>4. ASSUME NEW u \in Tasks
        PROVE  TaskStep(u)
    <3>1. attempts'[u] = attempts[u] + 0
      BY <2>1 DEF IInv, TypeOK
    <3>2. /\ status'[u] = IF u \in R THEN "failed" ELSE status[u]
          /\ results'[u] = IF u \in R THEN Failure(0) ELSE results[u]
      BY <2>1, <2>2 DEF AfterDrain
    <3>3. QED
      BY <2>1, <2>2, <2>3, <3>1, <3>2
         DEF TaskStep, Moved, Terminal, Lifecycle!Stay, Lifecycle!Fail,
             Lifecycle!Moves
  <2>5. QED
    BY <2>4
<1>3. ASSUME NEW i \in 1..Len(queue), DispatchOne(i, Allowed, Stale)
      PROVE  \A u \in Tasks : TaskStep(u)
  <2> DEFINE t == queue[i]
             R == Refused(1..(i - 1), Allowed, Stale)
  <2>1. PICK w : /\ AfterDrain(R, {t}, w)
                 /\ attempts' = [attempts EXCEPT ![t] = attempts[t] + 1]
    BY <1>3 DEF DispatchOne, NextAttempt
  <2>2. t \in Live(queue) /\ ~ (attempts[t] >= MaxRetries)
    BY <1>3 DEF DispatchOne, Assignable, Exhausted, Live, Elems
  <2>3. /\ Live(queue) \subseteq Tasks
        /\ \A u \in Tasks : u \in Live(queue) <=> status[u] = "queued"
    BY <2>1, DrainedQueue
  <2>4. R \subseteq Live(queue) /\ t \notin R
    <3>1. \A j \in 1..(i - 1) : j \in 1..Len(queue) /\ j # i
      BY LenProperties DEF IInv, TypeOK
    <3>2. \A j \in 1..(i - 1) : queue[j] # t
      BY <3>1 DEF IInv, TaskInOnePlace, Distinct
    <3>3. QED
      BY <3>2 DEF Refused
  <2> HIDE DEF t, R
  <2>5. ASSUME NEW u \in Tasks
        PROVE  TaskStep(u)
    <3>1. /\ attempts[u] \in Nat
          /\ attempts'[u] = IF u = t THEN attempts[u] + 1 ELSE attempts[u] + 0
          /\ u # t => attempts'[u] = attempts[u]
      BY <2>1 DEF IInv, TypeOK
    <3>2. /\ status'[u] = IF u \in R THEN "failed"
                          ELSE IF u = t THEN "assigned" ELSE status[u]
          /\ results'[u] = IF u \in R THEN Failure(0) ELSE results[u]
      BY <2>1, <2>3, <2>4 DEF AfterDrain
    <3>3. u = t => attempts[u] < MaxRetries
      BY <2>2, <3>1, CoordinatorAssumption
    <3>4. CASE u = t
      BY <2>2, <2>3, <2>4, <3>1, <3>2, <3>3, <3>4
         DEF TaskStep, Moved, Terminal, Lifecycle!Try, Lifecycle!Moves
    <3>5. CASE u \in R
      BY <2>2, <2>3, <2>4, <3>1, <3>2, <3>5
         DEF TaskStep, Moved, Terminal, Lifecycle!Fail, Lifecycle!Moves
    <3>6. CASE u # t /\ u \notin R
      BY <3>1, <3>2, <3>6 DEF TaskStep, Moved, Lifecycle!Stay
    <3>7. QED
      BY <3>4, <3>5, <3>6
  <2>6. QED
    BY <2>5
<1>4. QED
  BY <1>1, <1>2, <1>3 DEF DispatchNext

LEMMA SweepMoves ==
  ASSUME IInv, NEW k \in 1..Len(assignments), NEW Late, CheckInFlight(k, Late)
  PROVE  \A u \in Tasks : TaskStep(u)
<1> DEFINE tasks == [i \in 1..k |-> assignments[i].task]
           timedOut == {t \in Elems(tasks) : status[t] # "cancelled"}
           failed == {t \in timedOut : Exhausted(t)}
           retried == timedOut \ failed
<1>1. /\ status' = [t \in Tasks |-> IF t \in failed THEN "failed"
                                    ELSE IF t \in retried THEN "queued"
                                    ELSE status[t]]
      /\ results' = [t \in Tasks |-> IF t \in failed THEN Failure(0)
                                     ELSE results[t]]
      /\ attempts' = attempts
  BY DEF CheckInFlight
<1>2. \A t \in timedOut : status[t] = "assigned"
  BY OverduePrefix
<1>3. \A t \in failed : attempts[t] >= MaxRetries /\ t \in timedOut
  BY DEF Exhausted
<1>4. retried \subseteq timedOut
  OBVIOUS
<1> HIDE DEF tasks, timedOut, failed, retried
<1>5. ASSUME NEW u \in Tasks
      PROVE  TaskStep(u)
  <2>1. attempts'[u] = attempts[u] + 0 /\ attempts'[u] = attempts[u]
    BY <1>1 DEF IInv, TypeOK
  <2>2. CASE u \in failed
    BY <1>1, <1>2, <1>3, <2>1, <2>2
       DEF TaskStep, Moved, Terminal, Lifecycle!Fail, Lifecycle!Moves
  <2>3. CASE u \in retried /\ u \notin failed
    BY <1>1, <1>2, <1>4, <2>1, <2>3
       DEF TaskStep, Moved, Terminal, Lifecycle!GiveBack, Lifecycle!Moves
  <2>4. CASE u \notin retried /\ u \notin failed
    BY <1>1, <2>1, <2>4 DEF TaskStep, Moved, Lifecycle!Stay
  <2>5. QED
    BY <2>2, <2>3, <2>4
<1>6. QED
  BY <1>5

\* Every step moves every task along its lifecycle.
LEMMA NextMoves ==
  ASSUME IInv, [Next]_vars
  PROVE  \A u \in Tasks : TaskStep(u)
<1>1. CASE \E t \in Tasks : Submit(t) \/ Cancel(t)
  BY <1>1, SubmitMoves, CancelMoves
<1>2. CASE Dispatching
  BY <1>2, DispatchMoves
<1>3. CASE CallEnds
  BY <1>3, CallMoves
<1>4. CASE \E m \in replies : AcceptResult(m)
  BY <1>4, AcceptMoves
<1>5. CASE Sweeping
  BY <1>5, SweepMoves DEF Sweeping
<1>6. CASE WorkerTraffic
  BY <1>6, NoTaskStep DEF WorkerTraffic, Register, Heartbeat, Unregister, taskState
<1>7. CASE UNCHANGED vars
  BY <1>7, NoTaskStep DEF vars, taskState
<1>8. QED
  BY <1>1, <1>2, <1>3, <1>4, <1>5, <1>6, <1>7 DEF Next

\* A finished task keeps its status and its result, whatever late replies,
\* sweeps and dispatches follow.
THEOREM TerminalStays == Spec => TerminalIsFinal
<1>1. ASSUME IInv, [Next]_vars
      PROVE  \A t \in Tasks : status[t] \in Terminal =>
               status'[t] = status[t] /\ results'[t] = results[t]
  <2>1. ASSUME NEW t \in Tasks, status[t] \in Terminal
        PROVE  status'[t] = status[t] /\ results'[t] = results[t]
    <3>1. TaskStep(t)
      BY <1>1, NextMoves
    <3>2. Lifecycle!Stay(t)
      BY <2>1, <3>1 DEF TaskStep, Moved, Terminal, Lifecycle!Accept,
           Lifecycle!Try, Lifecycle!GiveBack, Lifecycle!Complete,
           Lifecycle!Fail, Lifecycle!Cancel, Lifecycle!Moves
    <3>3. QED
      BY <2>1, <3>1, <3>2 DEF TaskStep, Lifecycle!Stay
  <2>2. QED
    BY <2>1
<1>2. QED
  BY <1>1, SpecIInv, PTL DEF Spec, TerminalIsFinal

\* The coordinator implements the lifecycle it promises: accepted once, at
\* most MaxRetries tries, one at a time, and one final phase.
THEOREM CoordinatorImplementsLifecycle == Spec => ImplementsLifecycle
<1>1. Init => Lifecycle!Init
  BY DEF Init, Lifecycle!Init
<1>2. ASSUME IInv, IInv', [Next]_vars
      PROVE  [Lifecycle!Next]_(Lifecycle!taskVars)
  <2>1. \A t \in Tasks : Moved(t)
    BY <1>2, NextMoves DEF TaskStep
  <2>2. status' \in [Tasks -> Lifecycle!Phases]
    BY <1>2 DEF IInv, TypeOK, TaskStatus, Lifecycle!Phases
  <2>3. attempts' \in [Tasks -> 0..MaxRetries]
    BY <1>2 DEF IInv, TypeOK
  <2>4. QED
    BY <2>1, <2>2, <2>3 DEF Moved, Lifecycle!Next
<1>3. QED
  BY <1>1, <1>2, SpecIInv, PTL DEF Spec, ImplementsLifecycle, Lifecycle!Spec

-----------------------------------------------------------------------------
(* The deque keeps its order: every step appends to it or filters it.      *)

Extends(q, r) == Len(q) <= Len(r) /\ \A i \in 1..Len(q) : r[i] = q[i]

LEMMA AppendExtends ==
  ASSUME NEW q \in Seq(Tasks), NEW t \in Tasks
  PROVE  Extends(q, Append(q, t)) /\ Extends(q, Requeue(q, t))
<1>1. /\ Len(q) \in Nat
      /\ Len(Append(q, t)) = Len(q) + 1
      /\ \A i \in 1..Len(q) : Append(q, t)[i] = q[i]
  BY AppendProperties, LenProperties
<1>2. Extends(q, Append(q, t)) /\ Extends(q, q)
  BY <1>1 DEF Extends
<1>3. QED
  BY <1>2 DEF Requeue

LEMMA ConcatExtends ==
  ASSUME NEW q \in Seq(Tasks), NEW r \in Seq(Tasks)
  PROVE  Extends(q, q \o r)
<1>1. /\ Len(q) \in Nat /\ Len(r) \in Nat
      /\ Len(q \o r) = Len(q) + Len(r)
      /\ \A i \in 1..Len(q) + Len(r) :
           (q \o r)[i] = IF i <= Len(q) THEN q[i] ELSE r[i - Len(q)]
  BY ConcatProperties, LenProperties
<1>2. QED
  BY <1>1 DEF Extends

\* What a step does to the deque.
LEMMA NextQueue ==
  ASSUME IInv, [Next]_vars
  PROVE  Extends(queue, queue') \/ \E S : queue' = Keep(queue, S)
<1>0. queue \in Seq(Tasks) /\ Len(queue) \in Nat
  BY LenProperties DEF IInv, TypeOK
<1>1. CASE UNCHANGED queue
  BY <1>0, <1>1 DEF Extends
<1>2. CASE \E t \in Tasks : Submit(t) \/ Cancel(t)
  BY <1>0, <1>1, <1>2, AppendExtends DEF Submit, Cancel, CancelQueued, CancelAssigned
<1>3. CASE Dispatching
  <2>1. PICK R, G, w : AfterDrain(R, G, w)
    BY <1>3 DEF Dispatching, DispatchNext, DispatchOne, DispatchNone
  <2>2. QED
    BY <2>1 DEF AfterDrain, Remaining
<1>4. CASE CallEnds
  <2>1. PICK c \in calls : Unreachable(c) \/ \E ok \in BOOLEAN : WorkerReplies(c, ok)
    BY <1>4 DEF CallEnds
  <2>2. c.task \in Tasks
    BY TableTypes DEF IInv, TypeOK
  <2>3. QED
    BY <1>0, <1>1, <2>1, <2>2, AppendExtends
       DEF Unreachable, Release, WorkerReplies, taskState
<1>5. CASE \E m \in replies : AcceptResult(m)
  <2>1. PICK m \in replies, a \in Elems(assignments) :
          CompleteTask(m, a) \/ RetryTask(m, a) \/ FailTask(m, a)
    BY <1>5 DEF AcceptResult
  <2>2. a.task \in Tasks
    BY TableTypes DEF IInv
  <2>3. QED
    BY <1>0, <1>1, <2>1, <2>2, AppendExtends DEF CompleteTask, RetryTask, FailTask
<1>6. CASE Sweeping
  <2>1. PICK k \in 1..Len(assignments), Late \in SUBSET Workers : CheckInFlight(k, Late)
    BY <1>6 DEF Sweeping
  <2>2. [i \in 1..k |-> assignments[i].task] \in Seq(Tasks)
    BY OverduePrefix
  <2>3. PICK S : queue' = queue \o Keep([i \in 1..k |-> assignments[i].task], S)
    BY <2>1 DEF CheckInFlight
  <2>4. QED
    BY <1>0, <2>2, <2>3, KeepElems, ConcatExtends
<1>7. CASE WorkerTraffic
  BY <1>1, <1>7 DEF WorkerTraffic, Register, Heartbeat, Unregister, taskState
<1>8. CASE UNCHANGED vars
  BY <1>1, <1>8 DEF vars, taskState
<1>9. QED
  BY <1>2, <1>3, <1>4, <1>5, <1>6, <1>7, <1>8 DEF Next

\* Two queued tasks that stay queued are never reordered, so a task is not
\* overtaken because a drain, a retry or a sweep came in between.
THEOREM QueueIsFifo == Spec => QueueOrderStable
<1>1. ASSUME IInv, [Next]_vars
      PROVE  \A t, u \in Elems(queue) \cap Elems(queue') :
               Precedes(queue, t, u) => Precedes(queue', t, u)
  <2> SUFFICES ASSUME NEW t \in Elems(queue) \cap Elems(queue'),
                      NEW u \in Elems(queue) \cap Elems(queue'),
                      Precedes(queue, t, u)
               PROVE  Precedes(queue', t, u)
    OBVIOUS
  <2>0. queue \in Seq(Tasks) /\ Len(queue) \in Nat
    BY <1>1, LenProperties DEF IInv, TypeOK
  <2>1. CASE Extends(queue, queue')
    <3>1. PICK i, j \in 1..Len(queue) :
            i < j /\ queue[i] = t /\ queue[j] = u
      BY DEF Precedes
    <3>2. /\ i \in 1..Len(queue') /\ j \in 1..Len(queue')
          /\ queue'[i] = t /\ queue'[j] = u
      <4>1. Len(queue') \in Nat
        BY <1>1, NextIInv, LenProperties DEF IInv, TypeOK
      <4>2. QED
        BY <2>0, <2>1, <3>1, <4>1 DEF Extends
    <3>3. QED
      BY <3>1, <3>2 DEF Precedes
  <2>2. ASSUME NEW S, queue' = Keep(queue, S)
        PROVE  Precedes(queue', t, u)
    <3>1. t \in S /\ u \in S
      BY <2>0, <2>2, KeepElems
    <3>2. QED
      BY <2>0, <2>2, <3>1, KeepOrder
  <2>3. QED
    BY <1>1, <2>1, <2>2, NextQueue
<1>2. QED
  BY <1>1, SpecIInv, PTL DEF Spec, QueueOrderStable

-----------------------------------------------------------------------------
(* DistributedAdapter: callers that share the coordinator.  A caller       *)
(* releases another caller's assignment with its own task, so a task may   *)
(* be queued while it is assigned, and IInv is not an invariant here.      *)

\* What a step of the coordinator does to the statuses when it applies no
\* successful result: no task is completed by it, and none is forgotten.
Uncompleting ==
  \A t \in Tasks : /\ status'[t] = "completed" => status[t] = "completed"
                   /\ status[t] # "unknown" => status'[t] # "unknown"

LEMMA SubmitTypes ==
  ASSUME TypeOK, NEW t \in Tasks, Submit(t)
  PROVE  TypeOK' /\ Uncompleting /\ status'[t] = "queued"
<1>1. queue \in Seq(Tasks) /\ queue' = Append(queue, t)
  BY DEF Submit, TypeOK
<1>2. queue' \in Seq(Tasks)
  BY <1>1, AppendAt
<1> QED BY <1>2 DEF Submit, workerState, TypeOK, TaskStatus, Uncompleting

LEMMA CancelTypes ==
  ASSUME TypeOK, NEW t \in Tasks, Cancel(t)
  PROVE  TypeOK' /\ Uncompleting
<1>1. CASE CancelQueued(t)
  BY <1>1 DEF CancelQueued, workerState, TypeOK, TaskStatus, Uncompleting
<1>2. CASE CancelAssigned(t)
  <2>1. assignments' \in Seq(Assignment)
    BY <1>2, WithoutElems DEF CancelAssigned, TypeOK
  <2> QED BY <1>2, <2>1 DEF CancelAssigned, workerState, TypeOK, TaskStatus, Uncompleting
<1> QED BY <1>1, <1>2 DEF Cancel

LEMMA DrainTypes ==
  ASSUME TypeOK, NEW R, NEW G, NEW w \in Workers \cup {NoWorker}, AfterDrain(R, G, w)
  PROVE  /\ queue' \in Seq(Tasks)
         /\ status' \in [Tasks -> TaskStatus]
         /\ lockedBy' \in [Tasks -> Workers \cup {NoWorker}]
         /\ results' \in [Tasks -> [ok : BOOLEAN, attempt : 0..MaxRetries, stored : BOOLEAN]]
         /\ Uncompleting
<1>1. queue' \in Seq(Tasks)
  BY KeepElems DEF TypeOK, AfterDrain, Remaining
<1>2. Failure(0) \in [ok : BOOLEAN, attempt : 0..MaxRetries, stored : BOOLEAN]
  BY CoordinatorAssumption DEF Failure
<1>3. status' \in [Tasks -> TaskStatus] /\ Uncompleting
  BY DEF AfterDrain, TypeOK, TaskStatus, Uncompleting
<1>4. lockedBy' \in [Tasks -> Workers \cup {NoWorker}]
  BY DEF AfterDrain, TypeOK
<1>5. results' \in [Tasks -> [ok : BOOLEAN, attempt : 0..MaxRetries, stored : BOOLEAN]]
  BY <1>2 DEF AfterDrain, TypeOK
<1> QED BY <1>1, <1>3, <1>4, <1>5

LEMMA DispatchNoneTypes ==
  ASSUME TypeOK, NEW Allowed, NEW Stale, DispatchNone(Allowed, Stale)
  PROVE  TypeOK' /\ Uncompleting
  BY DrainTypes DEF DispatchNone, workerState, TypeOK

LEMMA DispatchOneTypes ==
  ASSUME TypeOK, NEW Allowed, NEW Stale, NEW i \in 1..Len(queue),
         DispatchOne(i, Allowed, Stale)
  PROVE  /\ TypeOK' /\ Uncompleting
         /\ assignments'[Len(assignments')] \in Assignment
<1> DEFINE t == queue[i]
<1>0. PICK w \in Preferred(t, Stale) :
        LET a == [task |-> t, attempt |-> attempts[t] + 1, worker |-> w]
        IN  /\ AfterDrain(Refused(1..(i - 1), Allowed, Stale), {t}, w)
            /\ attempts' = [attempts EXCEPT ![t] = attempts[t] + 1]
            /\ assignments' = Append(assignments, a)
            /\ calls' = calls \cup {a}
  BY DEF DispatchOne, NextAttempt
<1> DEFINE a == [task |-> t, attempt |-> attempts[t] + 1, worker |-> w]
<1>1. UNCHANGED <<workerState, replies>> /\ ~ (attempts[t] >= MaxRetries)
  BY DEF DispatchOne, Assignable, Exhausted
<1>2. t \in Tasks
  BY ElementOfSeq, LenProperties DEF TypeOK
<1>3. w \in Workers
  BY <1>2, CoordinatorAssumption DEF Preferred, Eligible
<1>4. attempts[t] + 1 \in 1..MaxRetries
  BY <1>1, <1>2, CoordinatorAssumption DEF TypeOK
<1>5. a \in Assignment
  BY <1>2, <1>3, <1>4 DEF Assignment
<1>6. /\ AfterDrain(Refused(1..(i - 1), Allowed, Stale), {t}, w)
      /\ attempts' = [attempts EXCEPT ![t] = attempts[t] + 1]
      /\ assignments' = Append(assignments, a) /\ calls' = calls \cup {a}
  BY <1>0
<1> HIDE DEF a, t
<1>7. /\ assignments \in Seq(Assignment) /\ Len(assignments) \in Nat
      /\ assignments' \in Seq(Assignment) /\ Len(assignments') = Len(assignments) + 1
      /\ assignments'[Len(assignments) + 1] = a
  <2>1. assignments \in Seq(Assignment)
    BY DEF TypeOK
  <2> QED BY <1>5, <1>6, <2>1, AppendAt
<1>8. attempts' \in [Tasks -> 0..MaxRetries] /\ calls' \subseteq Assignment
  BY <1>2, <1>4, <1>5, <1>6 DEF TypeOK
<1>9. TypeOK' /\ Uncompleting
  BY <1>1, <1>3, <1>6, <1>7, <1>8, DrainTypes DEF workerState, TypeOK
<1> QED BY <1>5, <1>7, <1>9

LEMMA ReleaseTypes ==
  ASSUME TypeOK, NEW c, NEW t \in Tasks, Release(c, t),
         UNCHANGED <<workerState, replies>>, calls' \subseteq calls
  PROVE  TypeOK' /\ Uncompleting
<1>1. CASE c \in Elems(assignments)
  <2>1. assignments' \in Seq(Assignment) /\ queue' \in Seq(Tasks)
    BY <1>1, WithoutElems, RequeueElems DEF Release, TypeOK
  <2> QED BY <1>1, <2>1 DEF Release, workerState, TypeOK, TaskStatus, Uncompleting
<1>2. CASE c \notin Elems(assignments)
  BY <1>2 DEF Release, taskState, workerState, TypeOK, Uncompleting
<1> QED BY <1>1, <1>2

\* A result that is applied is one of an active assignment of its task, and
\* only a successful one completes it.
LEMMA AcceptTypes ==
  ASSUME TypeOK, NEW m, AcceptResult(m)
  PROVE  /\ TypeOK'
         /\ Uncompleting \/ m.ok
         /\ m.task \in Tasks /\ m.attempt \in 1..MaxRetries
         /\ \A t \in Tasks : /\ status[t] # "unknown" => status'[t] # "unknown"
                             /\ t # m.task => status'[t] = status[t]
<1>1. PICK a \in Elems(assignments) :
        CompleteTask(m, a) \/ RetryTask(m, a) \/ FailTask(m, a)
  BY DEF AcceptResult
<1>2. a \in Assignment /\ a.task \in Tasks /\ a.attempt \in 1..MaxRetries
  BY TableTypes DEF Assignment
<1>3. a.task = m.task /\ a.attempt = m.attempt
  BY <1>1 DEF CompleteTask, RetryTask, FailTask, Answers, ActiveIndex
<1>4. /\ assignments' \in Seq(Assignment)
      /\ lockedBy' \in [Tasks -> Workers \cup {NoWorker}]
      /\ UNCHANGED <<attempts, workerState, calls, replies>>
  <2>1. Finish(a)
    BY <1>1 DEF CompleteTask, RetryTask, FailTask
  <2>2. assignments \in Seq(Assignment) /\ lockedBy \in [Tasks -> Workers \cup {NoWorker}]
    BY DEF TypeOK
  <2> QED BY <2>1, <2>2, WithoutElems DEF Finish
<1>5. queue' \in Seq(Tasks)
  <2>1. queue' = queue \/ queue' = Requeue(queue, a.task)
    BY <1>1 DEF CompleteTask, RetryTask, FailTask
  <2>2. queue \in Seq(Tasks)
    BY DEF TypeOK
  <2> QED BY <1>2, <2>1, <2>2, RequeueElems
<1>6. PICK q \in {"completed", "queued", "failed"} :
        status' = [status EXCEPT ![a.task] = q] /\ (q = "completed" => m.ok)
  BY <1>1 DEF CompleteTask, RetryTask, FailTask
<1>7. results' \in [Tasks -> [ok : BOOLEAN, attempt : 0..MaxRetries, stored : BOOLEAN]]
  <2>1. \A n \in 1..MaxRetries :
          /\ Success(n) \in [ok : BOOLEAN, attempt : 0..MaxRetries, stored : BOOLEAN]
          /\ Failure(n) \in [ok : BOOLEAN, attempt : 0..MaxRetries, stored : BOOLEAN]
    BY CoordinatorAssumption DEF Success, Failure
  <2> QED BY <1>1, <1>2, <1>3, <2>1 DEF CompleteTask, RetryTask, FailTask, TypeOK
<1>8. TypeOK'
  BY <1>2, <1>4, <1>5, <1>6, <1>7 DEF TypeOK, TaskStatus, workerState
<1> QED BY <1>2, <1>3, <1>6, <1>8 DEF TypeOK, Uncompleting

LEMMA TrafficTypes ==
  ASSUME TypeOK, WorkerTraffic
  PROVE  TypeOK' /\ status' = status
<1>1. UNCHANGED <<taskState, calls, replies>>
  BY DEF WorkerTraffic, Register, Heartbeat, Unregister
<1>2. registry' \in [Workers -> Reported \cup {"absent", "stale"}] /\ load' \in [Workers -> Loads]
  BY DEF WorkerTraffic, Register, Heartbeat, Unregister, TypeOK
<1> QED BY <1>1, <1>2 DEF TypeOK, taskState

Answer == [ok : BOOLEAN, task : Tasks, for : Assignment]

AdapterTypes ==
  /\ pc \in [Callers -> Places]
  /\ polls \in [Callers -> Nat]
  /\ held \in [Callers -> Assignment \cup {NoAssignment}]
  /\ answer \in [Callers -> Answer \cup {NoAnswer}]
  /\ outcome \in [Callers -> Outcomes]
  /\ \A t \in Callers : pc[t] = "waiting" => held[t] \in Assignment

\* A worker ran t, for an assignment of t, with success.
Ran(t) == \E r \in RunsOf(t) : r.ok /\ r.for.task = t

\* Nothing but such a run completes a task, and an answer a caller holds that
\* says ok is of a run of its own task.
SuccessInv ==
  /\ \A t \in Tasks : status[t] = "completed" => Ran(t)
  /\ \A t \in Callers : /\ outcome[t] = "ok" => Ran(t)
                        /\ answer[t].ok => answer[t] \in RunsOf(t)

\* A caller that has begun has submitted its task, and one that has returned
\* was told a status that nothing but another task's release takes back.
DecisionInv ==
  \A t \in Callers :
    /\ pc[t] # "idle" => status[t] # "unknown"
    /\ outcome[t] # "none" => pc[t] = "returned"
    /\ outcome[t] = "budget" => polls[t] >= Budget
    /\ Alone(t) /\ outcome[t] = "ok" => status[t] = "completed"
    /\ Alone(t) /\ outcome[t] = "failed" => status[t] \in {"failed", "cancelled"}

AdapterInv == TypeOK /\ AdapterTypes /\ SuccessInv /\ DecisionInv

LEMMA AdapterInitially == AdapterInit => AdapterInv
<1> SUFFICES ASSUME AdapterInit PROVE AdapterInv
  OBVIOUS
<1>1. TypeOK /\ \A t \in Tasks : status[t] = "unknown"
  BY InitIInv DEF AdapterInit, IInv, Init
<1>2. AdapterTypes
  BY AdapterAssumption DEF AdapterInit, AdapterTypes, Places, Outcomes
<1>3. \A t \in Callers : pc[t] = "idle" /\ outcome[t] = "none" /\ answer[t] = NoAnswer
  BY DEF AdapterInit
<1>4. SuccessInv
  BY <1>1, <1>3 DEF SuccessInv, NoAnswer
<1>5. DecisionInv
  BY <1>3 DEF DecisionInv
<1> QED BY <1>1, <1>2, <1>4, <1>5 DEF AdapterInv

\* What the task table must do for the invariant to be kept by a step that
\* is not the end of a call: tasks stay known, and a completed one has run.
TableStep ==
  /\ TypeOK'
  /\ \A t \in Tasks : /\ status[t] # "unknown" => status'[t] # "unknown"
                      /\ status'[t] = "completed" => status[t] = "completed" \/ Ran(t)
  /\ runs \subseteq runs'

LEMMA UncompletingTableStep ==
  ASSUME TypeOK', Uncompleting, runs \subseteq runs'
  PROVE  TableStep
  BY DEF TableStep, Uncompleting

LEMMA RanStays ==
  ASSUME runs \subseteq runs', NEW t
  PROVE  /\ Ran(t) => Ran(t)'
         /\ RunsOf(t) \subseteq RunsOf(t)'
  BY DEF Ran, RunsOf

\* A task that is alone after the step was alone before it.
LEMMA AloneBefore ==
  ASSUME TableStep, NEW t
  PROVE  Alone(t)' => Alone(t)
  BY DEF TableStep, Alone

\* No other caller acts on behalf of a task submitted alone.
LEMMA OthersIdle ==
  ASSUME TypeOK, DecisionInv, TableStep, NEW u \in Callers, NEW t \in Callers, u # t,
         Alone(t)', Caller(u)
  PROVE  FALSE
<1>1. u \in Tasks /\ t \in Tasks
  BY AdapterAssumption
<1>2. status[u] = "unknown"
  BY <1>1, AloneBefore DEF Alone
<1>3. pc[u] = "idle"
  BY <1>2 DEF DecisionInv
<1>4. Submit(u)
  BY <1>2, <1>3 DEF Caller, Start, Wake, Check, PollAgain, Dispatch, Resume, Accept
<1>5. status'[u] = "queued"
  BY <1>1, <1>4, SubmitTypes
<1> QED BY <1>1, <1>5 DEF Alone

\* A step of caller u, up to what it does to its own places and answers.
LEMMA CallerStep ==
  ASSUME AdapterInv, NEW u \in Callers, Caller(u), TableStep, AdapterTypes',
         \A t \in Callers \ {u} : /\ pc'[t] = pc[t] /\ polls'[t] = polls[t]
                                  /\ outcome'[t] = outcome[t] /\ answer'[t] = answer[t],
         pc'[u] # "idle", status'[u] # "unknown",
         answer'[u].ok => answer'[u] \in RunsOf(u)',
         outcome'[u] = outcome[u] \/ pc'[u] = "returned",
         outcome'[u] = "ok" => status'[u] = "completed",
         outcome'[u] = "failed" => status'[u] \in {"failed", "cancelled"},
         outcome'[u] = "budget" => polls'[u] >= Budget
  PROVE  AdapterInv'
<1>1. pc[u] # "returned"
  BY DEF Caller, Start, Wake, Check, PollAgain, Dispatch, Resume, Accept
<1>2. outcome[u] = "none"
  BY <1>1 DEF AdapterInv, DecisionInv
<1>3. \A t \in Tasks : status'[t] = "completed" => Ran(t)'
  BY RanStays DEF TableStep, AdapterInv, SuccessInv
<1>4. \A t \in Callers : outcome'[t] = "ok" => Ran(t)'
  BY <1>3, RanStays, AdapterAssumption DEF TableStep, AdapterInv, SuccessInv
<1>5. \A t \in Callers : answer'[t].ok => answer'[t] \in RunsOf(t)'
  BY RanStays DEF TableStep, AdapterInv, SuccessInv
<1>6. SuccessInv'
  BY <1>3, <1>4, <1>5 DEF SuccessInv
<1>7. ASSUME NEW t \in Callers \ {u}
      PROVE  /\ pc'[t] # "idle" => status'[t] # "unknown"
             /\ outcome'[t] # "none" => pc'[t] = "returned"
             /\ outcome'[t] = "budget" => polls'[t] >= Budget
             /\ ~ Alone(t)'
  BY <1>7, OthersIdle, AdapterAssumption DEF AdapterInv, DecisionInv, TableStep
<1>8. /\ outcome'[u] # "none" => pc'[u] = "returned"
  BY <1>2
<1>9. DecisionInv'
  BY <1>7, <1>8 DEF DecisionInv
<1> QED BY <1>6, <1>9 DEF AdapterInv, TableStep

\* A step that moves caller u to another place and gives it no answer.
LEMMA MoveStep ==
  ASSUME AdapterInv, NEW u \in Callers, Caller(u), TableStep, status'[u] # "unknown",
         NEW place \in Places \ {"idle"}, Goto(u, place),
         UNCHANGED <<answer, outcome>>,
         \E n \in Nat : polls' = [polls EXCEPT ![u] = n],
         \E h \in Assignment \cup {NoAssignment} : held' = [held EXCEPT ![u] = h],
         place = "waiting" => held'[u] \in Assignment
  PROVE  AdapterInv'
<1>1. pc[u] # "returned"
  BY DEF Caller, Start, Wake, Check, PollAgain, Dispatch, Resume, Accept
<1>2. outcome[u] = "none"
  BY <1>1 DEF AdapterInv, DecisionInv
<1>3. answer[u].ok => answer[u] \in RunsOf(u)'
  BY RanStays DEF TableStep, AdapterInv, SuccessInv
<1>4. AdapterTypes'
  BY DEF AdapterInv, AdapterTypes, Goto
<1>5. pc'[u] = place /\ \A t \in Callers \ {u} : pc'[t] = pc[t] /\ polls'[t] = polls[t]
  BY DEF AdapterInv, AdapterTypes, Goto
<1> QED BY <1>2, <1>3, <1>4, <1>5, CallerStep

\* The coordinator left alone, or worked on for the caller's task.
LEMMA QuietTable ==
  ASSUME TypeOK, UNCHANGED vars, runs \subseteq runs'
  PROVE  TableStep /\ status' = status
  BY DEF TableStep, vars, taskState, workerState, TypeOK

LEMMA Unmoved ==
  ASSUME AdapterInv, NEW u \in Callers
  PROVE  /\ UNCHANGED polls => \E n \in Nat : polls' = [polls EXCEPT ![u] = n]
         /\ UNCHANGED held => \E h \in Assignment \cup {NoAssignment} :
                                held' = [held EXCEPT ![u] = h]
<1>1. polls = [polls EXCEPT ![u] = polls[u]] /\ polls[u] \in Nat
  BY DEF AdapterInv, AdapterTypes
<1>2. held = [held EXCEPT ![u] = held[u]] /\ held[u] \in Assignment \cup {NoAssignment}
  BY DEF AdapterInv, AdapterTypes
<1> QED BY <1>1, <1>2

LEMMA StartStep ==
  ASSUME AdapterInv, NEW u \in Callers, Start(u)
  PROVE  AdapterInv'
<1>0. u \in Tasks /\ Caller(u)
  BY AdapterAssumption DEF Caller
<1>1. TableStep /\ status'[u] # "unknown"
  BY <1>0, SubmitTypes, UncompletingTableStep DEF Start, AdapterInv
<1> QED BY <1>0, <1>1, MoveStep, Unmoved DEF Start, Places

LEMMA WakeStep ==
  ASSUME AdapterInv, NEW u \in Callers, Wake(u)
  PROVE  AdapterInv'
<1>1. TableStep /\ status'[u] # "unknown"
  BY QuietTable DEF Wake, AdapterInv, DecisionInv
<1> QED BY <1>1, MoveStep, Unmoved DEF Wake, Places, Caller

LEMMA CheckStep ==
  ASSUME AdapterInv, NEW u \in Callers, Check(u)
  PROVE  AdapterInv'
<1>1. TableStep /\ status'[u] # "unknown" /\ status' = status /\ UNCHANGED <<polls, held, answer, runs>>
  BY QuietTable DEF Check, Return, AdapterInv, DecisionInv
<1>2. CASE Goto(u, "dispatch") /\ UNCHANGED outcome
  BY <1>1, <1>2, MoveStep, Unmoved DEF Check, Places, Caller
<1>3. ASSUME NEW o \in {"ok", "failed", "budget"}, Return(u, o),
             o = "ok" => status[u] = "completed",
             o = "failed" => status[u] \in {"failed", "cancelled"},
             o = "budget" => polls[u] >= Budget
      PROVE  AdapterInv'
  <2>1. AdapterTypes'
    BY <1>1, <1>3 DEF AdapterInv, AdapterTypes, Return, Goto, Places, Outcomes
  <2>2. /\ pc'[u] = "returned" /\ outcome'[u] = o
        /\ \A t \in Callers \ {u} : pc'[t] = pc[t] /\ outcome'[t] = outcome[t]
    BY <1>3 DEF AdapterInv, AdapterTypes, Return, Goto
  <2>3. answer'[u].ok => answer'[u] \in RunsOf(u)'
    BY <1>1 DEF AdapterInv, SuccessInv, RunsOf
  <2> QED BY <1>1, <1>3, <2>1, <2>2, <2>3, CallerStep DEF Caller
<1>4. CASE ~ HasBudget(u) /\ Return(u, "budget")
  <2>1. polls[u] \in Nat /\ Budget \in Nat
    BY AdapterAssumption DEF AdapterInv, AdapterTypes
  <2>2. polls[u] >= Budget
    BY <1>4, <2>1 DEF HasBudget
  <2> QED BY <1>3, <1>4, <2>2
<1>5. CASE status[u] \in Terminal /\ Return(u, Decision(u))
  BY <1>3, <1>5 DEF Terminal, Decision
<1> QED BY <1>2, <1>4, <1>5 DEF Check

LEMMA PollStep ==
  ASSUME AdapterInv, NEW u \in Callers, PollAgain(u)
  PROVE  AdapterInv'
<1>1. TableStep /\ status'[u] # "unknown"
  BY DispatchNoneTypes, UncompletingTableStep, AdapterAssumption
     DEF PollAgain, AdapterInv, DecisionInv, TableStep
<1>2. polls[u] + 1 \in Nat /\ polls' = [polls EXCEPT ![u] = polls[u] + 1]
  BY DEF PollAgain, Polled, AdapterInv, AdapterTypes
<1> QED BY <1>1, <1>2, MoveStep, Unmoved DEF PollAgain, Places, Caller

LEMMA DispatchStep ==
  ASSUME AdapterInv, NEW u \in Callers, Dispatch(u)
  PROVE  AdapterInv'
<1>1. PICK i \in 1..Len(queue) : DispatchOne(i, Tasks, {})
  BY DEF Dispatch
<1>2. /\ TableStep /\ status'[u] # "unknown"
      /\ assignments'[Len(assignments')] \in Assignment
  BY <1>1, DispatchOneTypes, UncompletingTableStep, AdapterAssumption
     DEF Dispatch, AdapterInv, DecisionInv, TableStep
<1>3. held'[u] \in Assignment
  BY <1>2 DEF Dispatch, AdapterInv, AdapterTypes
<1>4. \E h \in Assignment : held' = [held EXCEPT ![u] = h]
  BY <1>2 DEF Dispatch
<1> QED BY <1>2, <1>3, <1>4, MoveStep, Unmoved DEF Dispatch, Places, Caller

\* The end of a transport call: the only answers that say ok are of a run.
LEMMA ResumeStep ==
  ASSUME AdapterInv, NEW u \in Callers, Resume(u)
  PROVE  AdapterInv'
<1>0. u \in Tasks /\ held[u] \in Assignment /\ Caller(u)
  BY AdapterAssumption DEF Resume, AdapterInv, AdapterTypes, Caller
<1>1. /\ UNCHANGED <<workerState, replies, polls, held, outcome>>
      /\ calls' \subseteq calls /\ Goto(u, "accept")
  BY DEF Resume
<1>2. PICK m \in Answer : /\ answer' = [answer EXCEPT ![u] = m]
                          /\ m.ok => m.task = u /\ runs' = runs \cup {m}
                          /\ runs \subseteq runs'
  <2>1. CASE WorkerUnreachable(u)
    <3> DEFINE m == [ok |-> FALSE, task |-> held[u].task, for |-> held[u]]
    <3>1. m \in Answer /\ ~ m.ok
      BY <1>0 DEF Answer, Assignment
    <3>2. answer' = [answer EXCEPT ![u] = m] /\ runs' = runs
      BY <2>1 DEF WorkerUnreachable
    <3> HIDE DEF m
    <3> QED BY <3>1, <3>2
  <2>2. ASSUME NEW ok \in BOOLEAN, WorkerRan(u, ok)
        PROVE  \E m \in Answer : /\ answer' = [answer EXCEPT ![u] = m]
                                 /\ m.ok => m.task = u /\ runs' = runs \cup {m}
                                 /\ runs \subseteq runs'
    <3> DEFINE m == [ok |-> ok, task |-> u, for |-> held[u]]
    <3>1. m \in Answer /\ m.task = u
      BY <1>0 DEF Answer
    <3>2. answer' = [answer EXCEPT ![u] = m] /\ runs' = runs \cup {m}
      BY <2>2 DEF WorkerRan
    <3> HIDE DEF m
    <3> QED BY <3>1, <3>2
  <2> QED BY <2>1, <2>2 DEF Resume
<1>3. TypeOK' /\ Uncompleting
  <2>1. CASE WorkerUnreachable(u)
    BY <1>0, <1>1, <2>1, ReleaseTypes DEF WorkerUnreachable, AdapterInv
  <2>2. CASE UNCHANGED taskState
    BY <1>1, <2>2 DEF taskState, workerState, TypeOK, AdapterInv, Uncompleting
  <2> QED BY <2>1, <2>2 DEF Resume, WorkerRan
<1>4. TableStep /\ status'[u] # "unknown"
  BY <1>0, <1>2, <1>3, UncompletingTableStep DEF AdapterInv, DecisionInv, Resume, TableStep
<1>5. AdapterTypes'
  BY <1>1, <1>2 DEF AdapterInv, AdapterTypes, Goto, Places
<1>6. /\ pc'[u] = "accept" /\ answer'[u] = m
      /\ \A t \in Callers \ {u} : pc'[t] = pc[t] /\ answer'[t] = answer[t]
  BY <1>1, <1>2 DEF AdapterInv, AdapterTypes, Goto
<1>7. m.ok => m \in RunsOf(u)'
  BY <1>2 DEF RunsOf
<1>8. outcome'[u] = "none"
  BY <1>1 DEF Resume, AdapterInv, DecisionInv
<1> QED BY <1>0, <1>1, <1>4, <1>5, <1>6, <1>7, <1>8, CallerStep

\* accept_result: an answer that names an assignment of another task is of no
\* active assignment of its own.
LEMMA AcceptStep ==
  ASSUME AdapterInv, NEW u \in Callers, Accept(u)
  PROVE  AdapterInv'
<1> DEFINE m == AsReply(answer[u])
<1>0. u \in Tasks /\ Caller(u) /\ UNCHANGED <<turn, polls, outcome, runs>>
  BY AdapterAssumption DEF Accept, Caller
<1>1. TableStep /\ status'[u] # "unknown"
  <2>1. CASE UNCHANGED vars
    BY <1>0, <2>1, QuietTable DEF Accept, AdapterInv, DecisionInv
  <2>2. CASE AcceptResult(m)
    <3>1. /\ TypeOK' /\ (Uncompleting \/ m.ok)
          /\ m.task \in Tasks /\ m.attempt \in 1..MaxRetries
          /\ \A t \in Tasks : /\ status[t] # "unknown" => status'[t] # "unknown"
                              /\ t # m.task => status'[t] = status[t]
      BY <2>2, AcceptTypes DEF AdapterInv
    <3>2. CASE Uncompleting
      BY <1>0, <3>1, <3>2, UncompletingTableStep DEF Accept, AdapterInv, DecisionInv
    <3>3. CASE m.ok
      <4>1. answer[u].ok /\ m.task = answer[u].task
        BY <3>3 DEF AsReply
      <4>2. answer[u].for.task = answer[u].task
        BY <3>1 DEF AsReply
      <4>3. answer[u] \in RunsOf(u) /\ answer[u].task = u
        BY <4>1 DEF AdapterInv, SuccessInv, RunsOf
      <4>4. Ran(u)
        BY <4>1, <4>2, <4>3 DEF Ran
      <4> QED BY <1>0, <3>1, <4>1, <4>3, <4>4 DEF TableStep, Accept, AdapterInv, DecisionInv
    <3> QED BY <3>1, <3>2, <3>3
  <2> QED BY <2>1, <2>2 DEF Accept
<1>2. AdapterTypes'
  BY <1>0 DEF Accept, AdapterInv, AdapterTypes, Goto, Places
<1>3. /\ pc'[u] = "check" /\ answer'[u] = NoAnswer
      /\ \A t \in Callers \ {u} : pc'[t] = pc[t] /\ answer'[t] = answer[t]
  BY DEF Accept, AdapterInv, AdapterTypes, Goto
<1>4. outcome'[u] = "none"
  BY <1>0 DEF Accept, AdapterInv, DecisionInv
<1> QED BY <1>0, <1>1, <1>2, <1>3, <1>4, CallerStep DEF NoAnswer

\* The endpoints submit other tasks, and cancel the callers' too.
LEMMA EndpointStep ==
  ASSUME AdapterInv, Endpoint
  PROVE  AdapterInv'
<1>1. UNCHANGED adapterVars
  BY DEF Endpoint
<1>2. TypeOK' /\ Uncompleting
      /\ \A t \in Tasks : Alone(t)' /\ status[t] \in Terminal => status'[t] = status[t]
  <2>1. ASSUME NEW t \in Tasks, Submit(t)
        PROVE  /\ TypeOK' /\ Uncompleting
               /\ \A u \in Tasks : status[u] \in Terminal => status'[u] = status[u]
    BY <2>1, SubmitTypes DEF AdapterInv, Submit, TypeOK, Terminal
  <2>2. ASSUME NEW t \in Tasks, Cancel(t)
        PROVE  /\ TypeOK' /\ Uncompleting
               /\ \A u \in Tasks : status[u] \in Terminal => status'[u] = status[u]
    BY <2>2, CancelTypes
       DEF AdapterInv, Cancel, CancelQueued, CancelAssigned, TypeOK, Terminal
  <2>3. CASE WorkerTraffic
    BY <2>3, TrafficTypes DEF AdapterInv, Uncompleting
  <2> QED BY <2>1, <2>2, <2>3 DEF Endpoint
<1>3. TableStep
  BY <1>1, <1>2, UncompletingTableStep DEF adapterVars
<1>4. AdapterTypes'
  BY <1>1 DEF adapterVars, AdapterInv, AdapterTypes
<1>5. SuccessInv'
  BY <1>1, <1>2 DEF adapterVars, AdapterInv, SuccessInv, Uncompleting, Ran, RunsOf
<1>6. DecisionInv'
  <2> SUFFICES ASSUME NEW t \in Callers
               PROVE  /\ pc[t] # "idle" => status'[t] # "unknown"
                      /\ outcome[t] # "none" => pc[t] = "returned"
                      /\ outcome[t] = "budget" => polls[t] >= Budget
                      /\ Alone(t)' /\ outcome[t] = "ok" => status'[t] = "completed"
                      /\ Alone(t)' /\ outcome[t] = "failed" => status'[t] \in {"failed", "cancelled"}
    BY <1>1 DEF adapterVars, DecisionInv
  <2>1. t \in Tasks /\ (Alone(t)' => Alone(t))
    BY <1>3, AloneBefore, AdapterAssumption
  <2> QED BY <1>2, <1>3, <2>1 DEF AdapterInv, DecisionInv, TableStep, Terminal
<1> QED BY <1>2, <1>4, <1>5, <1>6 DEF AdapterInv

LEMMA AdapterInvariant == AdapterSpec => []AdapterInv
<1>1. AdapterInv /\ [AdapterNext]_allVars => AdapterInv'
  <2>1. CASE UNCHANGED allVars
    BY <2>1 DEF allVars, vars, taskState, workerState, adapterVars, AdapterInv, TypeOK,
                AdapterTypes, SuccessInv, DecisionInv, Ran, RunsOf, Alone
  <2> QED BY <2>1, StartStep, WakeStep, CheckStep, PollStep, DispatchStep, ResumeStep,
             AcceptStep, EndpointStep DEF AdapterNext, Caller
<1> QED BY <1>1, AdapterInitially, PTL DEF AdapterSpec

\* Also when callers dispatch and release each other's tasks, every field of
\* the coordinator keeps to its domain and no attempt exceeds the limit.
THEOREM SharedCoordinatorTypeCorrect == AdapterSpec => []TypeOK
  BY AdapterInvariant, PTL DEF AdapterInv

\* A caller is told "ok" only if a worker ran its own task with success, for an
\* assignment of that task, whatever the other callers dispatched, released or
\* cancelled in its place.
THEOREM SuccessesAreReal == AdapterSpec => []SuccessIsReal
<1>1. AdapterInv => SuccessIsReal
  BY DEF AdapterInv, SuccessInv, SuccessIsReal, Ran
<1> QED BY <1>1, AdapterInvariant, PTL

\* The caller of a task submitted alone is told its final status, unless the
\* poll budget is used up.
THEOREM DecisionsAreReturned == AdapterSpec => []ReturnsTheDecision
<1>1. AdapterInv => ReturnsTheDecision
  BY DEF AdapterInv, DecisionInv, ReturnsTheDecision
<1> QED BY <1>1, AdapterInvariant, PTL
=============================================================================
