--------------------------- MODULE JobQueueProofs ---------------------------
(* Theorems about JobQueue, for every value of its constants.              *)
EXTENDS JobQueue, TLAPS

-----------------------------------------------------------------------------
(* Facts about the operators.                                              *)

(* A row's name is the identity it stands for and a copy of at least 1.    *)
LEMMA KeyFacts ==
  ASSUME NEW k \in Key
  PROVE  /\ k[1] \in Identity
         /\ k # NoKey
         /\ k[1] \in Durable => k = <<k[1], 1>>
BY IdentityAssumption, NumberAssumption DEF Key, Identity, NoKey, Durable

(* The retry delay is a number of seconds.                                 *)
LEMMA BackoffType ==
  ASSUME NEW attempts \in Nat
  PROVE  BackoffSecs(attempts) \in Nat
<1> DEFINE exp == IF attempts < 1 THEN 0 ELSE IF attempts > 11 THEN 10 ELSE attempts - 1
<1>1. exp + 1 \in 1 .. 11
  OBVIOUS
<1>2. \A i \in 1 .. 11 : PowersOfTwo[i] \in Nat
  BY DEF PowersOfTwo
<1>3. PowersOfTwo[exp + 1] \in Nat
  BY <1>1, <1>2
<1>4. BackoffBase * PowersOfTwo[exp + 1] \in Nat
  BY <1>3, NumberAssumption
<1>5. QED
  BY <1>4, NumberAssumption DEF BackoffSecs

(* A time stamp made by now() + secs is a time.                            *)
LEMMA AtType ==
  ASSUME NEW secs \in Nat, now \in Nat
  PROVE  At(secs) \in Nat
BY NumberAssumption DEF At

(* enqueue_on keeps the table a table.                                     *)
LEMMA EnqueueType ==
  ASSUME NEW q \in [Key -> Row], NEW b, IsBatch(b, Identity)
  PROVE  EnqueueOn(q, b) \in [Key -> Row]
<1>1. ASSUME NEW k \in Key
      PROVE  EnqueuedRow(q, b, k) \in Row
  <2>1. CASE Writes(q, b, k)
    <3>1. b[k[1]].prio \in Nat
      BY <2>1 DEF Writes, IsBatch, NewJob
    <3>2. QED
      BY <2>1, <3>1 DEF EnqueuedRow, ArmedRow, Row, Status
  <2>2. CASE ~Writes(q, b, k)
    BY <2>2 DEF EnqueuedRow
  <2>3. QED
    BY <2>1, <2>2
<1>2. QED
  BY <1>1 DEF EnqueueOn

(* The batches the program can enqueue are batches of known identities.    *)
LEMMA BatchFacts ==
  /\ IsBatch(SeedPeriodic, Identity)
  /\ \A b \in Imports : IsBatch(b, Identity)
  /\ \A i \in Identity : \A b \in Children[i] : IsBatch(b, Identity)
<1>1. IsBatch(SeedPeriodic, Identity)
  BY BatchAssumption DEF SeedPeriodic, IsBatch, Identity, Durable, NewJob
<1>2. QED
  BY <1>1, BatchAssumption DEF IsBatch, Identity, Durable

-----------------------------------------------------------------------------
(* Type correctness.                                                       *)

LEMMA InitType == Init => TypeOK
BY DEF Init, TypeOK, Row, Status, NoRow

(* What the whole table becomes when some rows are re-queued by recover.   *)
LEMMA RecoveredType ==
  ASSUME NEW q \in [Key -> Row]
  PROVE  Recovered(q) \in [Key -> Row]
BY DEF Recovered, RecoveredRow, Row, Status


(* A row that fail puts back or buries is a row.                           *)
LEMMA FailedRowType ==
  ASSUME TypeOK, NEW k \in Key, NEW permanent \in BOOLEAN
  PROVE  FailedRow(k, permanent) \in Row
<1>1. jobs[k] \in Row /\ now \in Nat
  BY DEF TypeOK
<1>2. At(BackoffSecs(jobs[k].attempts)) \in Nat
  BY <1>1, BackoffType, AtType DEF Row
<1>3. QED
  BY <1>1, <1>2 DEF FailedRow, Row, Status

(* A row that complete reschedules or finishes is a row.                   *)
LEMMA CompletedRowType ==
  ASSUME TypeOK, NEW k \in Key
  PROVE  CompletedRow(k) \in Row
<1>1. jobs[k] \in Row /\ now \in Nat
  BY DEF TypeOK
<1>2. At(Interval) \in Nat
  BY <1>1, AtType, NumberAssumption
<1>3. QED
  BY <1>1, <1>2 DEF CompletedRow, Row, Status

(* A busy permit's task runs a row, and its children are known batches.    *)
LEMMA BusyTask ==
  ASSUME TypeOK, NEW p \in Permits, task[p] # NoTask
  PROVE  /\ task[p] \in [key : Key, phase : {"run", "requeue"}]
         /\ task[p].key \in Key
         /\ \A b \in Children[task[p].key[1]] : IsBatch(b, Identity)
<1>1. task[p] \in [key : Key, phase : {"run", "requeue"}]
  BY DEF TypeOK
<1>2. QED
  BY <1>1, KeyFacts, BatchFacts

(* enqueue_on with its failure counts, for any table it starts from.       *)
LEMMA EnqueueStepType ==
  ASSUME NEW q \in [Key -> Row], NEW f \in [Key -> Nat], NEW b,
         IsBatch(b, Identity), Enqueue(q, b), failures' = Forgiven(f, q, b)
  PROVE  /\ jobs' \in [Key -> Row]
         /\ failures' \in [Key -> Nat]
BY EnqueueType DEF Enqueue, Forgiven

(* Every step keeps the state well typed.                                  *)
LEMMA StepType == TypeOK /\ [Next]_vars => TypeOK'
<1> SUFFICES ASSUME TypeOK, [Next]_vars
             PROVE  TypeOK'
  OBVIOUS
<1> USE DEF TypeOK
<1>1. CASE OpenLocked
  BY <1>1, RecoveredType DEF OpenLocked
<1>2. CASE Start
  BY <1>2, EnqueueStepType, BatchFacts DEF Start
<1>3. CASE InitCommand
  BY <1>3, EnqueueStepType, BatchFacts DEF InitCommand
<1>4. ASSUME NEW b \in Imports, ImportLegacy(b)
      PROVE  TypeOK'
  BY <1>4, EnqueueStepType, BatchFacts, RecoveredType DEF ImportLegacy
<1>5. CASE Crash
  BY <1>5 DEF Crash
<1>6. ASSUME NEW k \in Key, Claim(k)
      PROVE  TypeOK'
  BY <1>6 DEF Claim, Row, Status
<1>7. ASSUME NEW p \in Permits, StartTask(p)
      PROVE  TypeOK'
  BY <1>7 DEF StartTask
<1>8. ASSUME NEW p \in Permits, task[p] # NoTask, TaskStep(p)
      PROVE  TypeOK'
  <2> DEFINE k == task[p].key
  <2>1. /\ k \in Key
        /\ task[p] \in [key : Key, phase : {"run", "requeue"}]
        /\ \A b \in Children[k[1]] : IsBatch(b, Identity)
    BY <1>8, BusyTask
  <2> HIDE DEF k
  <2>2. ASSUME NEW b \in Children[k[1]], Complete(p, b)
        PROVE  TypeOK'
    <3>1. [jobs EXCEPT ![k] = CompletedRow(k)] \in [Key -> Row]
      BY <2>1, CompletedRowType
    <3>2. [failures EXCEPT ![k] = 0] \in [Key -> Nat]
      OBVIOUS
    <3>3. jobs' \in [Key -> Row] /\ failures' \in [Key -> Nat]
      BY <2>1, <2>2, <3>1, <3>2, EnqueueStepType DEF Complete, k
    <3>4. QED
      BY <2>2, <3>3 DEF Complete, Release
  <2>3. ASSUME NEW b \in Children[k[1]], CompleteEphemeral(p, b)
        PROVE  TypeOK'
    <3>1. [jobs EXCEPT ![k] = NoRow] \in [Key -> Row]
      BY DEF NoRow, Row, Status
    <3>2. [failures EXCEPT ![k] = 0] \in [Key -> Nat]
      OBVIOUS
    <3>3. jobs' \in [Key -> Row] /\ failures' \in [Key -> Nat]
      BY <2>1, <2>3, <3>1, <3>2, EnqueueStepType DEF CompleteEphemeral, k
    <3>4. QED
      BY <2>3, <3>3 DEF CompleteEphemeral, Release
  <2>4. CASE CompletionFails(p)
    BY <2>1, <2>4 DEF CompletionFails
  <2>5. ASSUME NEW permanent \in BOOLEAN, RunFails(p, permanent)
        PROVE  TypeOK'
    BY <2>1, <2>5, FailedRowType DEF RunFails, Fail, Release, k
  <2>6. CASE Requeue(p)
    <3> DEFINE row == FailedRow(k, FALSE)
    <3>1. row \in Row
      BY <2>1, FailedRowType
    <3>2. /\ jobs' = [jobs EXCEPT ![k] = row]
          /\ failures' = [failures EXCEPT ![k] = @ + 1]
      BY <2>6 DEF Requeue, Fail, k
    <3> HIDE DEF row
    <3>3. QED
      BY <2>1, <2>6, <3>1, <3>2 DEF Requeue, Release
  <2>7. CASE Abandon(p)
    BY <2>1, <2>7 DEF Abandon, Release, k
  <2>8. QED
    BY <1>8, <2>2, <2>3, <2>4, <2>5, <2>6, <2>7 DEF TaskStep, k
<1>9. CASE Tick
  BY <1>9 DEF Tick
<1>10. CASE UNCHANGED vars
  BY <1>10 DEF vars
<1>11. QED
  BY <1>1, <1>2, <1>3, <1>4, <1>5, <1>6, <1>7, <1>8, <1>9, <1>10 DEF Next

(* In every reachable state the table, the dispatcher and the permits have *)
(* the shape the rest of the proofs assume (db.rs jobs, daemon.rs).        *)
THEOREM TypeCorrect == Spec => []TypeOK
<1>1. Init => TypeOK
  BY InitType
<1>2. TypeOK /\ [Next]_vars => TypeOK'
  BY StepType
<1>3. QED
  BY <1>1, <1>2, PTL DEF Spec

-----------------------------------------------------------------------------
(* The inductive invariant behind Ownership and RetryBudget.  Between      *)
(* open_locked and the first claim nothing runs: that is what makes a row  *)
(* found running by the dispatcher its own.                                *)

Quiet == daemon = "opened" => \A k \in Key : jobs[k].status # "running"

IInv == TypeOK /\ Ownership /\ RetryBudget /\ Quiet

(* enqueue_on leaves a row alone or arms one that was not open.            *)
LEMMA EnqueueRows ==
  ASSUME NEW q \in [Key -> Row], NEW b, NEW k \in Key
  PROVE  \/ EnqueueOn(q, b)[k] = q[k] /\ ~Writes(q, b, k)
         \/ /\ EnqueueOn(q, b)[k] = ArmedRow(b[k[1]].prio)
            /\ Writes(q, b, k)
            /\ q[k].status \notin Open
<1>1. Writes(q, b, k) => q[k].status \notin Open
  BY DEF Writes, FreeCopy, Open
<1>2. QED
  BY <1>1 DEF EnqueueOn, EnqueuedRow

(* So what enqueue_on leaves running was running, and stays.               *)
LEMMA EnqueueRunning ==
  ASSUME NEW q \in [Key -> Row], NEW b, NEW k \in Key
  PROVE  EnqueueOn(q, b)[k].status = "running" <=> q[k].status = "running"
<1>1. \/ EnqueueOn(q, b)[k] = q[k]
      \/ /\ EnqueueOn(q, b)[k] = ArmedRow(b[k[1]].prio)
         /\ q[k].status \notin Open
  BY EnqueueRows
<1>2. ArmedRow(b[k[1]].prio).status = "pending"
  BY DEF ArmedRow
<1>3. QED
  BY <1>1, <1>2 DEF Open

(* Ownership when the table changes and the owners do not.                 *)
LEMMA OwnersUnchanged ==
  ASSUME IInv, UNCHANGED <<handle, task, daemon, orphans>>,
         \A k \in Key : jobs'[k].status = "running" <=> jobs[k].status = "running"
  PROVE  Ownership' /\ Quiet'
<1>1. \A k \in Key : Held(k)' <=> Held(k)
  BY DEF Held
<1>2. QED
  BY <1>1 DEF IInv, Ownership, Quiet

(* Ownership when a task of permit p ends and its row leaves running, or   *)
(* is listed as an orphan; no other row starts or stops running.           *)
LEMMA OwnerLeaves ==
  ASSUME IInv, NEW p \in Permits, task[p] # NoTask, Release(p),
         NEW gone \in Key, gone = task[p].key,
         UNCHANGED <<handle, daemon>>,
         orphans \subseteq orphans',
         \A k \in Key : k # gone
            => (jobs'[k].status = "running" <=> jobs[k].status = "running"),
         jobs'[gone].status = "running" => gone \in orphans'
  PROVE  Ownership' /\ Quiet'
<1>1. /\ \A x \in Permits : task'[x] = IF x = p THEN NoTask ELSE task[x]
      /\ task \in [Permits -> [key : Key, phase : {"run", "requeue"}] \cup {NoTask}]
  BY BusyTask DEF Release, IInv, TypeOK
<1>2. Held(gone) /\ gone # handle
  BY <1>1 DEF Held, IInv, Ownership
<1>3. \A k \in Key : Held(k)' <=> (Held(k) /\ k # gone)
  <2>1. ~Held(gone)'
    BY <1>1, <1>2 DEF Held, IInv, Ownership
  <2>2. ASSUME NEW k \in Key, k # gone
        PROVE  Held(k)' <=> Held(k)
    BY <1>1, <2>2 DEF Held
  <2>3. QED
    BY <1>1, <2>1, <2>2
<1>4. daemon = "up"
  BY <1>1, <1>2 DEF IInv, Ownership
<1>5. \A k \in Key : Held(k)' => jobs'[k].status = "running"
  BY <1>3 DEF IInv, Ownership
<1>6. \A x, y \in Permits : x # y /\ task'[x] # NoTask => task'[x].key # task'[y].key
  BY <1>1, KeyFacts DEF IInv, Ownership, NoTask
<1>7. \A x \in Permits : task'[x] # NoTask => task'[x].key # handle'
  BY <1>1 DEF IInv, Ownership
<1>8. \A k \in Key : jobs'[k].status = "running" => Held(k)' \/ k \in orphans'
  BY <1>3, <1>4 DEF IInv, Ownership
<1>9. QED
  BY <1>4, <1>5, <1>6, <1>7, <1>8 DEF Ownership, Quiet

(* RetryBudget, row by row.                                                *)
Within(row, n, k) ==
  row.status \in Open =>
    /\ n <= row.attempts
    /\ row.status = "running" => n < row.attempts
    /\ k[1] \notin Periodic => n < MaxAttempts

LEMMA BudgetByRow == RetryBudget <=> \A k \in Key : Within(jobs[k], failures[k], k)
BY DEF RetryBudget, Within

(* Arming a row starts it with no failures and a whole budget.             *)
LEMMA EnqueueBudget ==
  ASSUME NEW q \in [Key -> Row], NEW f \in [Key -> Nat], NEW b,
         Enqueue(q, b), failures' = Forgiven(f, q, b),
         \A k \in Key : Within(q[k], f[k], k)
  PROVE  RetryBudget'
<1> SUFFICES ASSUME NEW k \in Key
             PROVE  Within(jobs'[k], failures'[k], k)
  BY DEF RetryBudget, Within
<1>1. CASE Writes(q, b, k)
  <2>1. jobs'[k] = ArmedRow(b[k[1]].prio) /\ failures'[k] = 0
    BY <1>1, EnqueueRows DEF Enqueue, EnqueueOn, EnqueuedRow, Forgiven
  <2>2. QED
    BY <2>1, NumberAssumption DEF ArmedRow, Within
<1>2. CASE ~Writes(q, b, k)
  <2>1. jobs'[k] = q[k] /\ failures'[k] = f[k]
    BY <1>2 DEF Enqueue, EnqueueOn, EnqueuedRow, Forgiven
  <2>2. QED
    BY <2>1
<1>3. QED
  BY <1>1, <1>2

(* recover leaves every row within its budget.                             *)
LEMMA RecoveredBudget ==
  ASSUME IInv
  PROVE  \A k \in Key : Within(Recovered(jobs)[k], failures[k], k)
<1> SUFFICES ASSUME NEW k \in Key
             PROVE  Within(Recovered(jobs)[k], failures[k], k)
  OBVIOUS
<1>1. Within(jobs[k], failures[k], k) /\ jobs[k] \in Row
  BY BudgetByRow DEF IInv, TypeOK
<1>2. Recovered(jobs)[k] = RecoveredRow(jobs[k])
  BY DEF Recovered
<1>3. QED
  BY <1>1, <1>2 DEF RecoveredRow, Within, Row, Open

(* A failure recorded on a running row keeps it within its budget, and     *)
(* leaves it no longer running.                                            *)
LEMMA FailKeepsBudget ==
  ASSUME IInv, NEW k \in Key, jobs[k].status = "running",
         NEW permanent \in BOOLEAN, Fail(k, permanent)
  PROVE  /\ RetryBudget'
         /\ jobs'[k].status # "running"
         /\ \A o \in Key : o # k => jobs'[o] = jobs[o]
<1>1. /\ jobs[k] \in Row
      /\ failures[k] \in Nat
      /\ jobs'[k] = FailedRow(k, permanent)
      /\ failures'[k] = failures[k] + 1
      /\ \A o \in Key : o # k => jobs'[o] = jobs[o] /\ failures'[o] = failures[o]
  BY DEF Fail, IInv, TypeOK
<1>2. Within(jobs[k], failures[k], k)
  BY BudgetByRow DEF IInv
<1>3. jobs'[k].status \in {"dead", "pending"}
  BY <1>1 DEF FailedRow, Row
<1>4. Within(jobs'[k], failures'[k], k)
  <2>1. CASE permanent \/ Exhausted(k)
    BY <1>1, <2>1 DEF FailedRow, Within, Row, Open
  <2>2. CASE ~(permanent \/ Exhausted(k))
    BY <1>1, <1>2, <2>2, NumberAssumption DEF FailedRow, Exhausted, Within, Row, Open
  <2>3. QED
    BY <2>1, <2>2
<1>5. \A o \in Key : Within(jobs'[o], failures'[o], o)
  BY <1>1, <1>4, BudgetByRow DEF IInv
<1>6. QED
  BY <1>1, <1>3, <1>5 DEF RetryBudget, Within

LEMMA InitInvariant == Init => IInv
<1> SUFFICES ASSUME Init
             PROVE  IInv
  OBVIOUS
<1>1. TypeOK
  BY InitType
<1>2. \A k \in Key : jobs[k].status = "absent" /\ ~Held(k)
  BY KeyFacts DEF Init, NoRow, Held
<1>3. QED
  BY <1>1, <1>2 DEF Init, IInv, Ownership, RetryBudget, Quiet, Open

(* Enqueueing into the table as it stands, by a seeding or otherwise.      *)
LEMMA EnqueueInvariant ==
  ASSUME IInv, NEW b, Enqueue(jobs, b), failures' = Forgiven(failures, jobs, b)
  PROVE  /\ RetryBudget'
         /\ \A k \in Key : jobs'[k].status = "running" <=> jobs[k].status = "running"
<1>1. RetryBudget'
  BY EnqueueBudget, BudgetByRow DEF IInv, TypeOK
<1>2. jobs \in [Key -> Row] /\ jobs' = EnqueueOn(jobs, b)
  BY DEF Enqueue, IInv, TypeOK
<1>3. ASSUME NEW k \in Key
      PROVE  EnqueueOn(jobs, b)[k].status = "running" <=> jobs[k].status = "running"
  BY <1>2, EnqueueRunning
<1>4. QED
  BY <1>1, <1>2, <1>3

(* A completed row is no longer running and owes nothing.                  *)
LEMMA CompletionInvariant ==
  ASSUME IInv, NEW p \in Permits, task[p] # NoTask, Release(p),
         UNCHANGED <<handle, daemon, orphans>>,
         NEW k \in Key, k = task[p].key,
         NEW row \in Row, row.status # "running",
         NEW b, IsBatch(b, Identity),
         Enqueue([jobs EXCEPT ![k] = row], b),
         failures' = Forgiven([failures EXCEPT ![k] = 0], [jobs EXCEPT ![k] = row], b)
  PROVE  Ownership' /\ Quiet' /\ RetryBudget'
<1> DEFINE q == [jobs EXCEPT ![k] = row]
           f == [failures EXCEPT ![k] = 0]
<1>1. /\ q \in [Key -> Row]
      /\ f \in [Key -> Nat]
      /\ q[k] = row /\ f[k] = 0
      /\ \A o \in Key : o # k => q[o] = jobs[o] /\ f[o] = failures[o]
  BY DEF IInv, TypeOK
<1>2. \A o \in Key : Within(q[o], f[o], o)
  <2>1. Within(q[k], f[k], k)
    BY <1>1, NumberAssumption DEF Within, Row, Open
  <2>2. QED
    BY <1>1, <2>1, BudgetByRow DEF IInv
<1> HIDE DEF q, f
<1>3. RetryBudget'
  BY <1>1, <1>2, EnqueueBudget DEF q, f
<1>4. \A o \in Key : jobs'[o].status = "running" <=> q[o].status = "running"
  <2>1. jobs' = EnqueueOn(q, b)
    BY DEF Enqueue, q
  <2>2. ASSUME NEW o \in Key
        PROVE  EnqueueOn(q, b)[o].status = "running" <=> q[o].status = "running"
    BY <1>1, EnqueueRunning
  <2>3. QED
    BY <2>1, <2>2
<1>5. Ownership' /\ Quiet'
  BY <1>1, <1>4, OwnerLeaves
<1>6. QED
  BY <1>3, <1>5

(* The end of a task keeps the invariant.                                  *)
LEMMA TaskInvariant ==
  ASSUME IInv, NEW p \in Permits, task[p] # NoTask, TaskStep(p)
  PROVE  Ownership' /\ RetryBudget' /\ Quiet'
<1>1. PICK k \in Key : k = task[p].key
  BY BusyTask DEF IInv
<1>2. /\ jobs[k].status = "running"
      /\ \A b \in Children[k[1]] : IsBatch(b, Identity)
  BY <1>1, BusyTask DEF IInv, Ownership, Held
<1>3. ASSUME NEW b \in Children[k[1]], Complete(p, b)
      PROVE  Ownership' /\ RetryBudget' /\ Quiet'
  <2>1. CompletedRow(k) \in Row /\ CompletedRow(k).status # "running"
    <3>1. CompletedRow(k) \in Row
      BY CompletedRowType DEF IInv
    <3>2. jobs[k] \in Row
      BY DEF IInv, TypeOK
    <3>3. QED
      BY <3>1, <3>2 DEF CompletedRow, Row
  <2>2. QED
    BY <1>1, <1>2, <1>3, <2>1, CompletionInvariant DEF Complete
<1>4. ASSUME NEW b \in Children[k[1]], CompleteEphemeral(p, b)
      PROVE  Ownership' /\ RetryBudget' /\ Quiet'
  <2>1. NoRow \in Row /\ NoRow.status # "running"
    BY DEF NoRow, Row, Status
  <2>2. QED
    BY <1>1, <1>2, <1>4, <2>1, CompletionInvariant DEF CompleteEphemeral
<1>5. CASE CompletionFails(p)
  <2>1. /\ UNCHANGED <<jobs, handle, daemon, orphans, failures>>
        /\ \A x \in Permits : task'[x].key = task[x].key
        /\ \A x \in Permits : task'[x] # NoTask <=> task[x] # NoTask
    BY <1>5 DEF CompletionFails, IInv, TypeOK, NoTask
  <2>2. \A o \in Key : Held(o)' <=> Held(o)
    BY <2>1 DEF Held
  <2>3. QED
    BY <2>1, <2>2 DEF IInv, Ownership, RetryBudget, Quiet
<1>6. ASSUME NEW permanent \in BOOLEAN, RunFails(p, permanent)
      PROVE  Ownership' /\ RetryBudget' /\ Quiet'
  <2>1. /\ Fail(k, permanent)
        /\ Release(p)
        /\ UNCHANGED <<handle, daemon, orphans>>
    BY <1>1, <1>6 DEF RunFails
  <2>2. /\ RetryBudget'
        /\ jobs'[k].status # "running"
        /\ \A o \in Key : o # k => jobs'[o] = jobs[o]
    BY <1>2, <2>1, FailKeepsBudget
  <2>3. Ownership' /\ Quiet'
    BY <1>1, <2>1, <2>2, OwnerLeaves
  <2>4. QED
    BY <2>2, <2>3
<1>7. CASE Requeue(p)
  <2>1. PICK permanent \in BOOLEAN : permanent = FALSE
    OBVIOUS
  <2>2. /\ Fail(k, permanent)
        /\ Release(p)
        /\ UNCHANGED <<handle, daemon, orphans>>
    BY <1>1, <1>7, <2>1 DEF Requeue
  <2>3. /\ RetryBudget'
        /\ jobs'[k].status # "running"
        /\ \A o \in Key : o # k => jobs'[o] = jobs[o]
    BY <1>2, <2>2, FailKeepsBudget
  <2>4. Ownership' /\ Quiet'
    BY <1>1, <2>2, <2>3, OwnerLeaves
  <2>5. QED
    BY <2>3, <2>4
<1>8. CASE Abandon(p)
  <2>1. /\ UNCHANGED <<jobs, failures, handle, daemon>>
        /\ Release(p)
        /\ orphans' = orphans \cup {k}
    BY <1>1, <1>8 DEF Abandon
  <2>2. Ownership' /\ Quiet'
    BY <1>1, <2>1, OwnerLeaves
  <2>3. QED
    BY <2>1, <2>2 DEF IInv, RetryBudget
<1>9. QED
  BY <1>1, <1>3, <1>4, <1>5, <1>6, <1>7, <1>8 DEF TaskStep

LEMMA StepInvariant == IInv /\ [Next]_vars => IInv'
<1> SUFFICES ASSUME IInv, [Next]_vars
             PROVE  Ownership' /\ RetryBudget' /\ Quiet'
  BY StepType DEF IInv
<1>1. CASE OpenLocked
  <2>1. \A k \in Key : Held(k)' <=> Held(k)
    BY <1>1 DEF OpenLocked, Held
  <2>2. \A k \in Key : ~Held(k)
    BY <1>1 DEF OpenLocked, IInv, Ownership
  <2>3. \A k \in Key : jobs'[k].status # "running"
    BY <1>1 DEF OpenLocked, Recovered, RecoveredRow, IInv, TypeOK, Row
  <2>4. RetryBudget'
    BY <1>1, RecoveredBudget DEF OpenLocked, RetryBudget, Within
  <2>5. Ownership' /\ Quiet'
    BY <1>1, <2>1, <2>2, <2>3 DEF OpenLocked, IInv, Ownership, Quiet
  <2>6. QED
    BY <2>4, <2>5
<1>2. CASE Start
  <2>1. /\ RetryBudget'
        /\ \A k \in Key : jobs'[k].status # "running"
    BY <1>2, EnqueueInvariant DEF Start, IInv, Quiet
  <2>2. \A k \in Key : Held(k)' <=> Held(k)
    BY <1>2 DEF Start, Held
  <2>3. QED
    BY <1>2, <2>1, <2>2 DEF Start, IInv, Ownership, Quiet
<1>3. CASE InitCommand
  BY <1>3, EnqueueInvariant, OwnersUnchanged DEF InitCommand
<1>4. ASSUME NEW b \in Imports, ImportLegacy(b)
      PROVE  Ownership' /\ RetryBudget' /\ Quiet'
  <2>1. RetryBudget'
    BY <1>4, EnqueueBudget, RecoveredBudget, RecoveredType DEF ImportLegacy, IInv, TypeOK
  <2>2. \A k \in Key : Held(k)' <=> Held(k)
    BY <1>4 DEF ImportLegacy, Held
  <2>3. QED
    BY <1>4, <2>1, <2>2 DEF ImportLegacy, IInv, Ownership, Quiet
<1>5. CASE Crash
  <2>1. \A k \in Key : ~Held(k)'
    BY <1>5, KeyFacts DEF Crash, Held
  <2>2. QED
    BY <1>5, <2>1 DEF Crash, IInv, Ownership, RetryBudget, Quiet
<1>6. ASSUME NEW k \in Key, Claim(k)
      PROVE  Ownership' /\ RetryBudget' /\ Quiet'
  <2>1. /\ jobs[k] \in Row /\ failures[k] \in Nat
        /\ jobs[k].status = "pending"
        /\ jobs'[k].status = "running"
        /\ jobs'[k].attempts = jobs[k].attempts + 1
        /\ \A o \in Key : o # k => jobs'[o] = jobs[o]
        /\ UNCHANGED <<failures, task, orphans>>
        /\ daemon = "up" /\ daemon' = "up"
        /\ handle = NoKey /\ handle' = k
    BY <1>6 DEF Claim, Due, IInv, TypeOK, Row
  <2>2. ~Held(k)
    BY <2>1 DEF IInv, Ownership
  <2>3. \A o \in Key : Held(o)' <=> (Held(o) \/ o = k)
    BY <2>1, KeyFacts DEF Held
  <2>4. \A p \in Permits : task[p] # NoTask => task[p].key # k
    BY <2>2 DEF Held
  <2>5. Ownership' /\ Quiet'
    BY <2>1, <2>3, <2>4 DEF IInv, Ownership, Quiet
  <2>6. RetryBudget'
    BY <2>1, BudgetByRow DEF IInv, RetryBudget, Within, Open, Row
  <2>7. QED
    BY <2>5, <2>6
<1>7. ASSUME NEW p \in Permits, StartTask(p)
      PROVE  Ownership' /\ RetryBudget' /\ Quiet'
  <2>1. /\ handle \in Key
        /\ UNCHANGED <<jobs, failures, orphans, daemon>>
        /\ handle' = NoKey
        /\ task[p] = NoTask
        /\ task'[p] # NoTask /\ task'[p].key = handle
        /\ \A x \in Permits : x # p => task'[x] = task[x]
    BY <1>7, KeyFacts DEF StartTask, IInv, TypeOK, NoTask
  <2>2. \A k \in Key : Held(k)' <=> Held(k)
    BY <2>1, KeyFacts DEF Held
  <2>3. \A x, y \in Permits : x # y /\ task'[x] # NoTask => task'[x].key # task'[y].key
    <3>1. \A x \in Permits : task[x] # NoTask => task[x].key \in Key
      BY BusyTask DEF IInv
    <3>2. \A y \in Permits : task[y].key # handle
      BY <2>1, KeyFacts DEF IInv, Ownership, NoTask
    <3>3. QED
      BY <2>1, <3>1, <3>2 DEF IInv, Ownership
  <2>4. \A x \in Permits : task'[x] # NoTask => task'[x].key # handle'
    <3>1. \A x \in Permits : task[x] # NoTask => task[x].key \in Key
      BY BusyTask DEF IInv
    <3>2. QED
      BY <2>1, <3>1, KeyFacts
  <2>5. QED
    BY <2>1, <2>2, <2>3, <2>4 DEF IInv, Ownership, RetryBudget, Quiet
<1>8. ASSUME NEW p \in Permits, task[p] # NoTask, TaskStep(p)
      PROVE  Ownership' /\ RetryBudget' /\ Quiet'
  BY <1>8, TaskInvariant
<1>9. CASE Tick
  BY <1>9, OwnersUnchanged DEF Tick, IInv, RetryBudget
<1>10. CASE UNCHANGED vars
  BY <1>10, OwnersUnchanged DEF vars, IInv, RetryBudget
<1>11. QED
  BY <1>1, <1>2, <1>3, <1>4, <1>5, <1>6, <1>7, <1>8, <1>9, <1>10 DEF Next

(* The strengthening of Ownership and RetryBudget that every action of the *)
(* queue (db.rs, daemon.rs) preserves.                                     *)
THEOREM InvariantHolds == Spec => []IInv
<1>1. Init => IInv
  BY InitInvariant
<1>2. IInv /\ [Next]_vars => IInv'
  BY StepInvariant
<1>3. QED
  BY <1>1, <1>2, PTL DEF Spec

(* No row is ever run by two tasks, and the row a task settles is the one  *)
(* it claimed (daemon.rs site_worker, db.rs claim, recover, enqueue_on).   *)
THEOREM OwnershipHolds == Spec => []Ownership
<1>1. IInv => Ownership
  BY DEF IInv
<1>2. QED
  BY <1>1, InvariantHolds, PTL

(* No job keeps failing beyond its budget, whatever crashes in between     *)
(* (db.rs claim and fail).                                                 *)
THEOREM RetryBudgetHolds == Spec => []RetryBudget
<1>1. IInv => RetryBudget
  BY DEF IInv
<1>2. QED
  BY <1>1, InvariantHolds, PTL

-----------------------------------------------------------------------------
(* The retry delay.                                                        *)

(* The backoff never shrinks as the attempts grow (db.rs backoff_secs).    *)
LEMMA BackoffMonotone ==
  ASSUME NEW m \in Nat, NEW n \in Nat, m <= n
  PROVE  BackoffSecs(m) <= BackoffSecs(n)
<1> DEFINE exp(a) == IF a < 1 THEN 0 ELSE IF a > 11 THEN 10 ELSE a - 1
<1>1. /\ exp(m) + 1 \in 1 .. 11 /\ exp(n) + 1 \in 1 .. 11
      /\ exp(m) + 1 <= exp(n) + 1
  OBVIOUS
<1>2. \A i, j \in 1 .. 11 : i <= j => PowersOfTwo[i] <= PowersOfTwo[j]
  BY DEF PowersOfTwo
<1>3. \A i \in 1 .. 11 : PowersOfTwo[i] \in Nat
  BY DEF PowersOfTwo
<1> DEFINE u == PowersOfTwo[exp(m) + 1]
           v == PowersOfTwo[exp(n) + 1]
<1>4. u \in Nat /\ v \in Nat /\ u <= v
  BY <1>1, <1>2, <1>3
<1>5. BackoffSecs(m) = IF BackoffBase * u < BackoffCap THEN BackoffBase * u ELSE BackoffCap
  BY DEF BackoffSecs
<1>6. BackoffSecs(n) = IF BackoffBase * v < BackoffCap THEN BackoffBase * v ELSE BackoffCap
  BY DEF BackoffSecs
<1> HIDE DEF exp, u, v
<1>7. BackoffBase * u <= BackoffBase * v
  BY <1>4, NumberAssumption
<1>8. BackoffBase * u \in Nat /\ BackoffBase * v \in Nat
  BY <1>4, NumberAssumption
<1>9. QED
  BY <1>5, <1>6, <1>7, <1>8, NumberAssumption

(* A later retry is stamped no earlier.                                    *)
LEMMA AtMonotone ==
  ASSUME NEW m \in Nat, NEW n \in Nat, m <= n, now \in Nat
  PROVE  At(m) <= At(n)
BY DEF At

(* A recorded failure is at most as old as the claim it was charged to.    *)
LEMMA FailWaits ==
  ASSUME IInv, NEW k \in Key, Held(k), NEW permanent \in BOOLEAN,
         Fail(k, permanent)
  PROVE  \A o \in Key :
           failures'[o] > failures[o] /\ jobs'[o].status = "pending"
             => jobs'[o].run_at >= At(BackoffSecs(failures'[o]))
<1>1. /\ jobs \in [Key -> Row] /\ failures \in [Key -> Nat] /\ now \in Nat
      /\ jobs[k].attempts \in Nat
      /\ failures[k] + 1 <= jobs[k].attempts
  BY DEF IInv, TypeOK, Ownership, RetryBudget, Open, Row
<1>2. At(BackoffSecs(failures[k] + 1)) <= At(BackoffSecs(jobs[k].attempts))
  BY <1>1, BackoffMonotone, BackoffType, AtMonotone
<1>3. /\ At(BackoffSecs(failures[k] + 1)) \in Nat
      /\ At(BackoffSecs(jobs[k].attempts)) \in Nat
  BY <1>1, BackoffType, AtType
<1>4. FailedRow(k, permanent).status = "pending"
        => FailedRow(k, permanent).run_at = At(BackoffSecs(jobs[k].attempts))
  BY <1>1 DEF FailedRow, Row
<1>5. /\ failures' = [failures EXCEPT ![k] = @ + 1]
      /\ jobs' = [jobs EXCEPT ![k] = FailedRow(k, permanent)]
  BY DEF Fail
<1> HIDE DEF Fail
<1>6. QED
  BY <1>1, <1>2, <1>3, <1>4, <1>5

(* After its n-th failure in a row a row waits at least the backoff of n   *)
(* failures, crashes and restarts notwithstanding (db.rs fail,             *)
(* backoff_secs): only fail raises a row's count, and the attempts it      *)
(* reads cannot be fewer.                                                  *)
THEOREM RetriesWait == Spec => NeverRetriedEarly
<1>1. IInv /\ [Next]_vars => WaitsOut
  <2> SUFFICES ASSUME IInv, [Next]_vars
               PROVE  WaitsOut
    OBVIOUS
  <2>1. failures \in [Key -> Nat]
    BY DEF IInv, TypeOK
  <2>2. SUFFICES ASSUME ~(\A o \in Key : ~(failures'[o] > failures[o]))
                 PROVE  WaitsOut
    BY DEF WaitsOut
  <2>3. ASSUME NEW f \in [Key -> Nat], NEW q, NEW b, failures' = Forgiven(f, q, b),
               \A o \in Key : f[o] <= failures[o]
        PROVE  \A o \in Key : ~(failures'[o] > failures[o])
    BY <2>1, <2>3 DEF Forgiven
  <2>4. ASSUME NEW p \in Permits, task[p] # NoTask, TaskStep(p)
        PROVE  WaitsOut
    <3>1. task[p].key \in Key /\ Held(task[p].key)
      BY <2>4, BusyTask DEF IInv, Held
    <3>2. ASSUME NEW b, Complete(p, b) \/ CompleteEphemeral(p, b)
          PROVE  FALSE
      <4> DEFINE f == [failures EXCEPT ![task[p].key] = 0]
      <4>1. f \in [Key -> Nat] /\ \A o \in Key : f[o] <= failures[o]
        BY <2>1, <3>1
      <4>2. \E q : failures' = Forgiven(f, q, b)
        BY <3>2 DEF Complete, CompleteEphemeral
      <4> HIDE DEF f
      <4>3. QED
        BY <2>2, <2>3, <4>1, <4>2
    <3>3. ASSUME NEW permanent \in BOOLEAN, RunFails(p, permanent)
          PROVE  WaitsOut
      BY <3>1, <3>3, FailWaits DEF RunFails, WaitsOut
    <3>4. CASE Requeue(p)
      <4>1. PICK permanent \in BOOLEAN : permanent = FALSE
        OBVIOUS
      <4>2. Fail(task[p].key, permanent)
        BY <3>4, <4>1 DEF Requeue
      <4>3. QED
        BY <3>1, <4>2, FailWaits DEF WaitsOut
    <3>5. CASE UNCHANGED failures
      BY <2>1, <2>2, <3>5
    <3>6. QED
      BY <2>4, <3>2, <3>3, <3>4, <3>5 DEF TaskStep, CompletionFails, Abandon
  <2>5. CASE Start \/ InitCommand \/ \E b \in Imports : ImportLegacy(b)
    <3>1. \E q, b : failures' = Forgiven(failures, q, b)
      BY <2>5 DEF Start, InitCommand, ImportLegacy
    <3>2. QED
      BY <2>1, <2>2, <2>3, <3>1
  <2>6. CASE UNCHANGED failures
    BY <2>1, <2>2, <2>6
  <2>7. QED
    BY <2>4, <2>5, <2>6
    DEF Next, vars, OpenLocked, Crash, Claim, StartTask, Tick
<1>2. QED
  BY <1>1, InvariantHolds, PTL DEF Spec, NeverRetriedEarly

-----------------------------------------------------------------------------
(* The queue implements WorkLedger, for every value of the constants: the  *)
(* view LedgerView(jobs) starts as an empty ledger, and every step of the  *)
(* queue accepts a request, serves or drops one ticket, or shows nothing.  *)

(* The tickets of the ledger are the rows of the table.                    *)
LEMMA TicketIsKey == Ledger!Ticket = Key
BY DEF Ledger!Ticket, Key, Durable

(* A view shows a row open exactly when it is pending or running.          *)
LEMMA ViewFacts ==
  ASSUME NEW q \in [Key -> Row], NEW k \in Key
  PROVE  /\ LedgerView(q)[k] = "open" <=> q[k].status \in Open
         /\ LedgerView(q)[k] = "absent" <=> q[k].status = "absent"
         /\ LedgerView(q)[k] \in {"done", "dead"} <=> q[k].status \in {"done", "dead"}
         /\ q[k].status \notin Open => LedgerView(q)[k] = q[k].status
<1>1. q[k].status \in Status
  BY DEF Row
<1>2. QED
  BY <1>1 DEF LedgerView, Open, Status

(* A batch writes exactly the rows its request opens in the ledger.        *)
LEMMA WritesIsOpens ==
  ASSUME NEW q \in [Key -> Row], NEW b, IsBatch(b, Identity), NEW k \in Key
  PROVE  Writes(q, b, k) <=> Ledger!Opens(LedgerView(q), AsRequest(b), k)
<1>1. /\ AsRequest(b).wants = DOMAIN b
      /\ AsRequest(b).rearms = {i \in DOMAIN b \ Slugs : b[i].resurrect}
  BY DEF AsRequest
<1>2. FreeCopy(q, k) <=> Ledger!FreeTicket(LedgerView(q), k[1], k)
  BY ViewFacts, TicketIsKey DEF FreeCopy, Ledger!FreeTicket
<1>3. \A i \in DOMAIN b : b[i].resurrect \in BOOLEAN
  BY DEF IsBatch, NewJob
<1>4. CASE k[1] \in Slugs
  BY <1>1, <1>2, <1>4 DEF Writes, IsEphemeral, Ledger!Opens
<1>5. CASE k[1] \notin Slugs
  <2>1. CASE k[1] \in DOMAIN b
    BY <1>1, <1>3, <1>5, <2>1, ViewFacts DEF Writes, IsEphemeral, Ledger!Opens
  <2>2. CASE k[1] \notin DOMAIN b
    BY <1>1, <2>2 DEF Writes, Ledger!Opens
  <2>3. QED
    BY <2>1, <2>2
<1>6. QED
  BY <1>4, <1>5

(* enqueue_on is seen as recording the request of its batch.               *)
LEMMA EnqueueIsRecorded ==
  ASSUME NEW q \in [Key -> Row], NEW b, IsBatch(b, Identity)
  PROVE  LedgerView(EnqueueOn(q, b)) = Ledger!Recorded(LedgerView(q), AsRequest(b))
<1> DEFINE e == EnqueueOn(q, b)
<1>1. ASSUME NEW k \in Key
      PROVE  LedgerView(e)[k] = Ledger!Recorded(LedgerView(q), AsRequest(b))[k]
  <2>1. Ledger!Recorded(LedgerView(q), AsRequest(b))[k]
          = IF Writes(q, b, k) THEN "open" ELSE LedgerView(q)[k]
    BY WritesIsOpens, TicketIsKey DEF Ledger!Recorded
  <2>2. e[k] = IF Writes(q, b, k) THEN ArmedRow(b[k[1]].prio) ELSE q[k]
    BY DEF EnqueueOn, EnqueuedRow
  <2> HIDE DEF e
  <2>3. LedgerView(e)[k] = IF Writes(q, b, k) THEN "open" ELSE LedgerView(q)[k]
    BY <2>2 DEF LedgerView, ArmedRow, Open
  <2>4. QED
    BY <2>1, <2>3
<1> HIDE DEF e
<1>2. /\ LedgerView(e) = [k \in Key |-> LedgerView(e)[k]]
      /\ Ledger!Recorded(LedgerView(q), AsRequest(b))
           = [k \in Key |-> Ledger!Recorded(LedgerView(q), AsRequest(b))[k]]
  BY TicketIsKey DEF LedgerView, Ledger!Recorded
<1>3. QED
  BY <1>1, <1>2 DEF e

(* Recovering running rows shows nothing.                                  *)
LEMMA RecoverShowsNothing ==
  ASSUME NEW q \in [Key -> Row]
  PROVE  LedgerView(Recovered(q)) = LedgerView(q)
<1>1. \A k \in Key : LedgerView(Recovered(q))[k] = LedgerView(q)[k]
  BY DEF LedgerView, Recovered, RecoveredRow, Row, Open
<1>2. /\ LedgerView(Recovered(q)) = [k \in Key |-> LedgerView(Recovered(q))[k]]
      /\ LedgerView(q) = [k \in Key |-> LedgerView(q)[k]]
  BY DEF LedgerView
<1>3. QED
  BY <1>1, <1>2

(* A child batch is a request its job may make, and the seeding and the    *)
(* imports come from outside.                                              *)
Asks == [i \in Identity |-> {AsRequest(b) : b \in Children[i]}]
Offers == {AsRequest(b) : b \in Imports \cup {SeedPeriodic}}
LEMMA RequestFacts ==
  /\ \A i \in Identity : \A b \in Children[i] : AsRequest(b) \in Asks[i]
  /\ \A b \in Imports : AsRequest(b) \in Offers
  /\ AsRequest(SeedPeriodic) \in Offers
BY DEF Asks, Offers

-----------------------------------------------------------------------------
(* Changing one row.                                                       *)

(* Only the changed row's entry of the view changes.                       *)
LEMMA OneRowView ==
  ASSUME NEW q \in [Key -> Row], NEW k \in Key, NEW row \in Row
  PROVE  LedgerView([q EXCEPT ![k] = row])
           = [LedgerView(q) EXCEPT
                ![k] = IF row.status \in Open THEN "open" ELSE row.status]
<1> DEFINE r == [q EXCEPT ![k] = row]
           seen == IF row.status \in Open THEN "open" ELSE row.status
<1>1. \A o \in Key : LedgerView(r)[o] = [LedgerView(q) EXCEPT ![k] = seen][o]
  BY DEF LedgerView
<1> HIDE DEF r, seen
<1>2. /\ LedgerView(r) = [o \in Key |-> LedgerView(r)[o]]
      /\ [LedgerView(q) EXCEPT ![k] = seen]
           = [o \in Key |-> [LedgerView(q) EXCEPT ![k] = seen][o]]
  BY DEF LedgerView
<1>3. QED
  BY <1>1, <1>2 DEF r, seen

(* A row the daemon holds is an open ticket.                               *)
LEMMA HeldIsOpen ==
  ASSUME IInv, NEW p \in Permits, task[p] # NoTask
  PROVE  /\ task[p].key \in Key
         /\ jobs \in [Key -> Row]
         /\ jobs[task[p].key].status = "running"
         /\ LedgerView(jobs)[task[p].key] = "open"
<1>1. task[p].key \in Key /\ jobs \in [Key -> Row]
  BY BusyTask DEF IInv, TypeOK
<1>2. jobs[task[p].key].status = "running"
  BY <1>1 DEF IInv, Ownership, Held
<1>3. QED
  BY <1>1, <1>2 DEF LedgerView, Open

(* fail re-opens the row, which shows nothing, or drops its ticket.        *)
LEMMA FailIsDrop ==
  ASSUME IInv, NEW k \in Key, jobs[k].status = "running",
         NEW permanent \in BOOLEAN, Fail(k, permanent)
  PROVE  \/ LedgerView(jobs)' = LedgerView(jobs)
         \/ Ledger!Drop(k)
<1>1. /\ jobs \in [Key -> Row]
      /\ FailedRow(k, permanent) \in Row
  BY FailedRowType DEF IInv, TypeOK
<1>2. jobs' = [jobs EXCEPT ![k] = FailedRow(k, permanent)]
  BY DEF Fail
<1>3. LedgerView(jobs)[k] = "open"
  BY <1>1 DEF LedgerView, Open
<1>4. FailedRow(k, permanent).status \in {"pending", "dead"}
  BY <1>1 DEF FailedRow, Row
<1>5. LedgerView(jobs')
        = [LedgerView(jobs) EXCEPT
             ![k] = IF FailedRow(k, permanent).status \in Open
                    THEN "open" ELSE FailedRow(k, permanent).status]
  BY <1>1, <1>2, OneRowView
<1>6. CASE FailedRow(k, permanent).status = "dead"
  <2>1. LedgerView(jobs') = [LedgerView(jobs) EXCEPT ![k] = "dead"]
    BY <1>5, <1>6 DEF Open
  <2>2. QED
    BY <1>3, <2>1 DEF Ledger!Drop, LedgerView
<1>7. CASE FailedRow(k, permanent).status = "pending"
  <2>1. LedgerView(jobs') = [LedgerView(jobs) EXCEPT ![k] = "open"]
    BY <1>5, <1>7 DEF Open
  <2>2. [LedgerView(jobs) EXCEPT ![k] = "open"] = LedgerView(jobs)
    BY <1>3 DEF LedgerView
  <2>3. QED
    BY <2>1, <2>2 DEF LedgerView
<1>8. QED
  BY <1>4, <1>6, <1>7

(* Claiming a row shows nothing.                                           *)
LEMMA ClaimShowsNothing ==
  ASSUME IInv, NEW k \in Key, Claim(k)
  PROVE  LedgerView(jobs)' = LedgerView(jobs)
<1>1. /\ \A o \in Key : jobs'[o].status \in Open <=> jobs[o].status \in Open
      /\ \A o \in Key : jobs[o].status \notin Open => jobs'[o].status = jobs[o].status
  BY DEF Claim, Due, IInv, TypeOK, Row, Open
<1>2. QED
  BY <1>1 DEF LedgerView

(* Completing a job serves its ticket, together with the children's        *)
(* request.                                                                *)
LEMMA CompletionServes ==
  ASSUME IInv, NEW p \in Permits, task[p] # NoTask,
         NEW b \in Children[task[p].key[1]],
         Complete(p, b) \/ CompleteEphemeral(p, b)
  PROVE  /\ Ledger!Serve(task[p].key, AsRequest(b))
         /\ rounds' = Ledger!Turned(task[p].key)
<1> DEFINE k == task[p].key
           row == IF IsEphemeral(k) THEN NoRow ELSE CompletedRow(k)
           q == [jobs EXCEPT ![k] = row]
<1>1. /\ k \in Key
      /\ jobs \in [Key -> Row]
      /\ LedgerView(jobs)[k] = "open"
      /\ IsBatch(b, Identity)
  BY HeldIsOpen, BusyTask DEF IInv
<1>2. row \in Row
  BY <1>1, CompletedRowType DEF IInv, NoRow, Row, Status
<1>3. jobs' = EnqueueOn(q, b)
  BY DEF Complete, CompleteEphemeral, Enqueue
<1>4. Ledger!Settled(k) = IF row.status \in Open THEN "open" ELSE row.status
  <2>1. row.status = IF k[1] \in Slugs THEN "absent"
                     ELSE IF k[1] \in Periodic THEN "pending" ELSE "done"
    BY <1>1 DEF IsEphemeral, NoRow, CompletedRow, Row, IInv, TypeOK
  <2>2. ~(k[1] \in Slugs /\ k[1] \in Periodic)
    BY IdentityAssumption DEF Durable
  <2> HIDE DEF row
  <2>3. QED
    BY <2>1, <2>2 DEF Ledger!Settled, Open
<1>5. rounds' = Ledger!Turned(k)
  <2>1. ASSUME IsEphemeral(k)
        PROVE  rounds' = [i \in Periodic |-> IF i = k[1] THEN ~rounds[i] ELSE rounds[i]]
    <3>1. rounds \in [Periodic -> BOOLEAN]
      BY DEF IInv, TypeOK
    <3>2. \A i \in Periodic : i # k[1]
      BY <2>1, IdentityAssumption DEF IsEphemeral, Durable
    <3>3. rounds' = rounds
      BY <2>1 DEF Complete, CompleteEphemeral
    <3>4. QED
      BY <3>1, <3>2, <3>3
  <2>2. ASSUME ~IsEphemeral(k)
        PROVE  rounds' = [i \in Periodic |-> IF i = k[1] THEN ~rounds[i] ELSE rounds[i]]
    BY <2>2 DEF Complete, CompleteEphemeral
  <2>3. QED
    BY <2>1, <2>2 DEF Ledger!Turned
<1> HIDE DEF row, k
<1>6. LedgerView(q) = [LedgerView(jobs) EXCEPT ![k] = Ledger!Settled(k)]
  <2>1. LedgerView(q)
          = [LedgerView(jobs) EXCEPT
               ![k] = IF row.status \in Open THEN "open" ELSE row.status]
    BY <1>1, <1>2, OneRowView
  <2>2. QED
    BY <1>4, <2>1
<1>7. q \in [Key -> Row]
  BY <1>1, <1>2
<1> HIDE DEF q
<1>8. LedgerView(jobs') = Ledger!Recorded(LedgerView(q), AsRequest(b))
  BY <1>1, <1>3, <1>7, EnqueueIsRecorded
<1>9. QED
  BY <1>1, <1>6, <1>8, <1>5 DEF Ledger!Serve, LedgerView, k

(* A request from outside, on a table that shows what the real one does.   *)
LEMMA EnqueueAccepts ==
  ASSUME NEW q \in [Key -> Row], LedgerView(q) = LedgerView(jobs),
         NEW b, IsBatch(b, Identity), Enqueue(q, b)
  PROVE  Ledger!Accept(AsRequest(b))
<1>1. LedgerView(jobs') = Ledger!Recorded(LedgerView(jobs), AsRequest(b))
  BY EnqueueIsRecorded DEF Enqueue
<1>2. QED
  BY <1>1 DEF Ledger!Accept, LedgerView

(* A step that neither shows in the table nor commits a periodic run is a  *)
(* stutter of the ledger.                                                  *)
Shown == <<LedgerView(jobs), rounds>>

(* Every step of the queue is a step of the ledger, or shows nothing.      *)
LEMMA StepMaps ==
  ASSUME IInv, [Next]_vars
  PROVE  Ledger!LedgerNext \/ UNCHANGED Shown
<1>1. jobs \in [Key -> Row]
  BY DEF IInv, TypeOK
<1>2. CASE UNCHANGED <<jobs, rounds>>
  BY <1>2 DEF Shown, LedgerView
<1>3. CASE OpenLocked
  <2>1. LedgerView(jobs)' = LedgerView(jobs)
    BY <1>1, <1>3, RecoverShowsNothing DEF OpenLocked, LedgerView
  <2>2. QED
    BY <1>3, <2>1 DEF OpenLocked, Shown
<1>4. CASE Start \/ InitCommand
  <2>1. Enqueue(jobs, SeedPeriodic) /\ UNCHANGED rounds
    BY <1>4 DEF Start, InitCommand
  <2>2. Ledger!Accept(AsRequest(SeedPeriodic))
    BY <1>1, <2>1, EnqueueAccepts, BatchFacts
  <2>3. QED
    BY <2>1, <2>2, RequestFacts DEF Ledger!LedgerNext, Offers
<1>5. ASSUME NEW b \in Imports, ImportLegacy(b)
      PROVE  Ledger!LedgerNext
  <2>1. Ledger!Accept(AsRequest(b))
    BY <1>1, <1>5, EnqueueAccepts, BatchFacts, RecoveredType, RecoverShowsNothing
    DEF ImportLegacy
  <2>2. UNCHANGED rounds
    BY <1>5 DEF ImportLegacy
  <2>3. QED
    BY <2>1, <2>2, RequestFacts DEF Ledger!LedgerNext, Offers
<1>6. ASSUME NEW k \in Key, Claim(k)
      PROVE  UNCHANGED Shown
  <2>1. UNCHANGED rounds
    BY <1>6 DEF Claim
  <2>2. QED
    BY <1>6, <2>1, ClaimShowsNothing DEF Shown
<1>7. ASSUME NEW p \in Permits, task[p] # NoTask, TaskStep(p)
      PROVE  Ledger!LedgerNext \/ UNCHANGED Shown
  <2>1. /\ task[p].key \in Key
        /\ task[p].key[1] \in Identity
        /\ jobs[task[p].key].status = "running"
    BY <1>7, HeldIsOpen, KeyFacts
  <2>2. ASSUME NEW b \in Children[task[p].key[1]],
               Complete(p, b) \/ CompleteEphemeral(p, b)
        PROVE  Ledger!LedgerNext
    <3>1. /\ Ledger!Serve(task[p].key, AsRequest(b))
          /\ rounds' = Ledger!Turned(task[p].key)
      BY <1>7, <2>2, CompletionServes
    <3>2. AsRequest(b) \in Asks[task[p].key[1]]
      BY <2>1, <2>2, RequestFacts
    <3>3. QED
      BY <2>1, <3>1, <3>2, TicketIsKey DEF Ledger!LedgerNext, Asks
  <2>3. ASSUME NEW permanent \in BOOLEAN, Fail(task[p].key, permanent), UNCHANGED rounds
        PROVE  Ledger!LedgerNext \/ UNCHANGED Shown
    <3>1. \/ LedgerView(jobs)' = LedgerView(jobs)
          \/ Ledger!Drop(task[p].key)
      BY <2>1, <2>3, FailIsDrop
    <3>2. QED
      BY <2>1, <2>3, <3>1, TicketIsKey DEF Ledger!LedgerNext, Shown
  <2>4. CASE Requeue(p)
    <3>1. PICK permanent \in BOOLEAN : permanent = FALSE
      OBVIOUS
    <3>2. Fail(task[p].key, permanent) /\ UNCHANGED rounds
      BY <2>4, <3>1 DEF Requeue
    <3>3. QED
      BY <2>3, <3>2
  <2>5. QED
    BY <1>2, <1>7, <2>2, <2>3, <2>4
    DEF TaskStep, RunFails, CompletionFails, Abandon
<1>8. QED
  BY <1>2, <1>3, <1>4, <1>5, <1>6, <1>7 DEF Next, vars, Crash, StartTask, Tick

(* An empty table is an empty ledger.                                      *)
LEMMA InitMaps == Init => Ledger!LedgerInit
BY TicketIsKey DEF Init, Ledger!LedgerInit, LedgerView, NoRow, Open

(* The job table is a ledger of requested work (db.rs enqueue_on, claim,   *)
(* complete, complete_ephemeral, fail, recover): no claim, crash, restart  *)
(* or retry loses or repeats a piece of work, and a commit is one step     *)
(* with all the children of its batch.                                     *)
THEOREM QueueImplementsLedger == Spec => ImplementsLedger
<1>1. Init => Ledger!LedgerInit
  BY InitMaps
<1>2. IInv /\ [Next]_vars => [Ledger!LedgerNext]_<<LedgerView(jobs), rounds>>
  BY StepMaps DEF Shown
<1>3. QED
  BY <1>1, <1>2, InvariantHolds, PTL DEF Spec, ImplementsLedger, Ledger!LedgerSpec

=============================================================================
