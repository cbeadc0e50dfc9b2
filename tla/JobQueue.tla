------------------------------ MODULE JobQueue ------------------------------
(***************************************************************************)
(* The jobs table of one site (db.rs), its constructors (jobs.rs) and the  *)
(* dispatcher that drains it (daemon.rs): enqueue in its three flavours,   *)
(* claim, complete, complete_ephemeral, fail, the flock with startup       *)
(* recovery, the permits of site_worker, and crashes anywhere in between.  *)
(*                                                                         *)
(* A row is named <<identity, copy>>.  The identity stands for a           *)
(* (kind, payload) pair.  The partial unique index ux_jobs_kind_payload    *)
(* gives every durable identity a single row, copy 1; a page.sync payload  *)
(* may hold several rows at a time, and a copy freed by deletion is used   *)
(* again, as SQLite reuses row ids.  What a job does is not modelled here: *)
(* its run may fail, or commit with any batch of child jobs the constant   *)
(* Children offers.                                                        *)
(***************************************************************************)
EXTENDS Integers, FiniteSets

CONSTANTS
  Periodic,       \* discover, shell.sync, out.update, backfill: payload {}
  OneShot,        \* (kind, payload) of revision.fetch, file.fetch, theme.crawl
  Slugs,          \* payloads of page.sync
  Permits,        \* the SITE_CONCURRENCY permits of the site's semaphore
  Children,       \* [Identity -> the child batches a run of it may enqueue]
  Imports,        \* the batches import-legacy may enqueue
  SeedPrio,       \* [Periodic -> Nat], the priorities of seed_periodic
  MaxAttempts,    \* max_attempts of every one-shot job (8 in the code)
  Interval,       \* the reschedule interval of the periodic jobs
  BackoffBase,    \* 10 s in the code
  BackoffCap,     \* 3600 s in the code
  MaxSignals,     \* bound: rows one slug holds at a time
  MaxClaims,      \* bound: claims of one row since it was last armed
  MaxCrashes,     \* bound: number of crashes
  Horizon         \* bound: the clock stops here, and its last reading stands
                  \* for this moment and every later one

Durable == Periodic \cup OneShot
Identity == Durable \cup Slugs
Key == (Durable \X {1}) \cup (Slugs \X (1 .. MaxSignals))
NoKey == <<"none", 0>>

(* What enqueue_on takes: the distinct identities of the list, each with   *)
(* its priority and its resurrect flag.                                    *)
NewJob == [prio : Nat, resurrect : BOOLEAN]
IsBatch(b, S) ==
  /\ DOMAIN b \subseteq S
  /\ \A i \in DOMAIN b : b[i] \in NewJob

ASSUME IdentityAssumption ==
  /\ Periodic \cap OneShot = {}
  /\ Slugs \cap Durable = {}
ASSUME BatchAssumption ==
  /\ \A i \in Identity : \A b \in Children[i] : IsBatch(b, OneShot \cup Slugs)
  /\ \A b \in Imports : IsBatch(b, OneShot \cup Slugs)
  /\ SeedPrio \in [Periodic -> Nat]
ASSUME NumberAssumption ==
  /\ MaxAttempts \in Nat \ {0}
  /\ {Interval, BackoffBase, BackoffCap} \subseteq Nat
  /\ {MaxSignals, MaxClaims, MaxCrashes, Horizon} \subseteq Nat

VARIABLES
  jobs,      \* the table: [Key -> Row], a row not in the table is "absent"
  now,       \* unix time
  daemon,    \* "down", "opened" (flock held, recovered), "up" (dispatching)
  handle,    \* the row the dispatcher claimed and holds while it waits for
             \* a permit, or NoKey
  task,      \* [Permits -> the job the permit's task runs, or NoTask]
  crashes,   \* number of crashes so far (bounded by MaxCrashes)
  failures,  \* history: failures recorded since the row was armed or last
             \* completed
  orphans,   \* history: rows whose task ended without recording an outcome
  rounds     \* history: [Periodic -> whether its commits are odd in number]

vars == <<jobs, now, daemon, handle, task, crashes, failures, orphans, rounds>>

Status == {"absent", "pending", "running", "done", "dead"}
Row == [status : Status, run_at : Nat, attempts : Nat, prio : Nat]
Open == {"pending", "running"}
NoRow == [status |-> "absent", run_at |-> 0, attempts |-> 0, prio |-> 0]
NoTask == [key |-> NoKey, phase |-> "free"]

(* A row freshly inserted, or re-armed by resurrect: the ON CONFLICT       *)
(* branch sets status, run_at, priority, attempts and last_error alike.    *)
ArmedRow(prio) ==
  [status |-> "pending", run_at |-> 0, attempts |-> 0, prio |-> prio]

-----------------------------------------------------------------------------
(* The pure parts: retry delay, time stamps.                               *)

(* backoff_secs: base << clamp(attempts - 1, 0, 10), capped.               *)
PowersOfTwo == <<1, 2, 4, 8, 16, 32, 64, 128, 256, 512, 1024>>
BackoffSecs(attempts) ==
  LET exp == IF attempts < 1 THEN 0 ELSE IF attempts > 11 THEN 10 ELSE attempts - 1
      secs == BackoffBase * PowersOfTwo[exp + 1]
  IN  IF secs < BackoffCap THEN secs ELSE BackoffCap

(* now() + secs, exact also where it lies beyond the Horizon.              *)
At(secs) == now + secs

-----------------------------------------------------------------------------
(* enqueue_on: what a batch does to a table.                               *)

IsEphemeral(k) == k[1] \in Slugs

(* The free copy a new page.sync row of slug s takes.                      *)
FreeCopy(q, k) ==
  /\ q[k].status = "absent"
  /\ \A o \in Key : o[1] = k[1] /\ q[o].status = "absent" => k[2] <= o[2]

(* Faulty: a page.sync signal is dropped while the slug has another row.   *)
WritesDedupingEvents(q, batch, k) ==
  /\ k[1] \in DOMAIN batch
  /\ \A o \in Key : IsEphemeral(k) /\ o[1] = k[1] => q[o].status = "absent"
  /\ \/ q[k].status = "absent" /\ k[2] = 1
     \/ ~IsEphemeral(k) /\ batch[k[1]].resurrect /\ q[k].status \in {"done", "dead"}

(* Faulty: resurrect without its WHERE status IN ('done', 'dead').         *)
WritesRearmingRunning(q, batch, k) ==
  /\ k[1] \in DOMAIN batch
  /\ \/ IsEphemeral(k) /\ FreeCopy(q, k)
     \/ ~IsEphemeral(k) /\ (q[k].status = "absent" \/ batch[k[1]].resurrect)

(* Event jobs always insert a row; a resurrect job inserts, or re-arms a   *)
(* done or dead row; any other job is INSERT OR IGNORE.                    *)
Writes(q, batch, k) ==
  /\ k[1] \in DOMAIN batch
  /\ \/ IsEphemeral(k) /\ FreeCopy(q, k)
     \/ ~IsEphemeral(k) /\ q[k].status = "absent"
     \/ ~IsEphemeral(k) /\ batch[k[1]].resurrect /\ q[k].status \in {"done", "dead"}

EnqueuedRow(q, batch, k) ==
  IF Writes(q, batch, k) THEN ArmedRow(batch[k[1]].prio) ELSE q[k]

EnqueueOn(q, batch) == [k \in Key |-> EnqueuedRow(q, batch, k)]

(* Bound: every slug of the batch finds a free copy.                       *)
Room(q, batch) ==
  \A s \in DOMAIN batch \cap Slugs : \E k \in Key : k[1] = s /\ q[k].status = "absent"

SeedPeriodic == [p \in Periodic |-> [prio |-> SeedPrio[p], resurrect |-> FALSE]]

-----------------------------------------------------------------------------
(* Opening the database and starting the daemon.                           *)

Init ==
  /\ jobs = [k \in Key |-> NoRow]
  /\ now = 0
  /\ daemon = "down"
  /\ handle = NoKey
  /\ task = [p \in Permits |-> NoTask]
  /\ crashes = 0
  /\ failures = [k \in Key |-> 0]
  /\ orphans = {}
  /\ rounds = [i \in Periodic |-> FALSE]

(* enqueue_on as one transaction; an armed row starts a new failure count. *)
Enqueue(q, batch) ==
  /\ Room(q, batch)
  /\ jobs' = EnqueueOn(q, batch)

Forgiven(f, q, batch) == [k \in Key |-> IF Writes(q, batch, k) THEN 0 ELSE f[k]]

(* Faulty: open without recover.                                           *)
LeftRunning(row) == row
(* recover: what a dead predecessor left running is pending again.  The    *)
(* attempts it was charged for stay on the row.                            *)
RecoveredRow(row) ==
  IF row.status = "running" THEN [row EXCEPT !.status = "pending"] ELSE row

Recovered(q) == [k \in Key |-> RecoveredRow(q[k])]

(* open_locked: take the flock, open, recover.                             *)
OpenLocked ==
  /\ daemon = "down"
  /\ daemon' = "opened"
  /\ jobs' = Recovered(jobs)
  /\ orphans' = {}
  /\ UNCHANGED <<now, handle, task, crashes, failures, rounds>>

(* run: seed the periodic jobs, spawn the site's worker.                   *)
Start ==
  /\ daemon = "opened"
  /\ daemon' = "up"
  /\ Enqueue(jobs, SeedPeriodic)
  /\ failures' = Forgiven(failures, jobs, SeedPeriodic)
  /\ UNCHANGED <<now, handle, task, crashes, orphans, rounds>>

(* evakuilo init: a plain open, without the flock, that seeds and exits;   *)
(* it may run beside a live daemon.                                        *)
InitCommand ==
  /\ Enqueue(jobs, SeedPeriodic)
  /\ failures' = Forgiven(failures, jobs, SeedPeriodic)
  /\ UNCHANGED <<now, daemon, handle, task, crashes, orphans, rounds>>

(* evakuilo import-legacy: open_locked, one importing transaction, exit.   *)
ImportLegacy(batch) ==
  /\ daemon = "down"
  /\ Enqueue(Recovered(jobs), batch)
  /\ failures' = Forgiven(failures, Recovered(jobs), batch)
  /\ orphans' = {}
  /\ UNCHANGED <<now, daemon, handle, task, crashes, rounds>>

(* The process ends, by ctrl-c or a crash: tasks and permits are gone, the *)
(* rows they were running stay as they are.                                *)
Crash ==
  /\ daemon # "down"
  /\ crashes < MaxCrashes
  /\ crashes' = crashes + 1
  /\ daemon' = "down"
  /\ handle' = NoKey
  /\ task' = [p \in Permits |-> NoTask]
  /\ UNCHANGED <<jobs, now, failures, orphans, rounds>>

-----------------------------------------------------------------------------
(* The dispatcher: claim one row, then wait for a permit.                  *)

(* The WHERE of claim; every row is due once the clock has stopped, and    *)
(* the last conjunct is the bound on claims.                               *)
Due(k) ==
  /\ jobs[k].status = "pending"
  /\ jobs[k].run_at <= now \/ now = Horizon
  /\ jobs[k].attempts < MaxClaims

(* ORDER BY priority DESC, run_at; rows equal in both are taken in any     *)
(* order (the code breaks the tie by id).                                  *)
Before(a, b) ==
  \/ a.prio > b.prio
  \/ a.prio = b.prio /\ a.run_at < b.run_at

Claim(k) ==
  /\ daemon = "up"
  /\ handle = NoKey
  /\ Due(k)
  /\ \A o \in Key : Due(o) => ~Before(jobs[o], jobs[k])
  /\ jobs' = [jobs EXCEPT ![k].status = "running", ![k].attempts = @ + 1]
  /\ handle' = k
  /\ UNCHANGED <<now, daemon, task, crashes, failures, orphans, rounds>>

(* A permit is free: the claimed job is spawned as a task that holds it.   *)
StartTask(p) ==
  /\ handle # NoKey
  /\ task[p] = NoTask
  /\ task' = [task EXCEPT ![p] = [key |-> handle, phase |-> "run"]]
  /\ handle' = NoKey
  /\ UNCHANGED <<jobs, now, daemon, crashes, failures, orphans, rounds>>

-----------------------------------------------------------------------------
(* The end of a task.  The job's own work, run_job, is over; what is left  *)
(* is one transaction on the table, after which the permit is released.    *)

(* Faulty: the permit is marked free but keeps the job.                    *)
ReleaseKeepingJob(p) == task' = [task EXCEPT ![p].phase = "free"]
Release(p) == task' = [task EXCEPT ![p] = NoTask]

(* The row of a completed durable job: rescheduled if periodic, else done. *)
CompletedRow(k) ==
  IF k[1] \in Periodic
  THEN [jobs[k] EXCEPT !.status = "pending", !.run_at = At(Interval)]
  ELSE [jobs[k] EXCEPT !.status = "done"]

Complete(p, batch) ==
  LET k == task[p].key
      q == [jobs EXCEPT ![k] = CompletedRow(k)]
  IN  /\ task[p].phase = "run"
      /\ ~IsEphemeral(k)
      /\ jobs[k].status # "absent"
      /\ Enqueue(q, batch)
      /\ failures' = Forgiven([failures EXCEPT ![k] = 0], q, batch)
      /\ rounds' = [i \in Periodic |-> IF i = k[1] THEN ~rounds[i] ELSE rounds[i]]
      /\ Release(p)
      /\ UNCHANGED <<now, daemon, handle, crashes, orphans>>

(* The row is deleted and the effects run in the same transaction.         *)
CompleteEphemeral(p, batch) ==
  LET k == task[p].key
      q == [jobs EXCEPT ![k] = NoRow]
  IN  /\ task[p].phase = "run"
      /\ IsEphemeral(k)
      /\ jobs[k].status # "absent"
      /\ Enqueue(q, batch)
      /\ failures' = Forgiven([failures EXCEPT ![k] = 0], q, batch)
      /\ Release(p)
      /\ UNCHANGED <<now, daemon, handle, crashes, orphans, rounds>>

(* The completing transaction fails and rolls back: nothing of it stays,   *)
(* and the task goes on to fail the job.                                   *)
CompletionFails(p) ==
  /\ task[p].phase = "run"
  /\ task' = [task EXCEPT ![p].phase = "requeue"]
  /\ UNCHANGED <<jobs, now, daemon, handle, crashes, failures, orphans, rounds>>

(* Faulty: the budget is compared with > instead of >=.                    *)
ExhaustedLate(k) == k[1] \notin Periodic /\ jobs[k].attempts > MaxAttempts

(* fail: dead-letter when permanent or out of attempts, else pending again *)
(* after the backoff.  max_attempts is 0, no limit, for periodic jobs.     *)
Exhausted(k) == k[1] \notin Periodic /\ jobs[k].attempts >= MaxAttempts

(* Faulty: the backoff does not grow with the attempts.                    *)
RetriedEarly(k, permanent) ==
  IF permanent \/ Exhausted(k)
  THEN [jobs[k] EXCEPT !.status = "dead"]
  ELSE [jobs[k] EXCEPT !.status = "pending",
                       !.run_at = At(BackoffSecs(1))]

FailedRow(k, permanent) ==
  IF permanent \/ Exhausted(k)
  THEN [jobs[k] EXCEPT !.status = "dead"]
  ELSE [jobs[k] EXCEPT !.status = "pending",
                       !.run_at = At(BackoffSecs(jobs[k].attempts))]

Fail(k, permanent) ==
  /\ jobs[k].status # "absent"
  /\ jobs' = [jobs EXCEPT ![k] = FailedRow(k, permanent)]
  /\ failures' = [failures EXCEPT ![k] = @ + 1]

(* run_job reported a failure; permanent for 403, 404 and gone.            *)
RunFails(p, permanent) ==
  /\ task[p].phase = "run"
  /\ Fail(task[p].key, permanent)
  /\ Release(p)
  /\ UNCHANGED <<now, daemon, handle, crashes, orphans, rounds>>

(* After CompletionFails: fail the job, never permanently.                 *)
Requeue(p) ==
  /\ task[p].phase = "requeue"
  /\ Fail(task[p].key, FALSE)
  /\ Release(p)
  /\ UNCHANGED <<now, daemon, handle, crashes, orphans, rounds>>

(* Recording the failure fails too (or the task panics): the row stays     *)
(* running until the next start recovers it.                               *)
Abandon(p) ==
  /\ task[p] # NoTask
  /\ orphans' = orphans \cup {task[p].key}
  /\ Release(p)
  /\ UNCHANGED <<jobs, now, daemon, handle, crashes, failures, rounds>>

Tick ==
  /\ now < Horizon
  /\ now' = now + 1
  /\ UNCHANGED <<jobs, daemon, handle, task, crashes, failures, orphans, rounds>>

-----------------------------------------------------------------------------

TaskStep(p) ==
  \/ \E batch \in Children[task[p].key[1]] : Complete(p, batch)
  \/ \E batch \in Children[task[p].key[1]] : CompleteEphemeral(p, batch)
  \/ CompletionFails(p)
  \/ \E permanent \in BOOLEAN : RunFails(p, permanent)
  \/ Requeue(p)
  \/ Abandon(p)

Next ==
  \/ OpenLocked
  \/ Start
  \/ InitCommand
  \/ \E batch \in Imports : ImportLegacy(batch)
  \/ Crash
  \/ \E k \in Key : Claim(k)
  \/ \E p \in Permits : StartTask(p)
  \/ \E p \in Permits : task[p] # NoTask /\ TaskStep(p)
  \/ Tick

Spec == Init /\ [][Next]_vars

(* The daemon is restarted after a crash, the dispatcher's loop and every  *)
(* task it spawned keep running, and time passes.                          *)
Fairness ==
  /\ WF_vars(OpenLocked)
  /\ WF_vars(Start)
  /\ WF_vars(\E k \in Key : Claim(k))
  /\ WF_vars(\E p \in Permits : StartTask(p))
  /\ \A p \in Permits : WF_vars(task[p] # NoTask /\ TaskStep(p))
  /\ WF_vars(Tick)

FairSpec == Spec /\ Fairness

-----------------------------------------------------------------------------
(* Properties.                                                             *)

TypeOK ==
  /\ jobs \in [Key -> Row]
  /\ now \in Nat
  /\ daemon \in {"down", "opened", "up"}
  /\ handle \in Key \cup {NoKey}
  /\ task \in [Permits -> [key : Key, phase : {"run", "requeue"}] \cup {NoTask}]
  /\ crashes \in Nat
  /\ failures \in [Key -> Nat]
  /\ orphans \subseteq Key
  /\ rounds \in [Periodic -> BOOLEAN]

(* The live daemon is answerable for row k.                                *)
Held(k) == handle = k \/ \E p \in Permits : task[p] # NoTask /\ task[p].key = k

(* A row is running exactly while one actor of the live daemon owns it: no *)
(* two tasks ever run the same row (so never the same durable job twice at *)
(* once), the row a task will complete or fail is still its own running    *)
(* row although rows are deleted, re-armed and re-inserted meanwhile, and  *)
(* only a row whose task could not record its outcome runs unowned.  A     *)
(* daemon that is not dispatching owns nothing (db.rs crash model).        *)
Ownership ==
  /\ \A k \in Key : Held(k) => jobs[k].status = "running"
  /\ \A p, q \in Permits : p # q /\ task[p] # NoTask => task[p].key # task[q].key
  /\ \A p \in Permits : task[p] # NoTask => task[p].key # handle
  /\ daemon = "up" => \A k \in Key : jobs[k].status = "running" => Held(k) \/ k \in orphans
  /\ daemon # "up" => \A k \in Key : ~Held(k)

(* A one-shot job still open has had fewer failures recorded than its      *)
(* attempt budget: claims are charged before the run and never refunded,   *)
(* so neither crashes nor rolled-back completions let a job fail for ever. *)
RetryBudget ==
  \A k \in Key : jobs[k].status \in Open =>
    /\ failures[k] <= jobs[k].attempts
    /\ jobs[k].status = "running" => failures[k] < jobs[k].attempts
    /\ k[1] \notin Periodic => failures[k] < MaxAttempts

(* After its n-th failure in a row a job waits at least the backoff of n   *)
(* failures, whatever crashes and restarts happened in between.            *)
WaitsOut ==
  \A k \in Key :
    failures'[k] > failures[k] /\ jobs'[k].status = "pending"
      => jobs'[k].run_at >= At(BackoffSecs(failures'[k]))
NeverRetriedEarly == [][WaitsOut]_vars

(* The table is a ledger of requested work: claims, crashes, restarts and  *)
(* retries neither lose nor repeat a piece of work, a commit and all the   *)
(* children of its batch are one step, and every page.sync signal is a     *)
(* ticket of its own, also while an earlier one for the slug is running.   *)
AsRequest(b) ==
  [wants |-> DOMAIN b, rearms |-> {i \in DOMAIN b \ Slugs : b[i].resurrect}]
LedgerView(q) ==
  [k \in Key |-> IF q[k].status \in Open THEN "open" ELSE q[k].status]
Ledger == INSTANCE WorkLedger WITH
            Singleton <- Periodic, Durable <- OneShot, Signal <- Slugs,
            Asks <- [i \in Identity |-> {AsRequest(b) : b \in Children[i]}],
            Offers <- {AsRequest(b) : b \in Imports \cup {SeedPeriodic}},
            ledger <- LedgerView(jobs), turn <- rounds
ImplementsLedger == Ledger!LedgerSpec

(* jobs.rs says of the periodic jobs "never done, never dead".             *)
PeriodicNeverDead == \A p \in Periodic : jobs[<<p, 1>>].status # "dead"

(* Every open one-shot job and every page.sync signal is eventually done,  *)
(* deleted or dead-lettered, unless its task died without recording it.    *)
EverythingSettles ==
  \A k \in Key :
    (k[1] \notin Periodic /\ jobs[k].status \in Open)
      ~> (jobs[k].status \notin Open \/ k \in orphans)

=============================================================================
