# Verification of the workflow core

TLA+ models, model-checking runs and machine-checked proofs for the server in
`src/`: a Node/Express application in which citizens submit transactions, a
Camunda engine moves each of them through the tasks of a BPMN process, and
employees pick tasks up, fill in their forms and complete them. The rows live in
PostgreSQL. One process serves all requests, so JavaScript code between two
awaits is atomic and everything that waits for the database, Camunda or a file
can be interleaved with everything else, and cut off by a restart.

## Inventory

| Part | State | Operations | What makes it correct |
|---|---|---|---|
| Task lock (`taskLockService.js`, `processInstanceTaskLocks.js`) | `task_locks` and four older columns of the `process_instances` row; Camunda's assignee | pick up, give up, check, release, clear at rejection | one holder at a time; nobody loses a task he may still work on; a released lock does not come back; the row is never kept |
| Completion (`completeTaskCore.js` and the files around it) | `transactions` row with a version, the stages' data and `_complete_side_effects`; sealed stages; `process_instances` row | guard, save, complete in Camunda, service tasks, advance or end, release, five checkpoints | no form is lost; Camunda is never ahead of the database; the record of what was done is true; both rows end alike |
| Recovery (`completeRecoveryService.js`) | the record above, attempts | find, resume from a step, give up | what failed halfway is taken to its end |
| Technical-failure handler | statuses, Camunda instance, locks | classify, delete, reject | rejects for technical failures only, once and for all |
| Operation guard | three maps in memory | begin, commit, release, replay | a repeated request does nothing twice |
| Service-task sync | executed instances in the row, a cursor | claim, run, persist | each notification at most once |
| Outbox and PDF generation | `outbox_events`, retry counts, document instances | enqueue, dispatch, retry, flush, reject after the last attempt | at-least-once, one document per template, no rejection of what is completed |
| Submission and start | drafts, transaction status, process instance | draft, submit, start, auto-complete, roll back | one draft per process; a failed start leaves no half-started workflow |
| Signatures and integrity chain | challenges, signatures, links | create, verify, persist, append, verify the chain | a challenge is used once; the chain has no forks |
| Sessions and refresh tokens | `refresh_tokens` with successors | issue, rotate, replay within a minute, revoke | one live token per chain |
| Login challenge, PIN, account lock | challenges, PIN sessions, attempt counters | create, verify, count, lock | used once; every failure counts |
| Appointments | slots, bookings, queue order | book, decide, change, cancel | never more approved bookings than places |
| The rest | caches, uploads, notifications, organisation and form CRUD, BPMN generation, migrations | | see `PROJECT.json` for why it is not modelled |

How they interact: a **submission** takes the guard, stores and seals the form
and starts the process in Camunda, whose first task it completes at once. A
completion checks the **lock**, takes the **guard**, stores its **signature**,
writes the row, the link of the chain and the seal, calls **Camunda**, runs the
**service tasks** Camunda has passed, one of which generates the **document** and
leaves an event in the **outbox** when it cannot, writes the row again after each
step, and releases the lock. A timer starts the **recovery** and the
synchronisation of service tasks, which read the same row and run the same
flows; another starts the outbox worker. A failed completion or start runs the
**handler** of technical failures after the answer has been sent, a document
given up runs the handler that rejects the transaction. Nothing but the row's
version stands between these; the status is written past the version. Sessions
and appointments share only the database with the rest.

Hard behaviours, each listed at its line under `hazards` in `PROJECT.json`: the
interleaving of two requests for one task (a double click, or two employees), of
a request with the recovery job, and of a request with the handler that another
one started; stale data merged over new data; a crash or a failure between any
two steps; Camunda's answer lost after its effect; attempts used up; two
branches of a process open at once.

## Modules

| Module | Content |
|---|---|
| `Lease` | abstract: what the lock promises to employees |
| `TaskLock` | the lock of one process instance, with rows, Camunda and crashes |
| `TaskLockProofs` | its inductive invariant and the refinement of `Lease` |
| `MCTaskLock` | symmetry for the `MCTaskLock*.cfg` files |
| `CompleteTask` | completion, recovery, handler and guard around one transaction |
| `CompleteTaskProofs` | its inductive invariants, of the transaction and of the recovery's record |
| `MCCompleteTask` | the process flows for the `MCCompleteTask*.cfg` files |
| `ServiceTasks` | claims of service-task instances by completions, recovery and job |
| `Outbox` | generating one document: attempt, outbox, retries, end of the process |
| `Submission` | draft, submission, start, compensation and handler |
| `SignedLedger` | abstract: what the integrity chain promises |
| `Signing` | challenges, signatures, links and seals of a transaction's stages |
| `Sessions` | login with password, challenge and signature; refresh tokens |
| `Appointments` | one slot and its bookings |
| `ServiceTasksProofs`, `OutboxProofs`, `SubmissionProofs`, `SessionsProofs` | the inductive invariant of each |
| `SigningProofs` | its inductive invariant and the refinement of `SignedLedger` |
| `AppointmentsProofs` | its inductive invariant and what a step may do to bookings |
| `MC...` of each | the instance for TLC |

Operators introduced by a comment that begins with *Mutant* are deliberate bugs.
No specification uses them: each is put in place of the operator behind it to see
that a property notices.

### TaskLock

`locks` is the JSON column, `legacy` the older columns, `rowLock` the open
transaction that has selected the row for update, `active`/`waiting` the tasks
Camunda offers or has not reached, `assignee` Camunda's assignee, `allowed` who
may work on each stage, `req` the requests. An operation whose transaction spans
no other await is one action guarded by the free row (`Acquire`,
`ReleaseStrict`, `AssertTaskLockHolder`); `releaseTaskLock`, which calls Camunda
inside its transaction, is two. Calls to Camunda that the code makes after its
commit are actions of their own and may be lost. A row may come from the release
before the JSON column (migration `20260727140000`): its one lock is then in the
older columns, whatever other branches of the process are open. Deadlines exist
only there, because `acquireTaskLock` writes none; `DeadlinePasses` lets them
pass. Access to the tasks of `Edited` changes at any time, the others are open
to all. The rejection by the failure handler is
`DeleteProcessInstance`, which may fail or be skipped, and `ClearAllLocks`, which
happens all the same, once.

`Lease` says: one step leases at most one task, and a holder loses a task only
by asking for it, losing access, a deadline, the end of the task, or the
rejection of the transaction; a lease of the older release also ends when a
parallel task is leased. `ImplementsLease` maps `LockUser`, the code's own
reading of a lock, to the holder.

### CompleteTask

`db` is the `transactions` row: status, the handler's mark with the code of the
failure, the stages whose data are stored, and `_complete_side_effects`. `fresh`
are the processes whose version is still the row's: versions are only ever
compared with the row's, so a write makes every other holder's version stale. `sealed`
are the stages with a sealed `process_instance_stages` row, `pi` the other row,
`holder` the employee whose lock each task has, `done`/`alive` Camunda, `guard` the maps of the operation guard, `proc` the
requests and the job with the data and side effects each carries.

Each step between awaits is an action: `Load`, `Begin`, `SaveLocal`,
`CompleteInCamunda`, `MarkCamundaDone`, `RunServiceTasks`, `ReadActiveTasks`,
`SetRunning`, `Advance`, `Finish`, `Cancel`, `MarkSynced`, `ReleaseLock`,
`MarkDone`; the lock changes hands by `PickUp`, `TakeOver` and `GiveUp`, and
`ReleaseLock` frees the lock of the record's own user only (`Holds`), as
`releaseTaskLock` does, while the record claims the release either way; the catch
blocks are `CatchFailure` and `CatchInWorker`; the handler
is `ResolveFailure`, `DeleteInstance`, `CheckStatus`, `RejectTransaction`; the
job is `Resume` and the shared steps. `Persist` is the write with conflict
retry: in date it stores the caller's data, otherwise the merge, and in both
cases nothing sealed is dropped (`Frozen`). As in the code, the caller goes on
with its own side effects and not with the merged ones. `late` and the flag
`mixed` are history: locks taken after the task's end, and records into which the
flags of another completion were merged.

Abstractions, all of them deliberate:

- a stage's data is present or not; `_complete_side_effects` keeps the fields
  the recovery reads;
- the retry of a conflicting write is one step: it retries until it fits, and a
  failure of all its attempts is a `Break`;
- a client's `expected_version` is not modelled: a stale one is merged away by
  the same retry;
- neither a stored result of the guard nor an entry of a request in flight
  expires within a behaviour (`IDEMPOTENCY_TTL_MS`); the interval of the rate limit may or may not have passed (both branches are enabled);
- a rejection runs the gateway of the process like an approval as far as Camunda
  is concerned: the tasks behind it are what `runRejectFlow` deletes;
- signatures, service-task actions and the automatic completion of the first
  task are the subject of `Signing`, `ServiceTasks` and `Submission`; the routing
  of assignments is left out, and so is every notification and cache.

`MaxFaults` bounds the failures, crashes and takeovers of one behaviour, `MaxAttempts` is
the configured maximum, and each request is handled once.

### ServiceTasks

`row` holds what the three writers share of the `transactions` row: the claimed
instances (`_executedServiceTaskInstances`), the watermark and two flags of the
recovery record. `current` are the processes that hold its present version,
`ended` is Camunda's history, `proc` what each request and the job carry:
`data`, the object a step works on, and `kept`, the caller's variable, which is
what the catch block writes. A completion saves its form before Camunda
(`SaveLocal`): the write is merged and the request learns the new version, but it
goes on with the data it had read; `missed` is history and holds the claims it
thereby does not know of. Camunda may refuse the task or its answer may be lost
(`CamundaFails`). The runner is shared: `Prepared` and `Pending` are
its choice (the first look at a row and stale instances are marked without being
run, by the synchronisation only), `Claimed` its claim in memory, `Claim` or
`SyncReread`/`SyncClaim` the claim in the row, `RunActions` the actions. `Store`
is the versioned write with its merge - `MergeTracking` for the job,
`MergeComplete` for completion and recovery - and `GiveUp` the job's second
conflict. `ran` is history.

Left out: the older tracking by activity, the batch cursor (every tick visits the
instance), snapshots of stages, service tasks without actions; the limit of
attempts is `CompleteTask`'s.

### Outbox

`rows` are the `document_instance` rows of one template, `events` the outbox,
`actor` the requests and the worker with the events a round has loaded, `job` the
executions of `executeGeneratePdfJob`. A request's own attempt is a job that
`TimesOut` leaves running; each delivery is another. `Poll` is the worker's timer
with its two rounds, `Flush` the request's; `Dispatch`, `MarkProcessed` and
`FailEvent` deliver one event, the count taken from the row as loaded.
`RejectTransaction` is the handler nobody waits for; `Assess` and `Complete` are
the end of `runApproveFlow`, `Resume` the recovery that tries it again.

Left out: other event types, the files (a row that has a path has a file), the
history written into the transaction's data. The readiness check, several
queries, is one step.

### Submission

`status` are the user's transactions for one process, `processes` what was
started in Camunda with its `process_instances` row, `guard` the maps of
`operationGuardService`, `request` the submissions, `handlers` the executions of
`handleWorkflowTechnicalFailure`. Each step between awaits is an action, in the
order of `submitTransactionByProcess`, `submitTransaction` and `startWorkflow`:
`Begin` to `Store`, `Start` to `Progress`, the compensation `Rollback`,
`ReadStatus`, `Reopen`, and `Release`. Each of these calls can fail (`Fail`). A
deletion in Camunda may fail at any time (`Delete`): the process is then
"leaked". A start whose answer is lost leaves a process that is "lost": it runs
and nobody knows its id. `stranded` is history: the transactions whose resetting
was cut off by a restart (`Crash`) or refused by the database (`Strand`).

Left out: files, identity, the signed submission of employees, the rate limit
(refusing more only). The completion of the first task is one step that goes on,
ends the process or fails; its inside is `CompleteTask`.

### Signing

`challenges`, `signatures` and `links` are the three tables, `live` and `version`
the transactions row, `seals` the sealed stages, `writer` the open database
transaction that has updated the row, `request` what each request carries. `Ask`
and `Issue` create a challenge in two statements; `Begin` verifies without a
lock; `Sign` is `persistVerifiedSignature`, a transaction of its own that locks
the challenge; `Save`, `AppendLink` and `Commit` are the transaction that stores
data, link and seal; `Camunda`, `Checkpoint` and `Resume` follow. Hashes are what
they are the hash of, so that equal hashes mean equal contents. `Intact` and
`Genuine` are the checks of `integrityChainService`.

`SignedLedger` says: a list that grows at its end and never holds two contents of
a stage.

Left out: the other writer of the ledger, the signed submission of an employee's
draft (`transactionSubmitService.js:451-464`), which appends the first link with
the same function, before the process and with it the first stage exists; PIN,
account lock and keys; the signatures' own order and predecessor; the genesis hash, a constant of the transaction; the retry limit. A stage has one
user who signs it, the holder of its lock. An expired challenge counts as used.

### Sessions

`pins`, `challenges` and `tokens` are the tables, `request` the requests under
way; the rows a request's database transaction has locked follow from where it
is (`HeldToken`, `HeldChallenge`, `HeldPin`). `tokens[t].state` tells a live, an
expired, a recently revoked and a long revoked token apart, `next` is
`replaced_by_id`. `RotateRefreshToken` reads and locks the row and `Examine` says
how it goes on: rotation, a repeated request within the grace period, or the end
of all sessions (`RevokeAllForUser`, an UPDATE that waits for the rows it found). A repeated request follows the
chain: each `FindLatestInChain` is one hop, a row read without a lock, and
`Extend` writes to the row it has come to, whatever has become of it. A logout
reads the row first and writes `revoked_at` later; the successor of a token
rotated meanwhile stays, since only changed columns are saved. `logins` and
`forked`, the logins where a replay wrote over a successor, are history.

Left out: one employee only; wrong passwords and PINs with their counter; the
citizen's login by one-time code; access tokens; `deleteExpired` and the exported
`revokeAllForUser` (`tokenService.js:319`), which nothing calls.

### Appointments

`slot` with `exists`, `bookings` in the order of their ids, the row locks, and
`req` with what each request has read. Booking and deciding are transactions
under locks (`Book`/`CreateBooking`, `Decide`/`LockSlot`/`UpdateBooking`); the
others read first and write later: `UpdateSlot`/`WriteSlot`/
`MarkApprovedAsPostponed`, `DeleteSlot`/`Destroy`/`Cascade`,
`UpdateAttendance`/`WriteAttendance`, `DeletePastBooking`/`DeleteBooking`. A write
without a transaction still waits for a row another one has locked.
`DeadlockDetected` is PostgreSQL's choice of a victim.

Left out: `is_active`, the time of day (a change of the schedule is a change of
the date), notifications; updating reads slot and count in one step.

## Runs

| Run | Instance | Shows |
|---|---|---|
| `task_lock` | 2 employees, 2 tasks in sequence or in parallel, 2 requests at a time, access to one task changing, a lock of the older release, symmetric employees | `TypeOK`, `LocksAreAsked`, the refinement of `Lease`, and `RequestsEnd` under fairness |
| `task_lock_progress` | 2 employees, 1 task, 2 requests | `RequestsEnd` under fairness |
| `complete_task` | a task with a successor nobody picks up, 2 employees, 2 requests, 1 fault or takeover, 3 attempts | `TypeOK`, `RecordTruthful`, and the liveness of recovery |
| `complete_task_parallel` | 2 parallel tasks, 1 employee, 2 requests, 1 fault, 3 attempts, symmetry | `SavedBeforeDone`, `NoStageLost`, `CompletedMeansEnded` |
| `complete_task_reject` | 1 task, 2 requests, no fault | **violated**: `RejectionIsFinal` |
| `complete_task_resume` | 1 task, 1 request, 1 fault | **violated**: `FailureIsResumed` |
| `service_tasks` | 2 instances, 1 completion beside the job, 1 failure, 1 restart, staleness after 1 tick | `RunIsClaimed`, `OncePerProcess`, `ClaimsKept`, and that every ended instance is claimed at last (`EndedIsClaimed`) |
| `outbox` | 1 request, the worker, 2 attempts, 1 disk error, 1 restart or conflict | `CompletedHasDocument`, `RejectedWhenExhausted`, `EventsSettle`, `GivenUpEnds` |
| `submission` | 2 requests with and without a key, 1 transaction, 2 starts, 2 failures or restarts | `RunsOnce`, `AnswerHolds`, `SubmissionsSettle` |
| `signing` | 2 requests, 2 stages, 2 contents, 3 challenges, 2 faults | `ChainVerifies`, `ChallengeSignsOnce`, `DoneIsSigned`, the refinement of `SignedLedger` |
| `sessions` | 2 requests, 2 PIN sessions, 2 challenges, 4 tokens, chains followed for 2 steps, 1 restart, symmetry | `OneLoginPerPin`, `ChainsConnected` |
| `sessions_fork` | the same | **violated**: `OneTokenLive` |
| `appointments` | 2 citizens, 2 requests, 2 bookings, capacities 1 and 2, 2 days, 1 restart | `OneBooking`, `QueueOrders`, `ApprovedForDate`, `NeverOverbooks`, `DecidedOnce`, `RequestsEnd` |

Why the bounds are enough: all races of the lock are between two requests for one
row, and a second task is needed for the mirror to show the wrong entry, or to
displace the lock of the older release. Access changes for one of them (`Edited`):
a holder is displaced for lost access on one task at a time; the theorems are for
any `Edited`. Employees are permuted although progress is checked: `RequestsEnd`
and the fairness name requests only, and read the same in permuted states. A
completion races with one other writer at a time - a second request, the job, or
the handler - and the runs have all three together; two tasks are needed for one
stage's data to be lost to the other's write and for work to be left when the
list of tasks is read. One fault already reaches every catch block, every
recovery step and every crash point; in `complete_task` it may instead be
a lock that changes hands. Three attempts let the job fail, resume and
reach the last attempt, which does nothing (`attempt < MaxAttempts` in `Resume`).
In `complete_task` the constant `Staffed` keeps the successor without an
employee: there the process goes on to a task that stays open, so that the job
can still resume after `SetRunning`, while all requests are about one task; two
tasks worked on at once are the subject of `complete_task_parallel`.

In `service_tasks` one completion beside the job gives all three writers, since
the job is recovery and synchronisation in turn; two instances let one be claimed
while the other ends, and one tick of staleness lets an instance be pending, at
the watermark and stale. In `outbox` one request has up to three executions of
the job at once (its attempt, its delivery, the worker's), and two attempts reach
the count, its lost update and its end. In `submission` two starts are what
a failed or unanswered start and its repetition need, and two faults let the start
and its resetting fail; the properties are about one transaction each, and the
theorems about any number. In `signing` the
third challenge is the one asked for while another is presented; two faults let a
stage be signed again after a failure and be cut off again. In `sessions` four
tokens make a chain longer than the server follows; two challenges of one PIN
session, or one of each of two, are what two requests can use. In `appointments`
two bookings and a capacity of one are enough to overbook, two requests to
deadlock, and the second day to separate bookings of today from past ones.

Deadlock is not checked in these runs: requests come once and employees may stop
asking, so the system may come to rest. That nobody is stuck on the way is what
the liveness properties say.

### What is known not to hold

Behaviours the models show and that no property claims the opposite of:

- The statuses of the two rows do not always agree: `runApproveFlow` puts the
  instance back to `running` outside its transaction and without a look at its
  status (`completeTaskApproveFlow.js:135`); `startWorkflow` sets a workflow that
  ended with its first task back to `in_progress` (`startWorkflowService.js:126`).
- The lock is checked in a transaction of its own (`taskLockService.js:397`): a
  holder who gives the task up while his completion is under way and the next
  holder are both past the check.
- A second click on a completion is refused with `RATE_LIMITED` or
  `DUPLICATE_IN_FLIGHT`, which the handler takes for a technical failure
  (`workflowTechnicalFailureHandlerService.js:24`), so that it rejects the
  transaction.
- A lock of the release without the JSON column, in a process with two branches
  open, is lost when the other branch's task is picked up: the older columns then
  mirror the only entry (`processInstanceTaskLocks.js:131`).
- A rejection clears all locks of the instance although its deletion in Camunda
  failed or was skipped (`workflowTechnicalFailureHandlerService.js:137`,
  `:151`): tasks that are still offered lose their holder.
- `lock_released` is recorded although `releaseTaskLock` does nothing to the lock
  of another employee (`taskLockService.js:422`); the record claims no more than
  that its own employee does not hold the lock. A lock that was acquired while
  Camunda completed the task stays in the row (`late`).
- A transaction has one `_complete_side_effects` for all its tasks and employees,
  and a merge joins the flags of two of them (`completeOptimisticPersist.js:31`):
  with two tasks in sequence, or two employees' completions of one, the second's
  record can claim `camunda_done` while it is only being saved. `RecordTruthful`
  holds until such flags are mixed.
- Service-task actions run at most once per process and without failures only:
  two processes that race can both run an instance
  (`serviceTaskSyncService.js:162`), and after a failing completion the catch
  block writes claims of an older copy (`completeTaskCore.js:424`). Claims that a
  request missed when it saved its form are dropped by its next checkpoint
  without any conflict or failure, and the job runs their actions again, although `serviceTaskSyncService.js:100` says at most once
  (`completeTaskCore.js:219`; `missed` in the model).
- A completion whose answer from Camunda is lost (`completeTaskCamunda.js:46`) is
  not stored for recovery, although `completeTaskCore.js:65` says that failures
  after Camunda are: nothing tells the server that the task is over, and no
  handler finds the task either.
- A start whose answer is lost leaves a process in Camunda that nothing deletes;
  the transaction becomes a draft again and its next submission starts a second
  one under the same business key (`startWorkflowService.js:83`, `:143`).
- A completed transaction can be rejected by the handler of a failed document,
  and a generation that fails deletes a row which another has filled meanwhile
  (`generatePdfJobService.js:364`); `CompletedHasDocument` is therefore about
  documents that could be saved.
- Two submissions without a draft create two drafts; two Idempotency-Keys for one
  draft start two processes; a restart between the storing and the start, or a
  database that refuses the resetting to draft (`transactionSubmitService.js:493`),
  leaves the transaction `submitted`, and every further submission is told that it
  is under way.
- A logout that a rotation overtakes revokes the token that was rotated and leaves
  its successor live. A logout between the replay's reading and writing of the end
  of the chain (`tokenService.js:221`) is undone: the session has a live token
  again.
- A database error in `markApprovedAsPostponed` (`appointmentService.js:222`, not
  in a transaction with the change of the date) leaves the approvals as they were,
  like a restart at that point.
- A booking approved between the notification and the deletion of the slot is
  deleted without a word; attendance is not reset when the date changes; a
  restart between the change of the date and `markApprovedAsPostponed` leaves the
  approvals as they were.

## Findings

1. `complete_task_reject` - a transaction rejected for a technical failure
   becomes completed: the handler deletes the instance, the other request finds
   no task left and sets the status without looking at it.
2. `complete_task_resume` - a failure after the final status was written is
   stored for recovery but the job looks only for unfinished transactions; the
   task stays locked.
3. `sessions_fork` - a replay overtaken by a rotation writes over the successor:
   two refresh tokens of one login are live.

## Fairness

`TaskLock` assumes strong fairness of each request's handling: the server does
not stop working on a request it has, and PostgreSQL queues transactions that
wait for a row, so one that is enabled again and again gets its turn. Arrivals,
changes of access, deadlines and crashes are not fair. `CompleteTask` assumes
weak fairness of each request's handling and of the job, which a timer starts
again and again (`serviceTaskSyncJob.js`); nobody has to send a request, and no
failure has to happen. After a crash a request is gone and the job starts over.

`ServiceTasks` assumes weak fairness of the clock, the job and what a completion
has begun; a user need not complete his task. `Outbox`: jobs run to their end,
the worker polls again and again (`outboxWorker.js:56`), the server goes on with
what it has begun and the handler of a used-up event runs; a recovery may stay
out. `Appointments`: strong fairness of what a request has begun, for the reason
given for the lock, and weak fairness of PostgreSQL's detection of deadlocks.
`Submission`: weak fairness of each request, none of the handler. `Signing` and
`Sessions` state safety only and need none.

## Proofs

`tlapm` checks every theorem from its leaves, for every value of the constants
that the named assumptions admit: any tasks, stages, documents, any number of
requests, and any bounds on failures, restarts, rows and attempts. Every safety
invariant and every action property that a run checks is proved, and both
refinements are. The arguments have one form. `IInv` strengthens the properties
until each step keeps it; TLC checked it on the run's instance before it was
proved; every action is a lemma; and because most actions leave most of the state
alone, a module says once what a harmless step does to the tables (`GoesOn`,
`Appended`, `TokensGoOn`, `Kept`, `Stable`) and what follows of it.

The assumptions say that sentinels are not members of the sets they stand beside,
that bounds are naturals, and that sets that are counted are finite; beyond that,
at least one attempt (`Outbox`), positive capacities (`Appointments`) and a chain
followed for more than one hop (`Sessions`; the code's limit is ten).

**TaskLockProofs.** `IInv` strengthens `TypeOK` with: every request past `idle`
names a user and a task; only a request about to commit a release owns the row,
and nobody else has come to hold the lock it releases; and either the older columns mirror the
entries or no entry has been written yet. The last part is needed because reading
falls back to the older columns: a lock without an entry is there only as long as
no entry was written, so that the first one can displace it and none after. From
`IInv`: `TypeCorrect`, `LocksAsked` and, step by step under the mapping,
`LeaseImplemented`. Assumptions: the three sentinels are not employees, tasks or
requests.

**CompleteTaskProofs.** `IInv` strengthens `TypeOK` with: a request past its
beginning and before the handler names a task (`RequestsNamed`); the row has
exactly the sealed stages, and what any process holds of the row is sealed
(`StagesSealed`); a task is sealed before Camunda is asked to complete it
(`SealedFirst`); and whoever is about to complete the transaction, or has, did
so when Camunda offered nothing more (`NothingLeft`). `StagesSealed` is needed
because writers bring old copies: freezing keeps what is sealed, so nothing is
lost exactly if nothing unsealed is ever in the row. `NothingLeft` is inductive
because an empty list of tasks stays empty: only an active task can be completed
and a deleted instance stays deleted. `StepKeeps` says once what a step has to
show; every action is a lemma that shows it. From `IInv`: `TypeCorrect`,
`FormsSaved`, `CompletionCorrect` and, with the fact that no step unseals,
`StagesKept`. The assumptions are the named ones of `CompleteTask`; neither
fairness nor the bounds on failures and attempts are used.

`RecordCorrect` says that the recovery's record is true, for any number of tasks
and employees. `RecordInv` says of every process where it is and what it therefore
knows: after Camunda's answer its record says so, the rows are synchronised before
it advances, its employee does not hold the lock before it is done. Merging two
records of one completion keeps this, since what each claims cannot be taken back
(`Stable`): tasks stay done, and who takes the lock of a done task is `late`.
Records of two completions, once merged, are `mixed`, and nothing is claimed of
them.

**SigningProofs.** What must be found is why a link that was verified before the
row was locked still fits when it is committed. `IInv` says: only the writer of
the row is between `Save` and `Commit` (`OneWriter`); what a request carries for a
sealed stage is what the row has; a sealed stage has a link with the contents of
the row, and no other stage has one (`SealsLinked`); a challenge that a signature
refers to is closed (`SignedOnce`). So a stage signed again after a failure adds
no link of other contents, which is `ChainCorrect`, `SignsOnce` and
`CompletionSigned`, and, since links are only appended, `LedgerImplemented`.

**AppointmentsProofs.** Between the check and the write of a request the others
run. `IInv` says what each request still knows: with the slot locked to insert,
its citizen has no active booking; with slot and booking locked to approve, the
date is the slot's, a place is free and the order is above all others. It is kept
because the steps that hold no lock only let bookings fade - they go, are
postponed or attended. `OneBooking` is proved as uniqueness (`Single`) and turned
into a count at the end. A next order exists because a finite set of numbers has
a greatest one. `PlacesSuffice` and `DecisionsStand` are about steps: only an
approval occupies a place, and only under the lock a pending booking is decided.

**ServiceTasksProofs.** Who holds the row's present version works on data with all
of its claims but the `missed` ones (`Holder`), anybody else merges: so no write
takes another claim away, `ClaimsStay`. While nothing has failed, what a process is
about to run it has claimed in the row and has not run, and what it has run is in the data it reads
(`LocalInv`): `RunsClaimed` and `RunsOnce`. The condition is that of the
properties, and needed: the catch block writes back an older copy.

**SubmissionProofs.** `RunsOnce` is about all requests for a transaction at once.
`Exclusive` says that a key in flight has one holder, `RequestInv` what a request
under the guard has registered, and `ProcessInv` where requests can be while a
process of their transaction runs: refused by the guard, the one that answers for
this very process, or successful. So nobody starts a second that is known to run;
one that is lost or leaked answers to nobody. `AnswerInv` adds
that after a success nobody else is under the guard who could compensate. Both
are about transactions submitted with one key, as the properties are.

**OutboxProofs.** The count of an event is read with a round and written back
later, so it can go down. What holds is that no count, in the row or in a copy,
tells of more failures than there were (`Counted`), unless the attempts are used
up: hence `RejectsWhenExhausted`. `CompletedWithDocument` needs that a document
found by the readiness check is still there at the completion: while no document
failed to be saved nothing deletes a row (`Documents`). Each event was left by a
request of its own (`Enqueued`), which bounds their number.

**SessionsProofs.** `Separate` says that requests under way lock different rows
and issue for different logins; `LocalInv` that who is about to sign has a PIN
session that is unused and stays so, since he holds it: `LoginsDiffer`. A token
that is not revoked is the end of its chain, who rotates holds it, and what
replaces it is the new end: `ChainsHold`. Successors are younger, so that there
is no need to follow a chain in the proof. A logout changes no successor, so
it disturbs no chain wherever it comes. The replay reads the end of the chain
without a lock; where it then writes over a successor the login is `forked`, and
of that login nothing is claimed.

Only model-checked is liveness under fairness, which needs ENABLED and is out of
the prover's reach: `RequestsEnd` of `TaskLock` and `Appointments`,
`RecoveryEnds`, `EndedIsClaimed`, `EventsSettle`, `GivenUpEnds`
and `SubmissionsSettle`.

## Plan

The components of the inventory that carry the workflow are modelled, and what
the runs check of their safety is proved. What is left, in this order:

1. `CompleteTask`: a condition on requests under which no record is ever `mixed`:
   a second completion begun only when nobody still holds the first one's record.
2. `Sessions`: what holds of a chain after an overtaken replay, which today is
   left open: at most one more live token for each.
3. `Outbox`: as an action property, who may take up an event again once it has
   been settled, since a lost count (`Counted`) may put it back.
4. The facts about finite sets and sequences that several proof modules state for
   themselves, in one module of their own.

## Not modelled

Form-by-form administration (organisation, roles, requirements, complaints,
process definitions, seeders), documentation of the API, validation and mapping
of forms, and generation of BPMN are sequential code over single rows: a model
would repeat the code. Rendering of documents, uploads and certificates work on
files. Notifications, web sockets and the cache of answers are read by nothing
that decides: a lost notification or a stale answer changes no state. Registration
and one-time codes are a sequence of forms around outside services. Most of the
repository's lines are of these kinds, routes and schemas of the API above all.
