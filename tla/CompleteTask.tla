---------------------------- MODULE CompleteTask ----------------------------
(***************************************************************************)
(* Completing the user tasks of one process instance: the pipeline of      *)
(* completeTaskCore.js with its checkpoints in the transactions row, the   *)
(* in-memory guard of operationGuardService.js, the recovery worker of     *)
(* completeRecoveryService.js and the technical-failure handler of         *)
(* workflowTechnicalFailureHandlerService.js.  The three write the same    *)
(* row under optimistic versions and none of them waits for the others.    *)
(*                                                                         *)
(* A request comes once.  Each step between two awaits is an action.  What *)
(* can break (the database, Camunda, a service task, a PDF that is not     *)
(* ready, the server) and a lock that changes hands out of turn draw on    *)
(* one budget.  Of a version it only matters whether it is still the       *)
(* row's.  The transaction's data is the set of stages saved in it and its *)
(* _complete_side_effects; the service tasks, signatures, notifications    *)
(* and caches are left out.                                                *)
(***************************************************************************)
EXTENDS Naturals, FiniteSets

CONSTANTS
    Tasks,          \* user tasks of the process
    Before,         \* the tasks each waits for (sequence flow, joins)
    Staffed,        \* tasks that an employee may pick up
    Users,          \* the employees
    NoUser,
    Requests,       \* POST .../tasks/{taskId}/complete, each handled once
    Worker,         \* the recovery job
    NoTask,
    MaxAttempts,    \* COMPLETE_RECOVERY_MAX_ATTEMPTS
    MaxFaults       \* bound on the failures of one behaviour

ASSUME TasksAssumption == NoTask \notin Tasks
ASSUME BeforeAssumption == Before \in [Tasks -> SUBSET Tasks]
ASSUME StaffedAssumption == Staffed \subseteq Tasks
ASSUME UsersAssumption == NoUser \notin Users
ASSUME WorkerAssumption == Worker \notin Requests
ASSUME BoundAssumption == MaxAttempts \in Nat /\ MaxFaults \in Nat

VARIABLES
    db,         \* the transactions row
    fresh,      \* who holds the present version of that row
    sealed,     \* the stages with a sealed process_instance_stages row
    pi,         \* status and current stage of the process_instances row
    holder,     \* per task, the employee whose lock it has
    late,       \* history: locks taken after Camunda had left the task
    done,       \* the tasks Camunda has completed
    alive,      \* the Camunda instance has not been deleted
    guard,      \* operationGuardService's maps
    proc,       \* what each request and the worker are doing
    faults      \* failures still to come

vars == <<db, fresh, sealed, pi, holder, late, done, alive, guard, proc, faults>>

Procs == Requests \cup {Worker}
Statuses == {"in_progress", "completed", "rejected"}
Instances == [status : {"running", "completed", "cancelled"},
              stage : Tasks \cup {NoTask}]
Effects == [task : Tasks \cup {NoTask}, user : Users \cup {NoUser},
            reject : BOOLEAN, camunda : BOOLEAN, service : BOOLEAN,
            synced : BOOLEAN, released : BOOLEAN,
            status : {"none", "pending", "failed", "completed"}, attempts : Nat,
            mixed : BOOLEAN]    \* history: flags of another completion merged in
Codes == {"none", "CONFLICT", "RATE_LIMITED", "DUPLICATE_IN_FLIGHT",
          "STAGE_SEALED", "CAMUNDA_TASK_NOT_FOUND", "VERSION_CONFLICT", "FAILURE"}
Steps == {"idle", "begin", "save", "complete", "mark", "service", "sync", "read",
          "running", "advance", "finish", "cancel", "synced", "unlock", "done",
          "caught", "resolve", "delete", "check", "reject", "ended"}
Rows == [status : Statuses, failure : Codes, saved : SUBSET Tasks, effects : Effects]
Holders == [Tasks -> Users \cup {NoUser}]
Keys == Users \X Tasks
Guards == [inFlight : SUBSET Keys, recent : SUBSET Keys, replay : SUBSET Keys]
Locals == [pc : Steps, saved : SUBSET Tasks, effects : Effects,
           next : Tasks \cup {NoTask}, pi : Instances, err : Codes]

(* initCompleteSideEffects *)
InitEffects(t, u, reject) ==
    [task |-> t, user |-> u, reject |-> reject, camunda |-> FALSE,
     service |-> FALSE, synced |-> FALSE, released |-> FALSE,
     status |-> "pending", attempts |-> 0, mixed |-> FALSE]

NoEffects == [InitEffects(NoTask, NoUser, FALSE) EXCEPT !.status = "none"]
NotStarted == [status |-> "running", stage |-> NoTask]
Idle == [pc |-> "idle", saved |-> {}, effects |-> NoEffects,
         next |-> NoTask, pi |-> NotStarted, err |-> "none"]
Ended == [Idle EXCEPT !.pc = "ended"]

TypeOK ==
    /\ db \in Rows
    /\ fresh \in SUBSET Procs
    /\ sealed \in SUBSET Tasks
    /\ pi \in Instances
    /\ holder \in Holders
    /\ late \in SUBSET Keys
    /\ done \in SUBSET Tasks
    /\ alive \in BOOLEAN
    /\ guard \in Guards
    /\ proc \in [Procs -> Locals]
    /\ faults \in Nat

(* getActiveTasks: what Camunda offers. *)
Active == IF alive THEN {t \in Tasks \ done : Before[t] \subseteq done} ELSE {}

-----------------------------------------------------------------------------
(* Writing the row *)

(* Mutant: nothing is frozen *)
Unfrozen(saved) == saved

(* freezeSealedStageData: a write leaves out no sealed stage. *)
Frozen(saved) == saved \cup (db.saved \cap sealed)

(* Two records of one employee's completion of one task *)
SameCompletion(e, f) == <<e.task, e.user>> = <<f.task, f.user>>

(* mergeCompleteSideEffects *)
MergedEffects(stored, incoming) ==
    LET camunda == stored.camunda \/ incoming.camunda
        released == stored.released \/ incoming.released
    IN  [task |-> incoming.task, user |-> incoming.user,
         reject |-> incoming.reject,
         camunda |-> camunda, released |-> released,
         service |-> stored.service \/ incoming.service,
         synced |-> stored.synced \/ incoming.synced,
         status |-> IF released /\ camunda THEN "completed"
                    ELSE IF "failed" \in {stored.status, incoming.status} THEN "failed"
                    ELSE incoming.status,
         attempts |-> IF stored.attempts > incoming.attempts THEN stored.attempts
                      ELSE incoming.attempts,
         mixed |-> \/ stored.mixed \/ incoming.mixed
                   \/ stored.task # NoTask /\ ~SameCompletion(stored, incoming)]

(* updateDataOptimistic finds the row under the version it is given. *)
InDate(p) == p \in fresh

(* What persistOptimisticWithConflictRetry stores: the writer's data, or   *)
(* its merge with data that another writer stored in between.              *)
SavedBy(p, stages) ==
    Frozen(IF InDate(p) THEN stages ELSE db.saved \cup stages)

EffectsBy(p, effects) ==
    IF InDate(p) THEN effects ELSE MergedEffects(db.effects, effects)

Persist(p, stages, effects) ==
    /\ db' = [db EXCEPT !.saved = SavedBy(p, stages),
                        !.effects = EffectsBy(p, effects)]
    /\ fresh' = {p}

(* The checkpoint's writer goes on with the row it stored, but with its    *)
(* own side effects.                                                       *)
Checkpoint(p, effects, step) ==
    /\ Persist(p, proc[p].saved, effects)
    /\ proc' = [proc EXCEPT ![p].pc = step, ![p].effects = effects,
                            ![p].saved = SavedBy(p, proc[p].saved)]

Goto(p, step) == proc' = [proc EXCEPT ![p].pc = step]

Fail(p, code) == proc' = [proc EXCEPT ![p].pc = "caught", ![p].err = code]

Leave(p) == proc' = [proc EXCEPT ![p] = IF p = Worker THEN Idle ELSE Ended]

FaultHappens == faults > 0 /\ faults' = faults - 1

Task(p) == proc[p].effects.task

(* The guard's keys name the employee and the task. *)
Key(p) == <<proc[p].effects.user, Task(p)>>

(* isTaskLockedByUser *)
Holds(p) == holder[Task(p)] = proc[p].effects.user

-----------------------------------------------------------------------------
Init ==
    /\ db = [status |-> "in_progress", failure |-> "none", saved |-> {},
             effects |-> NoEffects]
    /\ fresh = {}
    /\ sealed = {}
    /\ pi = NotStarted
    /\ holder = [t \in Tasks |-> NoUser]
    /\ late = {}
    /\ done = {}
    /\ alive = TRUE
    /\ guard = [inFlight |-> {}, recent |-> {}, replay |-> {}]
    /\ proc = [p \in Procs |-> Idle]
    /\ faults = MaxFaults

(* acquireTaskLock *)
PickUp(u, t) ==
    /\ t \in Active \cap Staffed
    /\ holder[t] = NoUser
    /\ holder' = [holder EXCEPT ![t] = u]
    /\ UNCHANGED <<db, fresh, sealed, pi, late, done, alive, guard, proc, faults>>

(* acquireTaskLock again: another's lock has run out, or its holder lost   *)
(* the stage; and Camunda may have left the task since it was read (module *)
(* TaskLock has the whole story).                                          *)
TakeOver(u, t) ==
    /\ t \in Staffed /\ Before[t] \subseteq done
    /\ holder[t] # u
    /\ holder[t] # NoUser \/ t \notin Active
    /\ FaultHappens
    /\ holder' = [holder EXCEPT ![t] = u]
    /\ late' = IF t \in Active THEN late ELSE late \cup {<<u, t>>}
    /\ UNCHANGED <<db, fresh, sealed, pi, done, alive, guard, proc>>

(* releaseTaskLockStrict, or the removal of a lock that has run out *)
GiveUp(t) ==
    /\ holder[t] # NoUser
    /\ FaultHappens
    /\ holder' = [holder EXCEPT ![t] = NoUser]
    /\ UNCHANGED <<db, fresh, sealed, pi, late, done, alive, guard, proc>>

(* loadCompleteTaskContext reads the task and the row.  A request for a    *)
(* task that is gone changes nothing.                                      *)
Load(r, u, t, reject) ==
    /\ proc[r].pc = "idle"
    /\ t \in Active
    /\ <<u, t>> \notin guard.replay
    /\ fresh' = fresh \cup {r}
    /\ proc' = [proc EXCEPT ![r].pc = "begin", ![r].saved = db.saved,
                            ![r].effects = InitEffects(t, u, reject)]
    /\ UNCHANGED <<db, sealed, pi, holder, late, done, alive, guard, faults>>

(* begin of the operation guard, for a request that may go on to step: too *)
(* soon after another, while another is in flight, or let through.         *)
TakeGuard(r, step) ==
    \/ /\ Key(r) \in guard.recent
       /\ Fail(r, "RATE_LIMITED")
       /\ UNCHANGED guard
    \/ /\ Key(r) \in guard.inFlight
       /\ Fail(r, "DUPLICATE_IN_FLIGHT")
       /\ UNCHANGED guard
    \/ /\ Key(r) \notin guard.inFlight
       /\ guard' = [guard EXCEPT !.inFlight = @ \cup {Key(r)},
                                 !.recent = @ \cup {Key(r)}]
       /\ Goto(r, step)

(* assertTaskLockHolder, the validation that may find a duplicate self     *)
(* card, and the guard, which replays the result of a completed request.   *)
Begin(r) ==
    /\ proc[r].pc = "begin"
    /\ \/ /\ ~Holds(r) \/ Key(r) \in guard.replay
          /\ Leave(r)
          /\ UNCHANGED <<guard, faults>>
       \/ /\ Holds(r)
          /\ FaultHappens
          /\ Fail(r, "CONFLICT")
          /\ UNCHANGED guard
       \/ /\ Holds(r)
          /\ Key(r) \notin guard.replay
          /\ TakeGuard(r, "save")
          /\ UNCHANGED faults
    /\ UNCHANGED <<db, fresh, sealed, pi, holder, late, done, alive>>

(* Mutant: the stage is not sealed *)
SaveUnsealed(r) ==
    LET stages == proc[r].saved \cup {Task(r)}
    IN  /\ proc[r].pc = "save"
        /\ Persist(r, stages, proc[r].effects)
        /\ proc' = [proc EXCEPT ![r].pc = "complete", ![r].saved = stages]
        /\ UNCHANGED <<sealed, pi, holder, late, done, alive, guard, faults>>

(* persistCompleteTaskSideEffects: the stage is stored and sealed in one   *)
(* database transaction.  The request learns the new version but goes on   *)
(* with its own data, which other writers' stages may be missing from.  A  *)
(* stage sealed by an earlier attempt cannot change any more.              *)
SaveLocal(r) ==
    LET t == Task(r)
        stages == proc[r].saved \cup {t}
    IN  /\ proc[r].pc = "save"
        /\ \/ /\ Persist(r, stages, proc[r].effects)
              /\ sealed' = sealed \cup {t}
              /\ proc' = [proc EXCEPT ![r].pc = "complete", ![r].saved = stages]
           \/ /\ t \in sealed
              /\ Fail(r, "STAGE_SEALED")
              /\ UNCHANGED <<db, fresh, sealed>>
        /\ UNCHANGED <<pi, holder, late, done, alive, guard, faults>>

(* completeCamundaTaskWithVariables.  The answer of Camunda may be lost    *)
(* after it has completed the task.                                        *)
CompleteInCamunda(r) ==
    LET t == Task(r)
    IN  /\ proc[r].pc = "complete"
        /\ \/ /\ t \in Active
              /\ done' = done \cup {t}
              /\ \/ /\ proc' = [proc EXCEPT ![r].pc = "mark",
                                            ![r].effects = [@ EXCEPT !.camunda = TRUE]]
                    /\ UNCHANGED faults
                 \/ FaultHappens /\ Fail(r, "FAILURE")
           \/ /\ t \notin Active
              /\ Fail(r, "CAMUNDA_TASK_NOT_FOUND")
              /\ UNCHANGED <<done, faults>>
        /\ UNCHANGED <<db, fresh, sealed, pi, holder, late, alive, guard>>

(* The camunda_done checkpoint; a rejection runs no service tasks. *)
MarkCamundaDone(r) ==
    LET effects == [proc[r].effects EXCEPT !.camunda = TRUE]
    IN  /\ proc[r].pc = "mark"
        /\ Persist(r, proc[r].saved, effects)
        /\ proc' = [proc EXCEPT
               ![r].pc = IF effects.reject THEN "read" ELSE "service",
               ![r].saved = SavedBy(r, proc[r].saved),
               ![r].effects = [effects EXCEPT !.service = effects.reject]]
        /\ UNCHANGED <<sealed, pi, holder, late, done, alive, guard, faults>>

(* Mutant: the last step is missing *)
StepOrNone(effects) ==
    IF ~effects.reject /\ ~effects.service THEN "service"
    ELSE IF ~effects.synced THEN "sync"
    ELSE "none"

(* getNextCompleteRecoveryStep *)
RecoveryStep(effects) ==
    IF ~effects.reject /\ ~effects.service THEN "service"
    ELSE IF ~effects.synced THEN "sync"
    ELSE "unlock"

(* runServiceTaskActions and its checkpoint; the job then takes the next   *)
(* step that the record asks for.                                          *)
RunServiceTasks(p) ==
    /\ proc[p].pc = "service"
    /\ LET effects == [proc[p].effects EXCEPT !.service = TRUE]
       IN  Checkpoint(p, effects, IF p = Worker THEN RecoveryStep(effects) ELSE "read")
    /\ UNCHANGED <<sealed, pi, holder, late, done, alive, guard, faults>>

(* isWorkflowAlreadySynced, with the row the worker found unfinished: only *)
(* a process instance already at one of the next stages counts as synced.  *)
CheckSynced(p) ==
    /\ proc[p].pc = "sync"
    /\ Goto(p, IF ~proc[p].effects.reject /\ proc[p].pi.stage \in Active
               THEN "synced" ELSE "read")
    /\ UNCHANGED <<db, fresh, sealed, pi, holder, late, done, alive, guard, faults>>

(* Mutant: the tasks Camunda still has are not looked at *)
AssumeNoTaskLeft(p) ==
    /\ proc[p].pc = "read"
    /\ Goto(p, IF proc[p].effects.reject THEN "cancel" ELSE "finish")
    /\ UNCHANGED <<db, fresh, sealed, pi, holder, late, done, alive, guard, faults>>

(* runApproveFlow asks Camunda what comes next; runRejectFlow deletes what *)
(* is left of the instance.                                                *)
ReadActiveTasks(p) ==
    /\ proc[p].pc = "read"
    /\ IF proc[p].effects.reject
       THEN /\ alive' = (alive /\ Active = {})
            /\ Goto(p, "cancel")
       ELSE /\ \/ /\ Active = {}
                  /\ Goto(p, "finish")
               \/ \E t \in Active :
                      proc' = [proc EXCEPT ![p].pc = "running", ![p].next = t]
            /\ UNCHANGED alive
    /\ UNCHANGED <<db, fresh, sealed, pi, holder, late, done, guard, faults>>

(* runApproveFlow, tasks left: the instance is put at the next stage in a  *)
(* statement of its own ...                                                *)
SetRunning(p) ==
    /\ proc[p].pc = "running"
    /\ pi' = [status |-> "running", stage |-> proc[p].next]
    /\ Goto(p, "advance")
    /\ UNCHANGED <<db, fresh, sealed, holder, late, done, alive, guard, faults>>

(* ... before the data is written, which a conflict refuses. *)
Advance(p) ==
    /\ proc[p].pc = "advance"
    /\ \/ InDate(p) /\ Checkpoint(p, proc[p].effects, "synced")
       \/ ~InDate(p) /\ Fail(p, "VERSION_CONFLICT") /\ UNCHANGED <<db, fresh>>
    /\ UNCHANGED <<sealed, pi, holder, late, done, alive, guard, faults>>

(* runApproveFlow with no task left, and runRejectFlow: both rows in one   *)
(* database transaction.  The version the caller goes on with is the old   *)
(* one.                                                                    *)
EndWorkflow(p, step, txStatus, piStatus) ==
    /\ proc[p].pc = step
    /\ \/ /\ InDate(p)
          /\ pi' = [status |-> piStatus, stage |-> NoTask]
          /\ db' = [db EXCEPT !.status = txStatus, !.saved = Frozen(proc[p].saved),
                              !.effects = proc[p].effects]
          /\ fresh' = {}
          /\ Goto(p, "synced")
       \/ /\ ~InDate(p)
          /\ Fail(p, "VERSION_CONFLICT")
          /\ UNCHANGED <<db, fresh, pi>>
    /\ UNCHANGED <<sealed, holder, late, done, alive, guard, faults>>

Finish(p) == EndWorkflow(p, "finish", "completed", "completed")

(* Mutant: both rows get the status of the instance *)
CancelBoth(p) == EndWorkflow(p, "cancel", "cancelled", "cancelled")

Cancel(p) == EndWorkflow(p, "cancel", "rejected", "cancelled")

(* The workflow_synced checkpoint *)
MarkSynced(p) ==
    /\ proc[p].pc = "synced"
    /\ Checkpoint(p, [proc[p].effects EXCEPT !.synced = TRUE], "unlock")
    /\ UNCHANGED <<sealed, pi, holder, late, done, alive, guard, faults>>

(* Mutant: the lock is kept *)
KeepLock(p) ==
    /\ proc[p].pc = "unlock"
    /\ Goto(p, "done")
    /\ UNCHANGED <<db, fresh, sealed, pi, holder, late, done, alive, guard, faults>>

(* releaseTaskLock does nothing to the lock of someone else. *)
ReleaseLock(p) ==
    /\ proc[p].pc = "unlock"
    /\ holder' = IF Holds(p) THEN [holder EXCEPT ![Task(p)] = NoUser] ELSE holder
    /\ Goto(p, "done")
    /\ UNCHANGED <<db, fresh, sealed, pi, late, done, alive, guard, faults>>

(* commit of the operation guard: the result is replayed from now on. *)
CommitGuard(r) == guard' = [guard EXCEPT !.inFlight = @ \ {Key(r)},
                                         !.replay = @ \cup {Key(r)}]

ReleaseGuard(r) == guard' = [guard EXCEPT !.inFlight = @ \ {Key(r)}]

(* The last checkpoint *)
MarkDone(p) ==
    /\ proc[p].pc = "done"
    /\ Persist(p, proc[p].saved,
               [proc[p].effects EXCEPT !.released = TRUE, !.service = TRUE,
                                       !.status = "completed"])
    /\ Leave(p)
    /\ IF p = Worker THEN UNCHANGED guard ELSE CommitGuard(p)
    /\ UNCHANGED <<sealed, pi, holder, late, done, alive, faults>>

-----------------------------------------------------------------------------
(* Failure *)

Breakable == {"save", "complete", "mark", "service", "sync", "read", "running",
              "advance", "finish", "cancel", "synced", "unlock", "done"}

(* A call fails without effect. *)
Break(p) ==
    /\ proc[p].pc \in Breakable
    /\ FaultHappens
    /\ Fail(p, "FAILURE")
    /\ UNCHANGED <<db, fresh, sealed, pi, holder, late, done, alive, guard>>

(* The catch block of completeTaskCore and of the worker: once Camunda has *)
(* completed the task the failure is stored for the recovery; if it cannot *)
(* be, it is only logged.  The data written may be an older copy than the  *)
(* last one, of before the checkpoint that failed.                         *)
RecordFailure(p) ==
    \/ /\ proc[p].effects.camunda \/ p = Worker
       /\ \E older \in SUBSET proc[p].saved :
              Persist(p, older, [proc[p].effects EXCEPT !.status = "failed"])
       /\ UNCHANGED faults
    \/ /\ proc[p].effects.camunda \/ p = Worker
       /\ FaultHappens
       /\ UNCHANGED <<db, fresh>>
    \/ /\ ~proc[p].effects.camunda /\ p # Worker
       /\ UNCHANGED <<db, fresh, faults>>

(* Refused before the guard was taken. *)
Unguarded == {"CONFLICT", "RATE_LIMITED", "DUPLICATE_IN_FLIGHT"}

(* A conflict after Camunda is answered like a success.  Everything else a *)
(* request fails with here is technical to isTechnicalWorkflowError.       *)
CatchFailure(r) ==
    /\ proc[r].pc = "caught"
    /\ RecordFailure(r)
    /\ IF proc[r].err = "VERSION_CONFLICT"
       THEN CommitGuard(r) /\ Leave(r)
       ELSE /\ Goto(r, "resolve")
            /\ IF proc[r].err \in Unguarded THEN UNCHANGED guard
               ELSE ReleaseGuard(r)
    /\ UNCHANGED <<sealed, pi, holder, late, done, alive>>

CatchInWorker ==
    /\ proc[Worker].pc = "caught"
    /\ RecordFailure(Worker)
    /\ Leave(Worker)
    /\ UNCHANGED <<sealed, pi, holder, late, done, alive, guard>>

(* handleWorkflowTechnicalFailure goes on after the answer is sent.  It    *)
(* finds the transaction through the task, so only while Camunda has it.   *)
ResolveFailure(r) ==
    /\ proc[r].pc = "resolve"
    /\ IF Task(r) \notin Active \/ db.status = "rejected" \/ db.failure # "none"
       THEN Leave(r)
       ELSE proc' = [proc EXCEPT ![r].pc = "delete", ![r].saved = db.saved,
                                 ![r].effects = db.effects, ![r].pi = pi]
    /\ UNCHANGED <<db, fresh, sealed, pi, holder, late, done, alive, guard, faults>>

(* rejectTransactionForTechnicalFailure deletes the instance, or fails to  *)
(* and goes on, ...                                                        *)
DeleteInstance(r) ==
    /\ proc[r].pc = "delete"
    /\ \/ /\ alive' = (alive /\ proc[r].pi.status = "cancelled")
          /\ UNCHANGED faults
       \/ FaultHappens /\ UNCHANGED alive
    /\ Goto(r, "check")
    /\ UNCHANGED <<db, fresh, sealed, pi, holder, late, done, guard>>

(* ... reads the row again, without a lock, ... *)
CheckStatus(r) ==
    /\ proc[r].pc = "check"
    /\ IF db.status # "in_progress" THEN Leave(r)
       ELSE proc' = [proc EXCEPT ![r].pc = "reject"]
    /\ fresh' = fresh \cup {r}
    /\ UNCHANGED <<db, sealed, pi, holder, late, done, alive, guard, faults>>

(* ... and rejects.  The data it writes is what it read first; a conflict  *)
(* only keeps the data from being written.                                 *)
RejectTransaction(r) ==
    /\ proc[r].pc = "reject"
    /\ pi' = [status |-> "cancelled", stage |-> NoTask]
    /\ holder' = [t \in Tasks |-> NoUser]
    /\ db' = IF InDate(r)
             THEN [status |-> "rejected", failure |-> proc[r].err,
                   saved |-> Frozen(proc[r].saved), effects |-> proc[r].effects]
             ELSE [db EXCEPT !.status = "rejected"]
    /\ fresh' = IF InDate(r) THEN {} ELSE fresh
    /\ Leave(r)
    /\ UNCHANGED <<sealed, late, done, alive, guard, faults>>

(* The handler itself fails, which is only logged. *)
HandlerBreaks(r) ==
    /\ proc[r].pc \in {"resolve", "check", "reject"}
    /\ FaultHappens
    /\ Leave(r)
    /\ UNCHANGED <<db, fresh, sealed, pi, holder, late, done, alive, guard>>

-----------------------------------------------------------------------------
(* Recovery *)

(* needsCompleteRecovery, and the query that finds the row *)
NeedsRecovery ==
    /\ db.status = "in_progress"
    /\ db.effects.camunda
    /\ ~db.effects.released
    /\ db.effects.status \in {"pending", "failed"}
    /\ db.effects.attempts < MaxAttempts

(* Mutant: only a completion that reported its failure is resumed *)
ResumeFailed ==
    LET attempt == db.effects.attempts + 1
    IN  /\ proc[Worker].pc = "idle"
        /\ NeedsRecovery
        /\ db.effects.status = "failed"
        /\ attempt < MaxAttempts
        /\ proc' = [proc EXCEPT ![Worker] =
               [pc |-> RecoveryStep(db.effects), saved |-> db.saved,
                next |-> NoTask, pi |-> pi, err |-> "none",
                effects |-> [db.effects EXCEPT !.attempts = attempt]]]
        /\ fresh' = fresh \cup {Worker}
        /\ UNCHANGED <<db, sealed, pi, holder, late, done, alive, guard, faults>>

(* resumeCompleteSideEffectsForTransaction.  The attempt is counted before *)
(* the step is chosen, and with the last one there is no step left.  The   *)
(* query does not tell a failed completion from one still under way.       *)
Resume ==
    LET attempt == db.effects.attempts + 1
    IN  /\ proc[Worker].pc = "idle"
        /\ NeedsRecovery
        /\ attempt < MaxAttempts
        /\ proc' = [proc EXCEPT ![Worker] =
               [pc |-> RecoveryStep(db.effects), saved |-> db.saved,
                next |-> NoTask, pi |-> pi, err |-> "none",
                effects |-> [db.effects EXCEPT !.attempts = attempt]]]
        /\ fresh' = fresh \cup {Worker}
        /\ UNCHANGED <<db, sealed, pi, holder, late, done, alive, guard, faults>>

(* The server dies and comes back: only the rows and Camunda remain. *)
Crash ==
    /\ FaultHappens
    /\ fresh' = {}
    /\ guard' = [inFlight |-> {}, recent |-> {}, replay |-> {}]
    /\ proc' = [p \in Procs |-> IF p = Worker \/ proc[p].pc = "idle" THEN Idle
                                ELSE Ended]
    /\ UNCHANGED <<db, sealed, pi, holder, late, done, alive>>

-----------------------------------------------------------------------------
Arrive(r) == \E u \in Users, t \in Tasks, reject \in BOOLEAN : Load(r, u, t, reject)

(* The steps requests and the worker have in common *)
Progress(p) ==
    \/ RunServiceTasks(p)
    \/ ReadActiveTasks(p)
    \/ SetRunning(p)
    \/ Advance(p)
    \/ Finish(p)
    \/ Cancel(p)
    \/ MarkSynced(p)
    \/ ReleaseLock(p)
    \/ MarkDone(p)

Handle(r) ==
    \/ Begin(r)
    \/ SaveLocal(r)
    \/ CompleteInCamunda(r)
    \/ MarkCamundaDone(r)
    \/ Progress(r)
    \/ CatchFailure(r)
    \/ ResolveFailure(r)
    \/ DeleteInstance(r)
    \/ CheckStatus(r)
    \/ RejectTransaction(r)

Work ==
    \/ Resume
    \/ CheckSynced(Worker)
    \/ Progress(Worker)
    \/ CatchInWorker

Next ==
    \/ \E t \in Tasks, u \in Users : PickUp(u, t) \/ TakeOver(u, t)
    \/ \E t \in Tasks : GiveUp(t)
    \/ \E r \in Requests : Arrive(r) \/ Handle(r) \/ HandlerBreaks(r)
    \/ Work
    \/ \E p \in Procs : Break(p)
    \/ Crash

(* A request that has begun goes on, and so does the job, which a timer    *)
(* starts again and again.  Nobody has to send a request.                  *)
Fairness == WF_vars(Work) /\ \A r \in Requests : WF_vars(Handle(r))

Spec == Init /\ [][Next]_vars /\ Fairness

-----------------------------------------------------------------------------
(* Properties *)

(* The stage's data is in the database before Camunda leaves the task, and *)
(* stays there whatever stale data a later writer sends: merges and the    *)
(* freezing of sealed stages make up for every lost race.                  *)
SavedBeforeDone == done \subseteq db.saved

(* No write of the row drops a stage, not even the handler's write of data *)
(* it read before the version it writes over.                              *)
NoStageLost == [][db.saved \subseteq db'.saved]_vars

(* A transaction is called completed only when Camunda offers nothing more *)
(* to do: the list of tasks was read before the row was written.           *)
CompletedMeansEnded == db.status = "completed" => Active = {}

(* What _complete_side_effects says has happened has happened, however the *)
(* flags of several attempts at a completion were merged: Camunda has left *)
(* the task, the rows are at what follows, and the employee does not hold  *)
(* the lock (unless he took it after the task's end).  A recovery that     *)
(* trusts the flags leaves no step out.  It is not so once the flags of    *)
(* two completions are mixed in the one record of a transaction.           *)
RecordTruthful ==
    LET e == db.effects
    IN  ~e.mixed =>
            /\ e.camunda => e.task \in done
            /\ e.synced => db.status # "in_progress" \/ pi.stage # NoTask
            /\ e.released => holder[e.task] # e.user \/ <<e.user, e.task>> \in late

(* A completion that is stored as unfinished is taken to its end by the    *)
(* job, up to the release of the lock, unless the transaction has ended    *)
(* first, the record is another task's or the attempts are used up.        *)
RecoveryEnds ==
    \A t \in Staffed :
        (NeedsRecovery /\ db.effects.task = t)
            ~> \/ db.effects.released
               \/ db.status # "in_progress"
               \/ db.effects.task # t
               \/ db.effects.attempts + 1 >= MaxAttempts

(* completeTaskCore.js:65: on failure after Camunda _complete_side_effects *)
(* is stored and resumed by completeRecoveryService.  It is not when the   *)
(* failure comes after the transaction's status was set: the job looks for *)
(* unfinished transactions only, and the task stays locked.                *)
FailureIsResumed ==
    \A t \in Staffed :
        (db.effects.camunda /\ db.effects.status = "failed" /\ db.effects.task = t)
            ~> db.effects.released

(* workflowTechnicalFailureHandlerService.js:3-5: a technical failure      *)
(* rejects the transaction and cancels the instance.  The request that was *)
(* not refused finds no task left and completes the transaction.           *)
RejectionIsFinal ==
    [][db.status = "rejected" => db'.status = "rejected"]_vars
=============================================================================
