------------------------------ MODULE TaskLock ------------------------------
(***************************************************************************)
(* The task lock of taskLockService.js and processInstanceTaskLocks.js:    *)
(* employees pick up, give up and complete the Camunda user tasks of one   *)
(* process instance.  The lock of a task is an entry of the JSON column    *)
(* task_locks of the process_instances row; the four older task_lock_*     *)
(* columns mirror one of the entries and are read when there is no entry.  *)
(* Every operation locks the row (SELECT ... FOR UPDATE) for the length of *)
(* its database transaction, and talks to Camunda outside of it, except    *)
(* releaseTaskLock, which unclaims before it commits.                      *)
(*                                                                         *)
(* acquireTaskLock writes no expires_at, so a JSON entry never expires     *)
(* and clearExpiredTaskLocksOnInstance finds nothing to clear; a deadline  *)
(* is found only in the older columns of a row locked before the JSON      *)
(* column existed (migration 20260727140000 starts it at {}).              *)
(***************************************************************************)
EXTENDS FiniteSets

CONSTANTS
    Users,          \* employees
    Tasks,          \* the user tasks of the process instance
    Edited,         \* the tasks whose access is restricted and may change
    Requests,       \* HTTP requests the server handles at the same time
    NoUser, NoTask, NoRequest

ASSUME TaskAssumption == NoTask \notin Tasks
ASSUME UserAssumption == NoUser \notin Users
ASSUME RequestAssumption == NoRequest \notin Requests

VARIABLES
    locks,      \* task_locks: the user of each task's entry
    legacy,     \* the columns task_lock_task_id, _user_id and _expires_at
    rowLock,    \* the request whose open transaction holds the row
    active,     \* the tasks Camunda offers
    waiting,    \* the tasks it has not reached
    assignee,   \* whom Camunda names as a task's assignee
    allowed,    \* the users with access to each task's stage
    rejected,   \* whether the technical-failure handler has rejected
    req         \* what each request is doing

vars == <<locks, legacy, rowLock, active, waiting, assignee, allowed, rejected, req>>

Deadlines == {"never", "future", "past"}
Steps == {"idle", "acquire", "claim", "strict", "unclaim", "assert", "edit",
          "unlock", "commit"}

(* Mutant: the columns swapped *)
LegacySwapped == [task |-> NoUser, user |-> NoTask, deadline |-> "never"]

NoLegacy == [task |-> NoTask, user |-> NoUser, deadline |-> "never"]
Idle == [pc |-> "idle", user |-> NoUser, task |-> NoTask]

TypeOK ==
    /\ locks \in [Tasks -> Users \cup {NoUser}]
    /\ legacy \in [task : Tasks \cup {NoTask}, user : Users \cup {NoUser},
                   deadline : Deadlines]
    /\ rowLock \in Requests \cup {NoRequest}
    /\ active \in SUBSET Tasks
    /\ waiting \in SUBSET Tasks
    /\ assignee \in [Tasks -> Users \cup {NoUser}]
    /\ allowed \in [Tasks -> SUBSET Users]
    /\ rejected \in BOOLEAN
    /\ req \in [Requests -> [pc : Steps, user : Users \cup {NoUser},
                             task : Tasks \cup {NoTask}]]

-----------------------------------------------------------------------------
(* Reading a lock *)

(* getTaskLockEntry, then isTaskLockExpired: the user whose unexpired lock *)
(* the code sees on task t.                                                *)
LockUser(t) ==
    IF locks[t] # NoUser THEN locks[t]
    ELSE IF legacy.task = t /\ legacy.deadline # "past" THEN legacy.user
    ELSE NoUser

LockedByOther(t, u) == LockUser(t) \notin {NoUser, u}

LockedByUser(t, u) == LockUser(t) = u

(* Mutant: the older columns are not written *)
UpdateEntriesOnly(newLocks) == locks' = newLocks /\ UNCHANGED legacy

(* Writing the locks: updateTaskLocks stores the entries and mirrors one   *)
(* of them (the first in key order) in the older columns.                  *)
Mirror(newLocks, newLegacy) ==
    IF \A t \in Tasks : newLocks[t] = NoUser
    THEN newLegacy = NoLegacy
    ELSE /\ newLegacy.task \in Tasks
         /\ newLocks[newLegacy.task] # NoUser
         /\ newLegacy = [task |-> newLegacy.task, deadline |-> "never",
                         user |-> newLocks[newLegacy.task]]

UpdateTaskLocks(newLocks) ==
    /\ locks' = newLocks
    /\ legacy' \in {NoLegacy} \cup [task : Tasks, user : Users, deadline : {"never"}]
    /\ Mirror(newLocks, legacy')

Become(r, step) == req' = [req EXCEPT ![r].pc = step]

Finish(r) == req' = [req EXCEPT ![r] = Idle]

RowFree == rowLock = NoRequest

-----------------------------------------------------------------------------
(* A row may come from the release without the JSON column: its older      *)
(* columns then hold the one lock an instance could have, whatever other   *)
(* branches are open, and task_locks is empty.                             *)
Init ==
    /\ locks = [t \in Tasks |-> NoUser]
    /\ rowLock = NoRequest
    /\ active \in SUBSET Tasks \ {{}}
    /\ waiting = Tasks \ active
    /\ legacy \in {NoLegacy} \cup
           [task : active, user : Users, deadline : Deadlines]
    /\ assignee = [t \in Tasks |-> NoUser]
    /\ allowed \in [Tasks -> SUBSET Users]
    /\ \A t \in Tasks \ Edited : allowed[t] = Users
    /\ rejected = FALSE
    /\ req = [r \in Requests |-> Idle]

(* pickupTask: the task is read from Camunda and the row without a lock; a *)
(* request that sees another user's lock is refused at once.               *)
Pickup(r, u, t) ==
    /\ req[r].pc = "idle"
    /\ t \in active
    /\ ~LockedByOther(t, u)
    /\ req' = [req EXCEPT ![r] = [pc |-> "acquire", user |-> u, task |-> t]]
    /\ UNCHANGED <<locks, legacy, rowLock, active, waiting, assignee, allowed, rejected>>

(* resolveDocumentSubmitTask: an active task of a stage the user may work  *)
(* on is locked without a look at the present lock, while the instance is  *)
(* running.                                                                *)
ResolveDocumentSubmit(r, u, t) ==
    /\ req[r].pc = "idle"
    /\ ~rejected
    /\ t \in active
    /\ u \in allowed[t]
    /\ req' = [req EXCEPT ![r] = [pc |-> "acquire", user |-> u, task |-> t]]
    /\ UNCHANGED <<locks, legacy, rowLock, active, waiting, assignee, allowed, rejected>>

(* releaseTask: the employee gives the task up. *)
ReleaseTask(r, u, t) ==
    /\ req[r].pc = "idle"
    /\ t \in active
    /\ req' = [req EXCEPT ![r] = [pc |-> "strict", user |-> u, task |-> t]]
    /\ UNCHANGED <<locks, legacy, rowLock, active, waiting, assignee, allowed, rejected>>

(* loadCompleteTaskContext: a completion starts with the task in Camunda. *)
CompleteTask(r, u, t) ==
    /\ req[r].pc = "idle"
    /\ t \in active
    /\ req' = [req EXCEPT ![r] = [pc |-> "assert", user |-> u, task |-> t]]
    /\ UNCHANGED <<locks, legacy, rowLock, active, waiting, assignee, allowed, rejected>>

-----------------------------------------------------------------------------
(* Mutant: the access of the holder is not looked at *)
NobodySeenBy(t, u) == IF LockedByOther(t, u) THEN NoUser ELSE LockUser(t)

(* clearLockIfHolderLostStageAccess, on the entries read under the row     *)
(* lock: whose lock of t is left when u asks for it.                       *)
HolderSeenBy(t, u) ==
    IF LockedByOther(t, u) /\ LockUser(t) \notin allowed[t] THEN NoUser
    ELSE LockUser(t)

(* acquireTaskLock up to its commit.  The losing request is refused and    *)
(* its transaction rolled back.                                            *)
Acquire(r) ==
    LET t == req[r].task
        u == req[r].user
    IN  /\ req[r].pc = "acquire"
        /\ RowFree
        /\ IF HolderSeenBy(t, u) \in {NoUser, u}
           THEN UpdateTaskLocks([locks EXCEPT ![t] = u]) /\ Become(r, "claim")
           ELSE UNCHANGED <<locks, legacy>> /\ Finish(r)
        /\ UNCHANGED <<rowLock, active, waiting, assignee, allowed, rejected>>

(* acquireTaskLock after its commit: Camunda refuses the claim of a task   *)
(* assigned to another user or no longer there, the call may be lost, and  *)
(* every failure is ignored.                                               *)
Claim(r) ==
    LET t == req[r].task
        u == req[r].user
    IN  /\ req[r].pc = "claim"
        /\ \/ /\ t \in active
              /\ assignee[t] \in {NoUser, u}
              /\ assignee' = [assignee EXCEPT ![t] = u]
           \/ UNCHANGED assignee
        /\ Finish(r)
        /\ UNCHANGED <<locks, legacy, rowLock, active, waiting, allowed, rejected>>

(* releaseTaskLockStrict up to its commit: refused unless the user holds   *)
(* the lock.                                                               *)
ReleaseStrict(r) ==
    LET t == req[r].task
        u == req[r].user
    IN  /\ req[r].pc = "strict"
        /\ RowFree
        /\ IF LockedByUser(t, u)
           THEN UpdateTaskLocks([locks EXCEPT ![t] = NoUser]) /\ Become(r, "unclaim")
           ELSE UNCHANGED <<locks, legacy>> /\ Finish(r)
        /\ UNCHANGED <<rowLock, active, waiting, assignee, allowed, rejected>>

(* Camunda forgets the assignee of an active task, whoever it is. *)
Unclaimed(t) == assignee' = IF t \in active THEN [assignee EXCEPT ![t] = NoUser]
                            ELSE assignee

(* releaseTaskLockStrict after its commit; a lost call is ignored. *)
Unclaim(r) ==
    /\ req[r].pc = "unclaim"
    /\ Unclaimed(req[r].task) \/ UNCHANGED assignee
    /\ Finish(r)
    /\ UNCHANGED <<locks, legacy, rowLock, active, waiting, allowed, rejected>>

(* assertTaskLockHolder: the transaction only checks.  The row is free     *)
(* again when the completion goes on.                                      *)
AssertTaskLockHolder(r) ==
    /\ req[r].pc = "assert"
    /\ RowFree
    /\ IF LockedByUser(req[r].task, req[r].user) THEN Become(r, "edit") ELSE Finish(r)
    /\ UNCHANGED <<locks, legacy, rowLock, active, waiting, assignee, allowed, rejected>>

(* completeCamundaTaskWithVariables: Camunda takes the task and moves on,  *)
(* or refuses because the task is gone.                                    *)
CompleteInCamunda(r) ==
    LET t == req[r].task
    IN  /\ req[r].pc = "edit"
        /\ IF t \in active
           THEN /\ active' = (active \ {t}) \cup waiting
                /\ waiting' = {}
                /\ assignee' = [assignee EXCEPT ![t] = NoUser]
                /\ Become(r, "unlock")
           ELSE Finish(r) /\ UNCHANGED <<active, waiting, assignee>>
        /\ UNCHANGED <<locks, legacy, rowLock, allowed, rejected>>

(* releaseTaskLock: the transaction stays open, with the row locked,       *)
(* across the call to Camunda ...                                          *)
BeginReleaseTaskLock(r) ==
    /\ req[r].pc = "unlock"
    /\ RowFree
    /\ IF LockedByUser(req[r].task, req[r].user)
       THEN rowLock' = r /\ Become(r, "commit")
       ELSE rowLock' = rowLock /\ Finish(r)
    /\ UNCHANGED <<locks, legacy, active, waiting, assignee, allowed, rejected>>

(* Mutant: the transaction is never committed *)
ForgetToCommit(r) ==
    /\ req[r].pc = "commit"
    /\ rowLock = r
    /\ UpdateTaskLocks([locks EXCEPT ![req[r].task] = NoUser])
    /\ UNCHANGED rowLock
    /\ Finish(r)
    /\ UNCHANGED <<active, waiting, assignee, allowed, rejected>>

(* ... and commits the removal once the call has come back. *)
CommitReleaseTaskLock(r) ==
    LET t == req[r].task
    IN  /\ req[r].pc = "commit"
        /\ rowLock = r
        /\ Unclaimed(t) \/ UNCHANGED assignee
        /\ UpdateTaskLocks([locks EXCEPT ![t] = NoUser])
        /\ rowLock' = NoRequest
        /\ Finish(r)
        /\ UNCHANGED <<active, waiting, allowed, rejected>>

-----------------------------------------------------------------------------
(* The deadline of a lock taken before the JSON column passes. *)
DeadlinePasses ==
    /\ legacy.deadline = "future"
    /\ legacy' = [legacy EXCEPT !.deadline = "past"]
    /\ UNCHANGED <<locks, rowLock, active, waiting, assignee, allowed, rejected, req>>

(* An administrator changes who may work on a stage. *)
ChangeAccess(t, us) ==
    /\ t \in Edited
    /\ us # allowed[t]
    /\ allowed' = [allowed EXCEPT ![t] = us]
    /\ UNCHANGED <<locks, legacy, rowLock, active, waiting, assignee, rejected, req>>

(* The Camunda process instance is deleted.  The call of the failure       *)
(* handler may also fail, which is swallowed, or be skipped: then this     *)
(* step is not taken and ClearAllLocks is.                                 *)
DeleteProcessInstance ==
    /\ active # {}
    /\ active' = {}
    /\ waiting' = {}
    /\ assignee' = [t \in Tasks |-> NoUser]
    /\ UNCHANGED <<locks, legacy, rowLock, allowed, rejected, req>>

(* rejectTransactionForTechnicalFailure then clears the columns, whatever  *)
(* has become of the tasks, in one UPDATE that waits for the row; what is  *)
(* rejected already it leaves alone.                                       *)
ClearAllLocks ==
    /\ ~rejected
    /\ RowFree
    /\ rejected' = TRUE
    /\ locks' = [t \in Tasks |-> NoUser]
    /\ legacy' = NoLegacy
    /\ UNCHANGED <<rowLock, active, waiting, assignee, allowed, req>>

(* The server process dies: PostgreSQL rolls the open transaction back and *)
(* what requests had left to do is lost.                                   *)
Crash ==
    /\ rowLock' = NoRequest
    /\ req' = [r \in Requests |-> Idle]
    /\ UNCHANGED <<locks, legacy, active, waiting, assignee, allowed, rejected>>

-----------------------------------------------------------------------------
Arrive(r) ==
    \E u \in Users, t \in Tasks :
        \/ Pickup(r, u, t)
        \/ ResolveDocumentSubmit(r, u, t)
        \/ ReleaseTask(r, u, t)
        \/ CompleteTask(r, u, t)

Handle(r) ==
    \/ Acquire(r)
    \/ Claim(r)
    \/ ReleaseStrict(r)
    \/ Unclaim(r)
    \/ AssertTaskLockHolder(r)
    \/ CompleteInCamunda(r)
    \/ BeginReleaseTaskLock(r)
    \/ CommitReleaseTaskLock(r)

Surroundings ==
    \/ DeadlinePasses
    \/ \E t \in Tasks, us \in SUBSET Users : ChangeAccess(t, us)
    \/ DeleteProcessInstance
    \/ ClearAllLocks
    \/ Crash

Next == (\E r \in Requests : Arrive(r) \/ Handle(r)) \/ Surroundings

(* A running server goes on with the requests it has.  Strong fairness: a  *)
(* transaction that waits for the row is in PostgreSQL's queue for it.     *)
Fairness == \A r \in Requests : SF_vars(Handle(r))

Spec == Init /\ [][Next]_vars /\ Fairness

-----------------------------------------------------------------------------
(* Properties *)

(* A lock appears only by the request of the employee who then holds it:  *)
(* one that was released, taken over or cleared never comes back through   *)
(* getTaskLockEntry's fallback to the older columns.                       *)
LocksAreAsked ==
    [][\A t \in Tasks :
         LockUser(t)' \notin {NoUser, LockUser(t)} =>
           \E r \in Requests :
             req[r] = [pc |-> "acquire", user |-> LockUser(t)', task |-> t]]_vars

(* The requests by which a user gives up a task. *)
GivingUp == {"strict", "commit"}

LeaseHolder == [t \in Tasks |-> LockUser(t)]

LeaseAsked == {<<req[r].user, req[r].task>> :
                  r \in {q \in Requests : req[q].pc \in GivingUp}}

LeaseTimed == {t \in Tasks : legacy.task = t /\ legacy.deadline = "future"}

LeaseOld == {t \in Tasks : legacy.task = t /\ locks[t] = NoUser}

AbstractLease == INSTANCE Lease WITH
    holder <- LeaseHolder, asked <- LeaseAsked, timed <- LeaseTimed, old <- LeaseOld

(* The lock implements the lease: nobody takes a task from an employee who *)
(* still has access to it, whatever the interleaving of the requests of    *)
(* both and wherever the server dies, but for what the lease names: the    *)
(* transaction is rejected, or the lock is one of the older release and a  *)
(* parallel task is picked up.                                             *)
ImplementsLease == AbstractLease!Spec

(* No request waits for the row for ever. *)
RequestsEnd ==
    \A r \in Requests : req[r].pc # "idle" ~> req[r].pc = "idle"
=============================================================================
