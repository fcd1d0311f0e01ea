--------------------------- MODULE TaskLockProofs ---------------------------
(***************************************************************************)
(* The task lock implements the lease for any number of employees, tasks   *)
(* and requests.  The inductive invariant says three things beyond the     *)
(* types: requests in progress name a user and a task, a row lock is held  *)
(* exactly by the request about to commit a release, of a lock nobody else *)
(* has come to hold, and the older columns either mirror the JSON column   *)
(* or are still those of the older release, with no entry written yet.     *)
(***************************************************************************)
EXTENDS TaskLock, TLAPS

RequestsNamed ==
    \A r \in Requests : req[r].pc # "idle" => req[r].user \in Users /\ req[r].task \in Tasks

RowLockOwner ==
    \A r \in Requests :
        /\ req[r].pc = "commit" <=> rowLock = r
        /\ req[r].pc = "commit" =>
             /\ LockUser(req[r].task) \in {NoUser, req[r].user}
             /\ Mirror(locks, legacy) \/ legacy.task = req[r].task

NoEntries == \A t \in Tasks : locks[t] = NoUser

IInv ==
    /\ TypeOK
    /\ RequestsNamed
    /\ RowLockOwner
    /\ Mirror(locks, legacy) \/ NoEntries

-----------------------------------------------------------------------------
(* Once the columns mirror the entries, reading a lock is reading its      *)
(* entry: the fallback to the older columns finds nothing.                 *)
LEMMA MirroredLockUser ==
    ASSUME Mirror(locks, legacy)
    PROVE  \A t \in Tasks : LockUser(t) = locks[t]
  BY TaskAssumption DEF Mirror, NoLegacy, LockUser

(* updateTaskLocks leaves the row well typed and mirrored. *)
LEMMA UpdateMirrors ==
    ASSUME NEW n \in [Tasks -> Users \cup {NoUser}], UpdateTaskLocks(n)
    PROVE  /\ locks' = n
           /\ locks' \in [Tasks -> Users \cup {NoUser}]
           /\ legacy' \in [task : Tasks \cup {NoTask}, user : Users \cup {NoUser},
                            deadline : Deadlines]
           /\ Mirror(locks, legacy)'
           /\ \A t \in Tasks : LockUser(t)' = n[t]
  <1>1. locks' = n /\ Mirror(n, legacy')
    BY DEF UpdateTaskLocks
  <1>2. legacy' \in [task : Tasks \cup {NoTask}, user : Users \cup {NoUser},
                     deadline : Deadlines]
    BY DEF UpdateTaskLocks, NoLegacy, Deadlines
  <1>3. \A t \in Tasks : LockUser(t)' = n[t]
    BY <1>1, TaskAssumption DEF Mirror, NoLegacy, LockUser
  <1> QED
    BY <1>1, <1>2, <1>3 DEF Mirror

(* The initial states satisfy the invariant. *)
LEMMA InitInvariant == Init => IInv
  <1> SUFFICES ASSUME Init PROVE IInv
    OBVIOUS
  <1> USE DEF Init, NoLegacy, Idle
  <1>1. TypeOK
    <2>1. legacy \in [task : Tasks \cup {NoTask}, user : Users \cup {NoUser},
                     deadline : Deadlines]
      BY DEF Deadlines
    <2>2. req \in [Requests -> [pc : Steps, user : Users \cup {NoUser},
                               task : Tasks \cup {NoTask}]]
      BY DEF Steps
    <2> QED
      BY <2>1, <2>2 DEF TypeOK
  <1>2. RequestsNamed
    BY DEF RequestsNamed
  <1>3. RowLockOwner
    BY RequestAssumption DEF RowLockOwner
  <1>4. Mirror(locks, legacy) \/ NoEntries
    <2>1. CASE legacy = NoLegacy
      BY <2>1 DEF Mirror
    <2>2. CASE legacy # NoLegacy
      BY <2>2 DEF NoEntries
    <2> QED
      BY <2>1, <2>2
  <1> QED
    BY <1>1, <1>2, <1>3, <1>4 DEF IInv

-----------------------------------------------------------------------------
(* Every step keeps the invariant. *)
LEMMA NextInvariant == IInv /\ [Next]_vars => IInv'
  <1> SUFFICES ASSUME IInv, [Next]_vars PROVE IInv'
    OBVIOUS
  <1> USE TaskAssumption, UserAssumption, RequestAssumption
  <1> DEFINE Rows == Mirror(locks, legacy) \/ NoEntries
  <1>0. TypeOK /\ RequestsNamed /\ RowLockOwner /\ Rows
    BY DEF IInv
  <1>1. ASSUME NEW r \in Requests, NEW u \in Users, NEW t \in Tasks,
               \/ Pickup(r, u, t)
               \/ ResolveDocumentSubmit(r, u, t)
               \/ ReleaseTask(r, u, t)
               \/ CompleteTask(r, u, t)
        PROVE  IInv'
    <2>1. PICK step \in {"acquire", "strict", "assert"} :
             /\ req[r].pc = "idle"
             /\ t \in active
             /\ req' = [req EXCEPT ![r] = [pc |-> step, user |-> u, task |-> t]]
             /\ UNCHANGED <<locks, legacy, rowLock, active, waiting, assignee, allowed, rejected>>
      BY <1>1 DEF Pickup, ResolveDocumentSubmit, ReleaseTask, CompleteTask
    <2>2. TypeOK'
      BY <1>0, <2>1 DEF TypeOK, Steps
    <2>3. RequestsNamed'
      BY <1>0, <2>1 DEF TypeOK, RequestsNamed
    <2>4. RowLockOwner'
      BY <1>0, <2>1 DEF TypeOK, RowLockOwner, LockUser
    <2>5. Rows'
      <3>1. CASE Mirror(locks, legacy)
        BY <3>1, <2>1 DEF Mirror
      <3>2. CASE NoEntries
        BY <3>2, <1>0, <2>1 DEF NoEntries, TypeOK
      <3> QED
        BY <1>0, <3>1, <3>2
    <2> QED
      BY <1>0, <2>1, <2>2, <2>3, <2>4, <2>5 DEF IInv
  <1>2. ASSUME NEW r \in Requests, Acquire(r)
        PROVE  IInv'
    <2> DEFINE n == [locks EXCEPT ![req[r].task] = req[r].user]
    <2>1. CASE UpdateTaskLocks(n) /\ Become(r, "claim")
      <3>1. n \in [Tasks -> Users \cup {NoUser}]
        BY <1>0, <1>2 DEF TypeOK, RequestsNamed, Acquire
      <3>2. /\ locks' = n
            /\ legacy' \in [task : Tasks \cup {NoTask}, user : Users \cup {NoUser},
                             deadline : Deadlines]
            /\ Mirror(locks, legacy)'
        BY <2>1, <3>1, UpdateMirrors
      <3>3. TypeOK'
        BY <1>0, <1>2, <2>1, <3>1, <3>2 DEF TypeOK, Acquire, Become, Steps
      <3>4. RequestsNamed'
        BY <1>0, <1>2, <2>1 DEF TypeOK, RequestsNamed, Acquire, Become
      <3>5. RowLockOwner'
        BY <1>0, <1>2, <2>1 DEF TypeOK, RowLockOwner, Acquire, Become, RowFree
      <3> QED
        BY <1>0, <1>2, <3>2, <3>3, <3>4, <3>5 DEF IInv, Acquire
    <2>2. CASE UNCHANGED <<locks, legacy>> /\ Finish(r)
      BY <1>0, <1>2, <2>2
      DEF IInv, TypeOK, Steps, RequestsNamed, RowLockOwner, LockUser, Acquire, Finish,
          Idle, RowFree, Mirror, NoEntries
    <2> QED
      BY <1>2, <2>1, <2>2 DEF Acquire
  <1>3. ASSUME NEW r \in Requests, Claim(r) \/ Unclaim(r)
        PROVE  IInv'
    <2>1. /\ req[r].pc \in {"claim", "unclaim"}
          /\ Finish(r)
          /\ assignee' \in [Tasks -> Users \cup {NoUser}]
          /\ UNCHANGED <<locks, legacy, rowLock, active, waiting, allowed, rejected>>
      BY <1>0, <1>3 DEF Claim, Unclaim, Unclaimed, TypeOK, RequestsNamed
    <2> QED
      BY <1>0, <2>1 DEF IInv, TypeOK, Steps, RequestsNamed, RowLockOwner, LockUser, Mirror,
          NoEntries, Finish, Idle
  <1>4. ASSUME NEW r \in Requests, ReleaseStrict(r)
        PROVE  IInv'
    <2> DEFINE n == [locks EXCEPT ![req[r].task] = NoUser]
    <2>1. CASE UpdateTaskLocks(n) /\ Become(r, "unclaim")
      <3>1. n \in [Tasks -> Users \cup {NoUser}]
        BY <1>0 DEF TypeOK
      <3>2. /\ locks' = n
            /\ legacy' \in [task : Tasks \cup {NoTask}, user : Users \cup {NoUser},
                             deadline : Deadlines]
            /\ Mirror(locks, legacy)'
        BY <2>1, <3>1, UpdateMirrors
      <3>3. TypeOK'
        BY <1>0, <1>4, <2>1, <3>1, <3>2 DEF TypeOK, ReleaseStrict, Become, Steps
      <3>4. RequestsNamed'
        BY <1>0, <1>4, <2>1 DEF TypeOK, RequestsNamed, ReleaseStrict, Become
      <3>5. RowLockOwner'
        BY <1>0, <1>4, <2>1 DEF TypeOK, RowLockOwner, ReleaseStrict, Become, RowFree
      <3> QED
        BY <1>0, <1>4, <3>2, <3>3, <3>4, <3>5 DEF IInv, ReleaseStrict
    <2>2. CASE UNCHANGED <<locks, legacy>> /\ Finish(r)
      BY <1>0, <1>4, <2>2 DEF IInv, TypeOK, Steps, RequestsNamed, RowLockOwner, LockUser,
          Mirror, NoEntries, ReleaseStrict, Finish, Idle, RowFree
    <2> QED
      BY <1>4, <2>1, <2>2 DEF ReleaseStrict
  <1>5. ASSUME NEW r \in Requests, AssertTaskLockHolder(r)
        PROVE  IInv'
    <2>1. TypeOK' /\ RequestsNamed'
      <3>1. TypeOK'
        BY <1>0, <1>5 DEF TypeOK, Steps, AssertTaskLockHolder, Become, Finish, Idle
      <3>2. RequestsNamed'
        BY <1>0, <1>5 DEF TypeOK, RequestsNamed, AssertTaskLockHolder, Become, Finish, Idle
      <3> QED
        BY <3>1, <3>2
    <2>2. UNCHANGED <<locks, legacy, rowLock>>
      BY <1>5 DEF AssertTaskLockHolder
    <2>3. \A q \in Requests : req'[q].pc # "commit" \/ req'[q] = req[q]
      BY <1>0, <1>5 DEF TypeOK, AssertTaskLockHolder, Become, Finish, Idle
    <2>4. \A q \in Requests : req[q].pc = "commit" => req'[q] = req[q]
      BY <1>0, <1>5 DEF TypeOK, AssertTaskLockHolder, Become, Finish, Idle
    <2>5. RowLockOwner' /\ Rows'
      BY <1>0, <2>2, <2>3, <2>4 DEF RowLockOwner, LockUser, Mirror, NoEntries
    <2> QED
      BY <2>1, <2>5 DEF IInv
  <1>6. ASSUME NEW r \in Requests, CompleteInCamunda(r)
        PROVE  IInv'
    <2>1. TypeOK' /\ RequestsNamed'
      BY <1>0, <1>6 DEF TypeOK, Steps, RequestsNamed, CompleteInCamunda, Become, Finish, Idle
    <2>2. RowLockOwner'
      <3>1. UNCHANGED <<locks, legacy, rowLock>>
        BY <1>6 DEF CompleteInCamunda
      <3>2. \A q \in Requests : req'[q].pc # "commit" \/ req'[q] = req[q]
        BY <1>0, <1>6 DEF TypeOK, CompleteInCamunda, Become, Finish, Idle
      <3>3. \A q \in Requests : req[q].pc = "commit" => req'[q] = req[q]
        BY <1>0, <1>6 DEF TypeOK, CompleteInCamunda, Become, Finish, Idle
      <3> QED
        BY <1>0, <3>1, <3>2, <3>3 DEF RowLockOwner, LockUser, Mirror
    <2>3. Rows'
      <3>1. CASE Mirror(locks, legacy)
        BY <3>1, <1>6 DEF CompleteInCamunda, Mirror
      <3>2. CASE NoEntries
        BY <3>2, <1>0, <1>6
        DEF NoEntries, TypeOK, CompleteInCamunda, Become, Finish, Idle
      <3> QED
        BY <1>0, <3>1, <3>2
    <2> QED
      BY <2>1, <2>2, <2>3 DEF IInv
  <1>7. ASSUME NEW r \in Requests, BeginReleaseTaskLock(r)
        PROVE  IInv'
    <2>1. TypeOK' /\ RequestsNamed'
      BY <1>0, <1>7
      DEF TypeOK, Steps, RequestsNamed, BeginReleaseTaskLock, Become, Finish, Idle
    <2>2. RowLockOwner'
      <3> DEFINE Held(q) == /\ LockUser(req[q].task) \in {NoUser, req[q].user}
                            /\ Mirror(locks, legacy) \/ legacy.task = req[q].task
      <3>1. UNCHANGED <<locks, legacy>>
        BY <1>7 DEF BeginReleaseTaskLock
      <3>2. CASE LockedByUser(req[r].task, req[r].user) /\ rowLock' = r /\ Become(r, "commit")
        <4>1. req[r].user \in Users /\ req[r].task \in Tasks
          BY <1>0, <1>7 DEF RequestsNamed, BeginReleaseTaskLock
        <4>2. Held(r)
          BY <1>0, <3>2, <4>1 DEF LockedByUser, LockUser, NoEntries
        <4>3. \A q \in Requests : q # r => req[q].pc # "commit" /\ req'[q] = req[q]
          BY <1>0, <1>7, <3>2 DEF TypeOK, RowLockOwner, Become, BeginReleaseTaskLock, RowFree
        <4>4. /\ req'[r].pc = "commit"
              /\ req'[r].task = req[r].task
              /\ req'[r].user = req[r].user
          BY <1>0, <3>2 DEF TypeOK, Become
        <4>5. Held(r)'
          BY <3>1, <4>2, <4>4 DEF LockUser, Mirror
        <4> QED
          BY <3>2, <4>3, <4>4, <4>5 DEF RowLockOwner
      <3>3. CASE rowLock' = rowLock /\ Finish(r)
        <4>1. \A q \in Requests : req'[q].pc # "commit"
          BY <1>0, <1>7, <3>3 DEF TypeOK, RowLockOwner, Finish, Idle, BeginReleaseTaskLock,
              RowFree
        <4> QED
          BY <1>7, <3>3, <4>1 DEF RowLockOwner, BeginReleaseTaskLock, RowFree
      <3> QED
        BY <1>7, <3>2, <3>3 DEF BeginReleaseTaskLock
    <2>3. Rows'
      BY <1>0, <1>7 DEF NoEntries, Mirror, TypeOK, BeginReleaseTaskLock,
          Become, Finish, Idle
    <2> QED
      BY <2>1, <2>2, <2>3 DEF IInv
  <1>8. ASSUME NEW r \in Requests, CommitReleaseTaskLock(r)
        PROVE  IInv'
    <2> DEFINE n == [locks EXCEPT ![req[r].task] = NoUser]
    <2>1. n \in [Tasks -> Users \cup {NoUser}]
      BY <1>0 DEF TypeOK
    <2>2. /\ locks' = n
          /\ legacy' \in [task : Tasks \cup {NoTask}, user : Users \cup {NoUser},
                           deadline : Deadlines]
          /\ Mirror(locks, legacy)'
      BY <1>8, <2>1, UpdateMirrors DEF CommitReleaseTaskLock
    <2>3. TypeOK'
      BY <1>0, <1>8, <2>1, <2>2
      DEF TypeOK, CommitReleaseTaskLock, Unclaimed, Finish, Idle, Steps
    <2>4. RequestsNamed'
      BY <1>0, <1>8 DEF TypeOK, RequestsNamed, CommitReleaseTaskLock, Finish, Idle
    <2>5. RowLockOwner'
      BY <1>0, <1>8 DEF TypeOK, RowLockOwner, CommitReleaseTaskLock, Finish, Idle
    <2> QED
      BY <1>0, <1>8, <2>2, <2>3, <2>4, <2>5 DEF IInv, CommitReleaseTaskLock
  <1>9. CASE DeadlinePasses
    <2>1. TypeOK' /\ RequestsNamed'
      BY <1>0, <1>9 DEF TypeOK, Deadlines, RequestsNamed, DeadlinePasses
    <2>2. ~Mirror(locks, legacy)
      BY <1>9 DEF Mirror, NoLegacy, DeadlinePasses
    <2>3. legacy'.task = legacy.task /\ UNCHANGED <<req, rowLock>>
      BY <1>0, <1>9 DEF TypeOK, DeadlinePasses
    <2>4. \A t \in Tasks : LockUser(t)' \in {NoUser, LockUser(t)}
      BY <1>0, <1>9 DEF TypeOK, LockUser, DeadlinePasses
    <2>5. RowLockOwner'
      <3>1. \A q \in Requests : req[q].pc = "commit" => legacy.task = req[q].task
        BY <1>0, <2>2 DEF RowLockOwner
      <3>2. ASSUME NEW q \in Requests, NEW t \in Tasks, req[q].pc = "commit", req[q].task = t
            PROVE  LockUser(t)' \in {NoUser, req[q].user}
        <4>1. LockUser(t) \in {NoUser, req[q].user}
          BY <1>0, <3>2 DEF RowLockOwner
        <4> QED
          BY <2>4, <4>1
      <3>3. \A q \in Requests : req[q].pc = "commit" => req[q].task \in Tasks
        BY <1>0 DEF RequestsNamed
      <3>4. \A q \in Requests :
               req[q].pc = "commit" => LockUser(req[q].task)' \in {NoUser, req'[q].user}
        BY <2>3, <3>2, <3>3 DEF LockUser
      <3> QED
        BY <1>0, <2>3, <3>1, <3>4 DEF RowLockOwner
    <2>6. NoEntries'
      BY <1>0, <1>9, <2>2 DEF NoEntries, TypeOK, DeadlinePasses
    <2> QED
      BY <2>1, <2>5, <2>6 DEF IInv
  <1>10. ASSUME NEW t \in Tasks, NEW us \in SUBSET Users, ChangeAccess(t, us)
         PROVE  IInv'
    BY <1>0, <1>10 DEF IInv, TypeOK, RequestsNamed, RowLockOwner, LockUser, Mirror,
        NoEntries, ChangeAccess
  <1>11. CASE DeleteProcessInstance
    BY <1>0, <1>11 DEF IInv, TypeOK, RequestsNamed, RowLockOwner, LockUser, Mirror,
        NoEntries, DeleteProcessInstance
  <1>12. CASE ClearAllLocks
    BY <1>0, <1>12 DEF IInv, TypeOK, Deadlines, NoLegacy, RequestsNamed, RowLockOwner,
        LockUser, Mirror, ClearAllLocks, RowFree
  <1>13. CASE Crash
    BY <1>0, <1>13 DEF IInv, TypeOK, Steps, RequestsNamed, RowLockOwner, LockUser, Mirror,
        NoEntries, Crash, Idle
  <1>14. CASE UNCHANGED vars
    BY <1>0, <1>14 DEF IInv, TypeOK, RequestsNamed, RowLockOwner, LockUser, Mirror,
        NoEntries, vars
  <1> QED
    BY <1>1, <1>2, <1>3, <1>4, <1>5, <1>6, <1>7, <1>8, <1>9, <1>10, <1>11, <1>12, <1>13,
       <1>14
    DEF Next, Arrive, Handle, Surroundings

(* Every reachable state satisfies the invariant. *)
THEOREM Invariance == Spec => []IInv
  <1> QED
    BY InitInvariant, NextInvariant, PTL DEF Spec

(* Every variable has its type. *)
THEOREM TypeCorrect == Spec => []TypeOK
  <1>1. IInv => TypeOK
    BY DEF IInv
  <1> QED
    BY <1>1, Invariance, PTL

-----------------------------------------------------------------------------
(* The lease the lock stands for is well typed. *)
LEMMA LeaseTyped == IInv => AbstractLease!TypeOK
  <1> SUFFICES ASSUME IInv PROVE AbstractLease!TypeOK
    OBVIOUS
  <1>1. LeaseHolder \in [Tasks -> Users \cup {NoUser}]
    <2>1. \A t \in Tasks : LockUser(t) \in Users \cup {NoUser}
      BY DEF IInv, TypeOK, LockUser
    <2> QED
      BY <2>1 DEF LeaseHolder
  <1>2. LeaseAsked \in SUBSET (Users \X Tasks)
    BY DEF IInv, RequestsNamed, GivingUp, LeaseAsked
  <1>3. LeaseTimed \in SUBSET Tasks /\ LeaseOld \in SUBSET Tasks
    BY DEF LeaseTimed, LeaseOld
  <1> QED
    BY <1>1, <1>2, <1>3 DEF IInv, TypeOK, AbstractLease!TypeOK

(* A request that writes the entry of its own task leaves every other lock *)
(* alone, but for one of the older release: that one is gone if the row    *)
(* had no entry, which also means that nobody held the request's own task. *)
LEMMA OtherLocks ==
    ASSUME IInv, NEW t \in Tasks, NEW x \in Users \cup {NoUser},
           UpdateTaskLocks([locks EXCEPT ![t] = x])
    PROVE  /\ LockUser(t)' = x
           /\ \A s \in Tasks \ {t} :
                 \/ LockUser(s)' = LockUser(s)
                 \/ /\ ~Mirror(locks, legacy)
                    /\ legacy.task = s
                    /\ locks[s] = NoUser
                    /\ LockUser(t) = NoUser
                    /\ LockUser(s)' = NoUser
  <1>1. [locks EXCEPT ![t] = x] \in [Tasks -> Users \cup {NoUser}]
    BY DEF IInv, TypeOK
  <1>2. \A s \in Tasks : LockUser(s)' = [locks EXCEPT ![t] = x][s]
    BY <1>1, UpdateMirrors
  <1>3. LockUser(t)' = x /\ \A s \in Tasks \ {t} : LockUser(s)' = locks[s]
    BY <1>2 DEF IInv, TypeOK
  <1>4. CASE Mirror(locks, legacy)
    BY <1>3, <1>4, MirroredLockUser
  <1>5. CASE NoEntries /\ ~Mirror(locks, legacy)
    <2>1. ASSUME NEW s \in Tasks \ {t}, LockUser(s) # NoUser
          PROVE  legacy.task = s
      BY <1>5, <2>1 DEF NoEntries, LockUser
    <2>2. ASSUME NEW s \in Tasks \ {t}, legacy.task = s
          PROVE  LockUser(t) = NoUser
      BY <1>5, <2>2 DEF NoEntries, LockUser
    <2>3. \A s \in Tasks \ {t} : LockUser(s)' = NoUser /\ locks[s] = NoUser
      BY <1>3, <1>5 DEF NoEntries
    <2> QED
      BY <1>3, <1>5, <2>1, <2>2, <2>3
  <1> QED
    BY <1>4, <1>5 DEF IInv

(* A step that changes what the code sees of at most one task's lock, as   *)
(* the lease allows, and beyond it only of a lock of the older release     *)
(* while that one is acquired, is a step of the lease.                     *)
LEMMA LeaseStep ==
    ASSUME IInv, IInv', rejected' = rejected, NEW t \in Tasks,
           \/ LockUser(t)' = LockUser(t)
           \/ LockUser(t) = NoUser
           \/ /\ LockUser(t)' = NoUser
              /\ \E r \in Requests : /\ req[r].pc \in GivingUp
                                      /\ req[r].user = LockUser(t)
                                      /\ req[r].task = t
           \/ LockUser(t) # NoUser /\ LockUser(t) \notin allowed[t]
           \/ legacy.task = t /\ legacy.deadline = "future" /\ LockUser(t)' = NoUser,
           \A s \in Tasks \ {t} :
             \/ LockUser(s)' = LockUser(s)
             \/ /\ legacy.task = s /\ locks[s] = NoUser /\ LockUser(s)' = NoUser
                /\ LockUser(t)' \notin {NoUser, LockUser(t)}
    PROVE  AbstractLease!Next
  <1>1. AbstractLease!TypeOK'
    BY LeaseTyped, PTL
  <1>a. \A s \in Tasks : LeaseHolder[s] = LockUser(s) /\ LeaseHolder'[s] = LockUser(s)'
    BY DEF LeaseHolder
  <1>b. (\E r \in Requests : /\ req[r].pc \in GivingUp
                             /\ req[r].user = LockUser(t)
                             /\ req[r].task = t) => <<LeaseHolder[t], t>> \in LeaseAsked
    BY <1>a DEF LeaseAsked
  <1>c. legacy.task = t /\ legacy.deadline = "future" => t \in LeaseTimed
    BY DEF LeaseTimed
  <1>2. \/ AbstractLease!Kept(t)
        \/ AbstractLease!Grant(t)
        \/ AbstractLease!GiveUp(t)
        \/ AbstractLease!TakeOver(t)
        \/ AbstractLease!Lapse(t)
    BY <1>a, <1>b, <1>c
    DEF AbstractLease!Kept, AbstractLease!Grant, AbstractLease!GiveUp,
        AbstractLease!TakeOver, AbstractLease!Lapse
  <1>3. ASSUME NEW s \in Tasks \ {t}
        PROVE  /\ AbstractLease!Kept(s) \/ AbstractLease!Displaced(s)
               /\ ~AbstractLease!Acquired(s)
    <2>1. CASE LockUser(s)' = LockUser(s)
      BY <1>a, <2>1 DEF AbstractLease!Kept, AbstractLease!Acquired
    <2>2. CASE /\ legacy.task = s /\ locks[s] = NoUser /\ LockUser(s)' = NoUser
               /\ LockUser(t)' \notin {NoUser, LockUser(t)}
      <3>1. s \in LeaseOld
        BY <2>2 DEF LeaseOld
      <3>2. AbstractLease!Acquired(t) /\ t \in Tasks \ {s}
        BY <1>a, <2>2 DEF AbstractLease!Kept, AbstractLease!Acquired
      <3> QED
        BY <1>a, <2>2, <3>1, <3>2 DEF AbstractLease!Displaced, AbstractLease!Acquired
    <2> QED
      BY <2>1, <2>2
  <1>4. \A s \in Tasks : AbstractLease!Acquired(s) => s = t
    BY <1>3
  <1> QED
    BY <1>1, <1>2, <1>3, <1>4 DEF AbstractLease!Next

(* A step that changes no lock at all is a step of the lease. *)
LEMMA QuietStep ==
    ASSUME IInv, IInv', rejected' = rejected, \A t \in Tasks : LockUser(t)' = LockUser(t)
    PROVE  AbstractLease!Next
  <1>1. AbstractLease!TypeOK'
    BY LeaseTyped, PTL
  <1>2. \A t \in Tasks : AbstractLease!Kept(t)
    BY DEF AbstractLease!Kept, LeaseHolder
  <1> QED
    BY <1>1, <1>2 DEF AbstractLease!Next, AbstractLease!Acquired

(* What the steps do to the locks: a request writes the entry of its own   *)
(* task, a deadline passes, all are cleared, or nothing changes.           *)
LEMMA LockSteps ==
    ASSUME IInv, [Next]_vars
    PROVE  \/ \E r \in Requests : Acquire(r) \/ ReleaseStrict(r) \/ CommitReleaseTaskLock(r)
           \/ DeadlinePasses
           \/ ClearAllLocks
           \/ UNCHANGED <<locks, legacy, rejected>>
  BY DEF Next, Arrive, Handle, Surroundings, Pickup, ResolveDocumentSubmit, ReleaseTask,
      CompleteTask, Claim, Unclaim, AssertTaskLockHolder, CompleteInCamunda,
      BeginReleaseTaskLock, ChangeAccess, DeleteProcessInstance, Crash, vars

(* acquireTaskLock is refused, or gives the task to the user who asked     *)
(* because nobody else held it with a right to it.                         *)
LEMMA AcquireLocks ==
    ASSUME IInv, NEW r \in Requests, Acquire(r)
    PROVE  \/ UNCHANGED <<locks, legacy, rejected>>
           \/ \E t \in Tasks, u \in Users :
                /\ req[r] = [pc |-> "acquire", user |-> u, task |-> t]
                /\ rejected' = rejected
                /\ UpdateTaskLocks([locks EXCEPT ![t] = u])
                /\ \/ LockUser(t) \in {NoUser, u}
                   \/ LockUser(t) # NoUser /\ LockUser(t) \notin allowed[t]
  <1> DEFINE t == req[r].task
             u == req[r].user
  <1>1. CASE UNCHANGED <<locks, legacy>>
    BY <1>1 DEF Acquire
  <1>2. CASE HolderSeenBy(t, u) \in {NoUser, u} /\ UpdateTaskLocks([locks EXCEPT ![t] = u])
    <2>1. t \in Tasks /\ u \in Users
      BY DEF IInv, RequestsNamed, Acquire
    <2>2. req[r] = [pc |-> "acquire", user |-> u, task |-> t]
      BY DEF IInv, TypeOK, Acquire
    <2>3. \/ LockUser(t) \in {NoUser, u}
          \/ LockUser(t) # NoUser /\ LockUser(t) \notin allowed[t]
      BY <1>2 DEF HolderSeenBy, LockedByOther
    <2>4. rejected' = rejected
      BY DEF Acquire
    <2> QED
      BY <1>2, <2>1, <2>2, <2>3, <2>4
  <1> QED
    BY <1>1, <1>2 DEF Acquire

(* A release removes the entry of the user who asked, or one that is gone. *)
LEMMA ReleaseLocks ==
    ASSUME IInv, NEW r \in Requests, ReleaseStrict(r) \/ CommitReleaseTaskLock(r)
    PROVE  \/ UNCHANGED <<locks, legacy, rejected>>
           \/ \E t \in Tasks :
                /\ req[r].pc \in GivingUp /\ req[r].task = t
                /\ rejected' = rejected
                /\ UpdateTaskLocks([locks EXCEPT ![t] = NoUser])
                /\ LockUser(t) \in {NoUser, req[r].user}
                /\ \/ LockUser(t) # NoUser
                   \/ Mirror(locks, legacy)
                   \/ legacy.task = t
  <1>1. CASE UNCHANGED <<locks, legacy>> /\ ReleaseStrict(r)
    BY <1>1 DEF ReleaseStrict
  <1>2. CASE /\ ReleaseStrict(r)
             /\ LockedByUser(req[r].task, req[r].user)
             /\ UpdateTaskLocks([locks EXCEPT ![req[r].task] = NoUser])
    <2>1. req[r].task \in Tasks /\ req[r].user \in Users /\ req[r].pc = "strict"
      BY <1>2 DEF IInv, RequestsNamed, ReleaseStrict
    <2>2. LockUser(req[r].task) = req[r].user /\ req[r].user # NoUser
      BY <1>2, <2>1, UserAssumption DEF LockedByUser
    <2>3. rejected' = rejected
      BY <1>2 DEF ReleaseStrict
    <2> QED
      BY <1>2, <2>1, <2>2, <2>3 DEF GivingUp
  <1>3. CASE CommitReleaseTaskLock(r)
    <2>1. /\ req[r].task \in Tasks
          /\ req[r].pc = "commit"
          /\ LockUser(req[r].task) \in {NoUser, req[r].user}
          /\ Mirror(locks, legacy) \/ legacy.task = req[r].task
          /\ UpdateTaskLocks([locks EXCEPT ![req[r].task] = NoUser])
          /\ rejected' = rejected
      BY <1>3 DEF IInv, RequestsNamed, RowLockOwner, CommitReleaseTaskLock
    <2> QED
      BY <2>1 DEF GivingUp
  <1> QED
    BY <1>1, <1>2, <1>3 DEF ReleaseStrict

(* Every step of the lock is a step of the lease. *)
LEMMA NextLease == IInv /\ IInv' /\ [Next]_vars => AbstractLease!Next
  <1> SUFFICES ASSUME IInv, IInv', [Next]_vars PROVE AbstractLease!Next
    OBVIOUS
  <1>1. ASSUME UNCHANGED <<locks, legacy, rejected>> PROVE AbstractLease!Next
    <2>1. \A t \in Tasks : LockUser(t)' = LockUser(t)
      BY <1>1 DEF LockUser
    <2> QED
      BY <1>1, <2>1, QuietStep
  <1>2. ASSUME NEW r \in Requests, Acquire(r) PROVE AbstractLease!Next
    <2>1. CASE UNCHANGED <<locks, legacy, rejected>>
      BY <1>1, <2>1
    <2>2. ASSUME NEW t \in Tasks, NEW u \in Users,
                 rejected' = rejected,
                 UpdateTaskLocks([locks EXCEPT ![t] = u]),
                 \/ LockUser(t) \in {NoUser, u}
                 \/ LockUser(t) # NoUser /\ LockUser(t) \notin allowed[t]
          PROVE  AbstractLease!Next
      <3>1. /\ LockUser(t)' = u
            /\ \A s \in Tasks \ {t} :
                  \/ LockUser(s)' = LockUser(s)
                  \/ /\ legacy.task = s /\ locks[s] = NoUser /\ LockUser(s)' = NoUser
                     /\ LockUser(t) = NoUser
        BY <2>2, OtherLocks
      <3>2. u # NoUser
        BY UserAssumption
      <3> QED
        BY <2>2, <3>1, <3>2, LeaseStep
    <2> QED
      BY <1>2, <2>1, <2>2, AcquireLocks
  <1>3. ASSUME NEW r \in Requests, ReleaseStrict(r) \/ CommitReleaseTaskLock(r)
        PROVE  AbstractLease!Next
    <2>1. CASE UNCHANGED <<locks, legacy, rejected>>
      BY <1>1, <2>1
    <2>2. ASSUME NEW t \in Tasks,
                 req[r].pc \in GivingUp, req[r].task = t,
                 rejected' = rejected,
                 UpdateTaskLocks([locks EXCEPT ![t] = NoUser]),
                 LockUser(t) \in {NoUser, req[r].user},
                 LockUser(t) # NoUser \/ Mirror(locks, legacy) \/ legacy.task = t
          PROVE  AbstractLease!Next
      <3>1. LockUser(t)' = NoUser /\ \A s \in Tasks \ {t} : LockUser(s)' = LockUser(s)
        BY <2>2, OtherLocks
      <3> QED
        BY <2>2, <3>1, LeaseStep
    <2> QED
      BY <1>3, <2>1, <2>2, ReleaseLocks
  <1>4. CASE DeadlinePasses
    <2>1. legacy.task \in Tasks \/ \A t \in Tasks : LockUser(t)' = LockUser(t)
      BY <1>4 DEF IInv, TypeOK, LockUser, DeadlinePasses
    <2>2. rejected' = rejected
      BY <1>4 DEF DeadlinePasses
    <2>3. ASSUME NEW a \in Tasks, a = legacy.task PROVE AbstractLease!Next
      <3>1. \A s \in Tasks \ {a} : LockUser(s)' = LockUser(s)
        BY <1>4, <2>3 DEF LockUser, DeadlinePasses, IInv, TypeOK
      <3>2. LockUser(a)' = LockUser(a) \/ LockUser(a)' = NoUser
        BY <1>4, <2>3 DEF LockUser, DeadlinePasses, IInv, TypeOK
      <3>3. legacy.deadline = "future"
        BY <1>4 DEF DeadlinePasses
      <3> QED
        BY <2>2, <2>3, <3>1, <3>2, <3>3, LeaseStep
    <2> QED
      BY <2>1, <2>2, <2>3, QuietStep
  <1>5. CASE ClearAllLocks
    <2>1. \A t \in Tasks : LockUser(t)' = NoUser
      BY <1>5, TaskAssumption DEF ClearAllLocks, LockUser, NoLegacy
    <2>2. ~rejected /\ rejected'
      BY <1>5 DEF ClearAllLocks
    <2>3. \A t \in Tasks : AbstractLease!Reject(t) /\ ~AbstractLease!Acquired(t)
      BY <2>1, <2>2 DEF AbstractLease!Reject, AbstractLease!Acquired, LeaseHolder
    <2>4. AbstractLease!TypeOK'
      BY LeaseTyped, PTL
    <2> QED
      BY <2>2, <2>3, <2>4 DEF AbstractLease!Next
  <1> QED
    BY <1>1, <1>2, <1>3, <1>4, <1>5, LockSteps

(* Every behaviour of the lock is a behaviour of the lease: no interleaving *)
(* of pickups, releases, completions, crashes and failed deletions takes a *)
(* task from an employee who still has access to it and did not give it up, *)
(* unless the transaction is rejected or the lock is of the older release. *)
THEOREM LeaseImplemented == Spec => ImplementsLease
  <1>1. Init => AbstractLease!Init
    BY InitInvariant, LeaseTyped DEF AbstractLease!Init
  <1>2. IInv /\ IInv' /\ [Next]_vars => AbstractLease!Next
    BY NextLease
  <1> QED
    BY <1>1, <1>2, Invariance, PTL DEF Spec, ImplementsLease, AbstractLease!Spec

-----------------------------------------------------------------------------
(* A lock appears only by the acquireTaskLock of the employee who holds it *)
(* afterwards; none comes back through the older columns.                  *)
THEOREM LocksAsked == Spec => LocksAreAsked
  <1> DEFINE Asked == \A t \in Tasks :
                 LockUser(t)' \notin {NoUser, LockUser(t)} =>
                   \E r \in Requests :
                     req[r] = [pc |-> "acquire", user |-> LockUser(t)', task |-> t]
  <1>1. IInv /\ [Next]_vars => [Asked]_vars
    <2> SUFFICES ASSUME IInv, [Next]_vars PROVE Asked
      OBVIOUS
    <2>1. ASSUME UNCHANGED <<locks, legacy, rejected>> PROVE Asked
      BY <2>1 DEF LockUser
    <2>2. ASSUME NEW r \in Requests, Acquire(r) PROVE Asked
      <3>1. ASSUME NEW t \in Tasks, NEW u \in Users,
                   req[r] = [pc |-> "acquire", user |-> u, task |-> t],
                   UpdateTaskLocks([locks EXCEPT ![t] = u])
            PROVE  Asked
        <4>1. /\ LockUser(t)' = u
              /\ \A s \in Tasks \ {t} : LockUser(s)' \in {NoUser, LockUser(s)}
          BY <3>1, OtherLocks
        <4> QED
          BY <3>1, <4>1
      <3> QED
        BY <2>1, <2>2, <3>1, AcquireLocks
    <2>3. ASSUME NEW r \in Requests, ReleaseStrict(r) \/ CommitReleaseTaskLock(r)
          PROVE  Asked
      <3>1. ASSUME NEW t \in Tasks, UpdateTaskLocks([locks EXCEPT ![t] = NoUser])
            PROVE  Asked
        BY <3>1, OtherLocks
      <3> QED
        BY <2>1, <2>3, <3>1, ReleaseLocks
    <2>4. CASE DeadlinePasses
      BY <2>4 DEF IInv, TypeOK, LockUser, DeadlinePasses
    <2>5. CASE ClearAllLocks
      BY <2>5, TaskAssumption DEF ClearAllLocks, LockUser, NoLegacy
    <2> QED
      BY <2>1, <2>2, <2>3, <2>4, <2>5, LockSteps
  <1> QED
    BY <1>1, Invariance, PTL DEF Spec, LocksAreAsked
=============================================================================
