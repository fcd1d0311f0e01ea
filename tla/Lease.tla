------------------------------- MODULE Lease -------------------------------
(***************************************************************************)
(* What the task lock of a process instance promises to employees: a task  *)
(* is leased to at most one employee at a time, one step leases at most    *)
(* one task, and a lease ends only because its holder asked for it, lost   *)
(* access to the stage, let a timed lease lapse, or because the task is    *)
(* over or the whole transaction rejected.  A lease of the older release,  *)
(* which knew one lease per process instance, is the exception: it also    *)
(* ends when a parallel task is leased.  TaskLock.tla implements this with *)
(* row locks, a JSON column and the older columns that mirror it.          *)
(***************************************************************************)
CONSTANTS
    Users,      \* employees
    Tasks,      \* the Camunda user tasks of one process instance
    NoUser      \* nobody

VARIABLES
    holder,     \* who holds the lease of each task
    asked,      \* the pairs <<u, t>> of an employee who is giving up task t
    allowed,    \* who may work on the stage of each task
    timed,      \* the tasks whose lease has a deadline that has not passed
    old,        \* the tasks whose lease is one of the older release
    active,     \* the tasks Camunda still offers
    rejected    \* whether the transaction was rejected

vars == <<holder, asked, allowed, timed, old, active, rejected>>

TypeOK ==
    /\ holder \in [Tasks -> Users \cup {NoUser}]
    /\ asked \in SUBSET (Users \X Tasks)
    /\ allowed \in [Tasks -> SUBSET Users]
    /\ timed \in SUBSET Tasks
    /\ old \in SUBSET Tasks
    /\ active \in SUBSET Tasks
    /\ rejected \in BOOLEAN

Init == TypeOK

(* Nobody holds the task: it goes to an employee. *)
Grant(t) ==
    /\ holder[t] = NoUser
    /\ holder'[t] # NoUser

(* The holder gives the task up. *)
GiveUp(t) ==
    /\ <<holder[t], t>> \in asked
    /\ holder'[t] = NoUser

(* A holder who lost access to the stage gives way to another employee. *)
TakeOver(t) ==
    /\ holder[t] # NoUser
    /\ holder[t] \notin allowed[t]

(* A timed lease lapses. *)
Lapse(t) ==
    /\ t \in timed
    /\ holder'[t] = NoUser

(* The lease of a task that is over carries no meaning and may vanish. *)
Vanish(t) ==
    /\ t \notin active
    /\ holder'[t] = NoUser

(* The rejection of the transaction, which happens once, ends every lease, *)
(* though Camunda may still offer the task.                                *)
Reject(t) ==
    /\ ~rejected
    /\ rejected'
    /\ holder'[t] = NoUser

Kept(t) == holder'[t] = holder[t]

(* t goes to an employee who did not hold it. *)
Acquired(t) == ~Kept(t) /\ holder'[t] # NoUser

(* A lease of the older release is lost to the pickup of a parallel task.  *)
Displaced(t) ==
    /\ t \in old
    /\ holder'[t] = NoUser
    /\ \E s \in Tasks \ {t} : Acquired(s)

Next ==
    /\ TypeOK'
    /\ rejected => rejected'
    /\ \A t \in Tasks :
         \/ Kept(t) \/ Grant(t) \/ GiveUp(t) \/ TakeOver(t) \/ Lapse(t) \/ Vanish(t)
         \/ Reject(t) \/ Displaced(t)
    /\ \A s, t \in Tasks : Acquired(s) /\ Acquired(t) => s = t

Spec == Init /\ [][Next]_vars
=============================================================================
