------------------------- MODULE CompleteTaskProofs -------------------------
(***************************************************************************)
(* No form is lost and no transaction is completed with work left, for any *)
(* process, any number of requests, attempts and failures.                 *)
(*                                                                         *)
(* The argument: what a request or the job holds of the row is sealed, so  *)
(* a stale write can bring back nothing that is not there, and freezing    *)
(* keeps what is; and once Camunda offers no task it never offers one      *)
(* again, so an old answer "nothing left" stays true.                      *)
(***************************************************************************)
EXTENDS CompleteTask, TLAPS

(* Steps at which a request works on the task it was sent for *)
OnTask == Steps \ {"idle", "ended", "delete", "check", "reject"}

(* A record that names a task and an employee *)
Named(e) == e.task \in Tasks /\ e.user \in Users

RequestsNamed ==
    \A r \in Requests : proc[r].pc \in OnTask => Named(proc[r].effects)

(* The row has exactly the sealed stages, and every copy has only those. *)
StagesSealed ==
    /\ db.saved = sealed
    /\ \A p \in Procs : proc[p].saved \subseteq sealed

(* A task reaches Camunda's end only when sealed. *)
SealedFirst ==
    /\ done \subseteq sealed
    /\ \A p \in Procs : proc[p].pc = "complete" => Task(p) \in sealed

(* Whoever is about to complete the transaction has reason to. *)
NothingLeft ==
    /\ \A p \in Procs : proc[p].pc = "finish" => Active = {}
    /\ CompletedMeansEnded

IInv ==
    /\ TypeOK
    /\ RequestsNamed
    /\ StagesSealed
    /\ SealedFirst
    /\ NothingLeft

-----------------------------------------------------------------------------
(* Camunda offers only tasks of the process that are not done. *)
LEMMA ActiveTasks == Active \subseteq Tasks \ done
  BY DEF Active

(* When no task is left, none comes back: only an active task can be       *)
(* completed, and a deleted instance stays deleted.                        *)
LEMMA ActiveStaysEmpty ==
    ASSUME Active = {}, done' = done, alive' => alive
    PROVE  Active' = {}
  BY DEF Active

(* The flags do not change whose completion a record is. *)
LEMMA NamedSame ==
    ASSUME NEW e, NEW f, SameCompletion(e, f), Named(f) PROVE Named(e)
  BY DEF SameCompletion, Named

(* A new record starts well typed. *)
LEMMA InitEffectsType ==
    ASSUME NEW t \in Tasks \cup {NoTask}, NEW u \in Users \cup {NoUser},
           NEW reject \in BOOLEAN
    PROVE  InitEffects(t, u, reject) \in Effects
  BY DEF InitEffects, Effects

LEMMA IdleType == Idle \in Locals /\ Ended \in Locals
  <1>1. NoEffects \in Effects
    BY InitEffectsType DEF NoEffects, InitEffects, Effects
  <1>2. NotStarted \in Instances
    BY DEF NotStarted, Instances
  <1> QED
    BY <1>1, <1>2 DEF Idle, Ended, Locals, Steps, Codes

(* A merge of two records is a record. *)
LEMMA MergeType ==
    ASSUME NEW e \in Effects, NEW f \in Effects
    PROVE  MergedEffects(e, f) \in Effects
  <1>1. \A a, b \in BOOLEAN : (a \/ b) \in BOOLEAN
    OBVIOUS
  <1>2. /\ (e.camunda \/ f.camunda) \in BOOLEAN /\ (e.service \/ f.service) \in BOOLEAN
        /\ (e.synced \/ f.synced) \in BOOLEAN /\ (e.released \/ f.released) \in BOOLEAN
        /\ MergedEffects(e, f).mixed \in BOOLEAN
    BY DEF MergedEffects, Effects
  <1> QED
    BY <1>2 DEF MergedEffects, Effects

(* The types, one by one, and what a process holds *)
LEMMA TypeFacts ==
    ASSUME IInv
    PROVE  /\ db \in Rows /\ fresh \in SUBSET Procs /\ sealed \in SUBSET Tasks
           /\ pi \in Instances /\ holder \in Holders /\ late \in SUBSET Keys /\ done \in SUBSET Tasks
           /\ alive \in BOOLEAN /\ guard \in Guards /\ faults \in Nat
           /\ proc \in [Procs -> Locals]
           /\ \A p \in Procs : /\ proc[p] \in Locals
                               /\ proc[p].effects \in Effects
                               /\ proc[p].saved \in SUBSET Tasks
                               /\ proc[p].saved \subseteq sealed
  <1>1. TypeOK
    BY DEF IInv
  <1>2. \A p \in Procs : proc[p] \in Locals
    BY <1>1 DEF TypeOK
  <1>3. \A p \in Procs : proc[p].saved \subseteq sealed
    BY DEF IInv, StagesSealed
  <1> QED
    BY <1>1, <1>2, <1>3 DEF TypeOK, Locals

-----------------------------------------------------------------------------
(* What a write of the row keeps, in date or merged: the sealed stages are *)
(* in it, and of the others only those the writer brings.                  *)
LEMMA PersistKeeps ==
    ASSUME IInv, NEW p \in Procs, NEW stages \in SUBSET Tasks,
           NEW effects \in Effects, Persist(p, stages, effects)
    PROVE  /\ db' \in Rows
           /\ fresh' \in SUBSET Procs
           /\ db'.saved = SavedBy(p, stages)
           /\ db'.status = db.status
           /\ SavedBy(p, stages) = sealed \cup stages
  <1>1. db \in Rows /\ db.saved = sealed
    BY DEF IInv, TypeOK, StagesSealed
  <1>2. SavedBy(p, stages) = sealed \cup stages
    BY <1>1 DEF SavedBy, Frozen
  <1>3. EffectsBy(p, effects) \in Effects
    BY <1>1, MergeType DEF EffectsBy, Rows
  <1>4. SavedBy(p, stages) \in SUBSET Tasks
    BY <1>2 DEF IInv, TypeOK
  <1> QED
    BY <1>1, <1>2, <1>3, <1>4 DEF Persist, Rows

(* What a step has to show when process p goes on as n.                    *)
LEMMA StepKeeps ==
    ASSUME IInv, NEW p \in Procs, NEW n \in Locals,
           proc' = [proc EXCEPT ![p] = n],
           db' \in Rows, fresh' \in SUBSET Procs, sealed' \in SUBSET Tasks,
           pi' \in Instances, holder' \in Holders /\ late' \in SUBSET Keys, done' \in SUBSET Tasks,
           alive' \in BOOLEAN, guard' \in Guards, faults' \in Nat,
           p \in Requests /\ n.pc \in OnTask => Named(n.effects),
           sealed \subseteq sealed', db'.saved = sealed', n.saved \subseteq sealed',
           done' \subseteq sealed',
           n.pc = "complete" => n.effects.task \in sealed',
           Active = {} => Active' = {},
           n.pc = "finish" => Active = {},
           db'.status = "completed" => Active = {}
    PROVE  IInv'
  <1>1. \A q \in Procs : proc'[q] = IF q = p THEN n ELSE proc[q]
    BY DEF IInv, TypeOK
  <1>2. TypeOK'
    BY DEF IInv, TypeOK
  <1>3. RequestsNamed'
    BY <1>1 DEF IInv, RequestsNamed, Task, Procs
  <1>4. StagesSealed'
    BY <1>1 DEF IInv, StagesSealed
  <1>5. SealedFirst'
    BY <1>1 DEF IInv, SealedFirst, Task
  <1>6. NothingLeft'
    BY <1>1 DEF IInv, NothingLeft, CompletedMeansEnded
  <1> QED
    BY <1>2, <1>3, <1>4, <1>5, <1>6 DEF IInv

(* A step that leaves the row and Camunda's tasks alone needs less. *)
LEMMA QuietStepKeeps ==
    ASSUME IInv, NEW p \in Procs, NEW n \in Locals,
           proc' = [proc EXCEPT ![p] = n],
           n.pc \notin {"complete", "finish"}, n.saved \subseteq sealed,
           p \in Requests /\ n.pc \in OnTask => Named(n.effects),
           UNCHANGED <<db, sealed, done>>, fresh' \in SUBSET Procs,
           pi' \in Instances, holder' \in Holders /\ late' \in SUBSET Keys, guard' \in Guards,
           alive' \in BOOLEAN, alive' => alive, faults' \in Nat
    PROVE  IInv'
  <1>1. db' \in Rows /\ sealed' \in SUBSET Tasks /\ done' \in SUBSET Tasks
    BY DEF IInv, TypeOK
  <1>2. /\ db'.saved = sealed' /\ done' \subseteq sealed'
        /\ db'.status = "completed" => Active = {}
    BY DEF IInv, StagesSealed, SealedFirst, NothingLeft, CompletedMeansEnded
  <1>3. Active = {} => Active' = {}
    BY ActiveStaysEmpty
  <1> QED
    BY <1>1, <1>2, <1>3, StepKeeps

(* A checkpoint writes what its process holds, and the stages stay sealed. *)
LEMMA WriteKeeps ==
    ASSUME IInv, NEW p \in Procs, NEW n \in Locals, NEW effects \in Effects,
           NEW stages \in SUBSET Tasks, Persist(p, stages, effects),
           proc' = [proc EXCEPT ![p] = n],
           sealed' = sealed \cup stages, n.saved \subseteq sealed',
           n.pc # "finish", n.pc = "complete" => n.effects.task \in sealed',
           p \in Requests /\ n.pc \in OnTask => Named(n.effects),
           UNCHANGED <<done, alive>>, pi' \in Instances,
           holder' \in Holders /\ late' \in SUBSET Keys, guard' \in Guards, faults' \in Nat
    PROVE  IInv'
  <1>1. /\ db' \in Rows /\ fresh' \in SUBSET Procs
        /\ db'.saved = sealed' /\ db'.status = db.status
    BY PersistKeeps
  <1>2. /\ sealed' \in SUBSET Tasks /\ done' \in SUBSET Tasks /\ alive' \in BOOLEAN
        /\ done' \subseteq sealed'
        /\ db'.status = "completed" => Active = {}
    BY <1>1 DEF IInv, TypeOK, SealedFirst, NothingLeft, CompletedMeansEnded
  <1>3. Active = {} => Active' = {}
    BY ActiveStaysEmpty
  <1> QED
    BY <1>1, <1>2, <1>3, StepKeeps

-----------------------------------------------------------------------------
(* How a process goes on *)

LEMMA GotoStep ==
    ASSUME proc \in [Procs -> Locals], NEW p \in Procs, NEW s \in Steps, Goto(p, s)
    PROVE  \E n \in Locals : /\ proc' = [proc EXCEPT ![p] = n]
                             /\ n = [proc[p] EXCEPT !.pc = s]
  BY DEF Goto, Locals

LEMMA FailStep ==
    ASSUME proc \in [Procs -> Locals], NEW p \in Procs, NEW c \in Codes, Fail(p, c)
    PROVE  \E n \in Locals : /\ proc' = [proc EXCEPT ![p] = n]
                             /\ n.pc = "caught"
                             /\ n.saved = proc[p].saved
                             /\ n.effects = proc[p].effects
  <1> DEFINE n == [proc[p] EXCEPT !.pc = "caught", !.err = c]
  <1>1. n \in Locals
    BY DEF Locals, Steps
  <1>2. proc' = [proc EXCEPT ![p] = n]
    BY DEF Fail, Locals
  <1> QED
    BY <1>1, <1>2 DEF Locals

LEMMA LeaveStep ==
    ASSUME proc \in [Procs -> Locals], NEW p \in Procs, Leave(p)
    PROVE  \E n \in Locals : /\ proc' = [proc EXCEPT ![p] = n]
                             /\ n.pc \in {"idle", "ended"}
                             /\ n.saved = {}
  <1>1. Idle.saved = {} /\ Idle.pc = "idle" /\ Ended.saved = {} /\ Ended.pc = "ended"
    BY DEF Idle, Ended
  <1> QED
    BY <1>1, IdleType DEF Leave

(* A process that ends, or fails, or moves to a step at which nothing is   *)
(* asked of it, keeps the invariant.                                       *)
LEMMA MoveKeeps ==
    ASSUME IInv, NEW p \in Procs,
           \/ Leave(p)
           \/ \E s \in Steps \ {"complete", "finish"} :
                  Goto(p, s) /\ (p \in Requests /\ s \in OnTask => Named(proc[p].effects))
           \/ \E c \in Codes : Fail(p, c) /\ (p \in Requests => Named(proc[p].effects)),
           UNCHANGED <<db, sealed, done>>, fresh' \in SUBSET Procs,
           pi' \in Instances, holder' \in Holders /\ late' \in SUBSET Keys, guard' \in Guards,
           alive' \in BOOLEAN, alive' => alive, faults' \in Nat
    PROVE  IInv'
  <1>1. proc \in [Procs -> Locals] /\ proc[p] \in Locals /\ proc[p].saved \subseteq sealed
    BY DEF IInv, TypeOK, StagesSealed
  <1>2. PICK n \in Locals :
           /\ proc' = [proc EXCEPT ![p] = n]
           /\ n.pc \notin {"complete", "finish"}
           /\ n.saved \subseteq sealed
           /\ p \in Requests /\ n.pc \in OnTask => Named(n.effects)
    <2>1. CASE Leave(p)
      BY <2>1, <1>1, LeaveStep DEF OnTask
    <2>2. ASSUME NEW s \in Steps \ {"complete", "finish"}, Goto(p, s),
                 p \in Requests /\ s \in OnTask => Named(proc[p].effects)
          PROVE  \E n \in Locals :
                    /\ proc' = [proc EXCEPT ![p] = n]
                    /\ n.pc \notin {"complete", "finish"}
                    /\ n.saved \subseteq sealed
                    /\ p \in Requests /\ n.pc \in OnTask => Named(n.effects)
      <3>1. PICK n \in Locals : /\ proc' = [proc EXCEPT ![p] = n]
                                /\ n = [proc[p] EXCEPT !.pc = s]
        BY <2>2, <1>1, GotoStep
      <3>2. n.pc = s /\ n.saved = proc[p].saved /\ n.effects = proc[p].effects
        BY <3>1, <1>1 DEF Locals
      <3> QED
        BY <3>1, <3>2, <2>2, <1>1 DEF Task
    <2>3. ASSUME NEW c \in Codes, Fail(p, c), p \in Requests => Named(proc[p].effects)
          PROVE  \E n \in Locals :
                    /\ proc' = [proc EXCEPT ![p] = n]
                    /\ n.pc \notin {"complete", "finish"}
                    /\ n.saved \subseteq sealed
                    /\ p \in Requests /\ n.pc \in OnTask => Named(n.effects)
      BY <2>3, <1>1, FailStep DEF Task
    <2> QED
      BY <2>1, <2>2, <2>3
  <1> QED
    BY <1>2, QuietStepKeeps

-----------------------------------------------------------------------------
LEMMA InitInvariant == Init => IInv
  <1> SUFFICES ASSUME Init PROVE IInv
    OBVIOUS
  <1>1. \A p \in Procs : proc[p] = Idle /\ proc[p].pc = "idle" /\ proc[p].saved = {}
    BY DEF Init, Idle
  <1>2. NoEffects \in Effects /\ NotStarted \in Instances
    BY InitEffectsType DEF NoEffects, InitEffects, Effects, NotStarted, Instances
  <1>3. db \in Rows /\ db.saved = {} /\ db.status = "in_progress" /\ sealed = {} /\ done = {}
    BY <1>2 DEF Init, Rows, Statuses, Codes
  <1>4. TypeOK
    BY <1>2, <1>3, IdleType, BoundAssumption DEF Init, TypeOK, Guards, Holders
  <1> QED
    BY <1>1, <1>3, <1>4
    DEF IInv, RequestsNamed, OnTask, StagesSealed, SealedFirst, NothingLeft,
        CompletedMeansEnded, Procs

(* A failure lowers the budget and nothing else. *)
LEMMA FaultType == ASSUME faults \in Nat, FaultHappens PROVE faults' \in Nat
  BY DEF FaultHappens

-----------------------------------------------------------------------------
(* The steps, each with the part of the invariant it could disturb *)

(* Nobody's lock is part of what the others rely on. *)
LEMMA LockKeeps ==
    ASSUME IInv, holder' \in Holders, late' \in SUBSET Keys, faults' \in Nat,
           UNCHANGED <<db, fresh, sealed, pi, done, alive, guard, proc>>
    PROVE  IInv'
  <1>1. TypeOK'
    BY DEF IInv, TypeOK
  <1>2. Active' = Active
    BY DEF Active
  <1> QED
    BY <1>1, <1>2 DEF IInv, RequestsNamed, Named, StagesSealed, SealedFirst, NothingLeft,
                      CompletedMeansEnded, Task

LEMMA PickUpKeeps ==
    ASSUME IInv, NEW u \in Users, NEW t \in Tasks, PickUp(u, t) \/ TakeOver(u, t)
    PROVE  IInv'
  <1>1. holder' = [holder EXCEPT ![t] = u] /\ (late' = late \/ late' = late \cup {<<u, t>>})
    BY DEF PickUp, TakeOver
  <1>2. holder' \in Holders /\ late' \in SUBSET Keys
    BY <1>1, TypeFacts DEF Holders, Keys
  <1>3. faults' \in Nat
    BY TypeFacts, FaultType DEF PickUp, TakeOver
  <1> QED
    BY <1>2, <1>3, LockKeeps DEF PickUp, TakeOver

LEMMA GiveUpKeeps == ASSUME IInv, NEW t \in Tasks, GiveUp(t) PROVE IInv'
  <1>1. holder' \in Holders /\ late' \in SUBSET Keys
    BY TypeFacts DEF GiveUp, Holders
  <1>2. faults' \in Nat
    BY TypeFacts, FaultType DEF GiveUp
  <1> QED
    BY <1>1, <1>2, LockKeeps DEF GiveUp

LEMMA LoadKeeps ==
    ASSUME IInv, NEW r \in Requests, NEW u \in Users, NEW t \in Tasks,
           NEW reject \in BOOLEAN, Load(r, u, t, reject)
    PROVE  IInv'
  <1> DEFINE n == [proc[r] EXCEPT !.pc = "begin", !.saved = db.saved,
                                  !.effects = InitEffects(t, u, reject)]
  <1>1. r \in Procs /\ proc \in [Procs -> Locals] /\ proc[r] \in Locals
    BY DEF Procs, IInv, TypeOK
  <1>2. db.saved \in SUBSET Tasks /\ db.saved = sealed
    BY TypeFacts DEF Rows, IInv, StagesSealed
  <1>3. n \in Locals
    BY <1>1, <1>2, InitEffectsType DEF Locals, Steps
  <1>4. proc' = [proc EXCEPT ![r] = n]
    BY <1>1 DEF Load
  <1>5. n.pc = "begin" /\ n.saved = sealed /\ Named(n.effects)
    BY <1>1, <1>2 DEF Locals, InitEffects, Named
  <1>6. /\ UNCHANGED <<db, sealed, pi, holder, late, done, alive, guard, faults>>
        /\ fresh' \in SUBSET Procs
        /\ pi' \in Instances /\ holder' \in Holders /\ late' \in SUBSET Keys
        /\ guard' \in Guards /\ alive' \in BOOLEAN /\ faults' \in Nat
    BY <1>1, TypeFacts DEF Load
  <1> HIDE DEF n
  <1> QED
    BY <1>1, <1>3, <1>4, <1>5, <1>6, QuietStepKeeps

(* The guard's keys name an employee and a task. *)
LEMMA KeyType ==
    ASSUME NEW p \in Procs, Named(proc[p].effects) PROVE Key(p) \in Keys /\ Task(p) \in Tasks
  BY DEF Named, Key, Keys, Task

LEMMA BeginKeeps == ASSUME IInv, NEW r \in Requests, Begin(r) PROVE IInv'
  <1>1. /\ r \in Procs /\ Named(proc[r].effects)
        /\ pi \in Instances /\ holder \in Holders /\ late \in SUBSET Keys /\ guard \in Guards
        /\ fresh \in SUBSET Procs /\ alive \in BOOLEAN /\ faults \in Nat
    BY DEF Procs, IInv, TypeOK, RequestsNamed, Begin, OnTask, Steps
  <1>2. guard' \in Guards
    <2>1. CASE UNCHANGED guard
      BY <1>1, <2>1
    <2>2. CASE guard' = [guard EXCEPT !.inFlight = @ \cup {Key(r)},
                                      !.recent = @ \cup {Key(r)}]
      BY <1>1, <2>2, KeyType DEF Guards
    <2> QED
      BY <2>1, <2>2 DEF Begin, TakeGuard
  <1>5. faults' \in Nat
    BY <1>1 DEF Begin, FaultHappens
  <1>3. \/ Leave(r)
        \/ \E s \in {"save"} : Goto(r, s)
        \/ \E c \in Codes : Fail(r, c)
    BY DEF Begin, TakeGuard, Codes
  <1>4. \/ Leave(r)
        \/ \E s \in Steps \ {"complete", "finish"} :
                  Goto(r, s) /\ (r \in Requests /\ s \in OnTask => Named(proc[r].effects))
        \/ \E c \in Codes : Fail(r, c) /\ (r \in Requests => Named(proc[r].effects))
    BY <1>1, <1>3 DEF Steps
  <1> QED
    BY <1>1, <1>2, <1>4, <1>5, MoveKeeps DEF Begin

LEMMA SaveLocalKeeps == ASSUME IInv, NEW r \in Requests, SaveLocal(r) PROVE IInv'
  <1> DEFINE stages == proc[r].saved \cup {Task(r)}
             n == [proc[r] EXCEPT !.pc = "complete", !.saved = stages]
  <1>1. /\ r \in Procs /\ Named(proc[r].effects)
        /\ proc \in [Procs -> Locals] /\ proc[r] \in Locals
        /\ proc[r].effects \in Effects /\ stages \in SUBSET Tasks
        /\ proc[r].saved \subseteq sealed /\ sealed \in SUBSET Tasks
        /\ pi \in Instances /\ holder \in Holders /\ late \in SUBSET Keys /\ guard \in Guards
        /\ fresh \in SUBSET Procs /\ alive \in BOOLEAN /\ faults \in Nat
    BY DEF Procs, IInv, TypeOK, RequestsNamed, StagesSealed, SaveLocal, OnTask, Steps, Locals
  <1>2. CASE /\ Persist(r, stages, proc[r].effects)
             /\ sealed' = sealed \cup {Task(r)}
             /\ proc' = [proc EXCEPT ![r].pc = "complete", ![r].saved = stages]
    <2>2. n \in Locals
      BY <1>1 DEF Locals, Steps
    <2>3. proc' = [proc EXCEPT ![r] = n]
      BY <1>1, <1>2
    <2>4. n.pc = "complete" /\ n.saved = stages /\ n.effects = proc[r].effects
      BY <1>1 DEF Locals
    <2>5. sealed' = sealed \cup stages
      BY <1>1, <1>2
    <2>6. /\ n.saved \subseteq sealed' /\ n.pc # "finish" /\ n.effects.task \in sealed'
          /\ Named(n.effects)
      BY <1>1, <2>4, <2>5 DEF Task
    <2>7. UNCHANGED <<pi, holder, late, done, alive, guard, faults>>
      BY <1>2, <2>4 DEF SaveLocal, Fail, Goto
    <2> HIDE DEF n, stages
    <2> QED
      BY <1>1, <1>2, <2>2, <2>3, <2>5, <2>6, <2>7, WriteKeeps
  <1>3. CASE Fail(r, "STAGE_SEALED") /\ UNCHANGED <<db, fresh, sealed>>
    <2>1. \E c \in Codes : Fail(r, c) /\ (r \in Requests => Named(proc[r].effects))
      BY <1>1, <1>3 DEF Codes
    <2> QED
      BY <1>1, <1>3, <2>1, MoveKeeps DEF SaveLocal
  <1> QED
    BY <1>2, <1>3 DEF SaveLocal

LEMMA CompleteInCamundaKeeps ==
    ASSUME IInv, NEW r \in Requests, CompleteInCamunda(r) PROVE IInv'
  <1> DEFINE effects == [proc[r].effects EXCEPT !.camunda = TRUE]
             marked == [proc[r] EXCEPT !.pc = "mark", !.effects = effects]
  <1>1. r \in Procs /\ Named(proc[r].effects) /\ Task(r) \in sealed
    BY DEF Procs, IInv, RequestsNamed, SealedFirst, CompleteInCamunda, OnTask, Steps
  <1>2. CASE Task(r) \in Active /\ done' = done \cup {Task(r)}
    <2>1. /\ done' \in SUBSET Tasks /\ done' \subseteq sealed
          /\ Active = {} => Active' = {}
      BY <1>1, <1>2, TypeFacts DEF IInv, SealedFirst
    <2>2. PICK n \in Locals : /\ proc' = [proc EXCEPT ![r] = n]
                              /\ n.pc \in {"mark", "caught"}
                              /\ n.saved = proc[r].saved
                              /\ SameCompletion(n.effects, proc[r].effects)
      <3>1. CASE proc' = [proc EXCEPT ![r].pc = "mark", ![r].effects = [@ EXCEPT !.camunda = TRUE]]
        <4>1. effects \in Effects /\ SameCompletion(effects, proc[r].effects)
          BY <1>1, TypeFacts DEF Effects, SameCompletion
        <4>2. proc' = [proc EXCEPT ![r].pc = "mark", ![r].effects = effects]
          BY <1>1, <3>1, TypeFacts
        <4> HIDE DEF effects
        <4>3. marked \in Locals /\ marked.pc = "mark"
              /\ marked.saved = proc[r].saved /\ marked.effects = effects
          BY <1>1, <4>1, TypeFacts DEF Locals, Steps
        <4>4. proc' = [proc EXCEPT ![r] = marked]
          BY <1>1, <4>2, TypeFacts
        <4> HIDE DEF marked
        <4> QED
          BY <4>1, <4>3, <4>4
      <3>2. CASE Fail(r, "FAILURE")
        BY <1>1, <3>2, TypeFacts, FailStep DEF Codes, SameCompletion
      <3> QED
        BY <1>2, <3>1, <3>2 DEF CompleteInCamunda
    <2>3. UNCHANGED <<db, fresh, sealed, pi, holder, late, alive, guard>> /\ faults' \in Nat
      BY <1>1, TypeFacts DEF CompleteInCamunda, FaultHappens
    <2>4. db'.saved = sealed' /\ (db'.status = "completed" => Active = {})
      BY <2>3 DEF IInv, StagesSealed, NothingLeft, CompletedMeansEnded
    <2>5. Named(n.effects)
      BY <1>1, <2>2, NamedSame
    <2> QED
      BY <1>1, <2>1, <2>2, <2>3, <2>4, <2>5, TypeFacts, StepKeeps
  <1>3. CASE Fail(r, "CAMUNDA_TASK_NOT_FOUND") /\ UNCHANGED <<done, faults>>
    <2>1. \E c \in Codes : Fail(r, c) /\ (r \in Requests => Named(proc[r].effects))
      BY <1>1, <1>3 DEF Codes
    <2> QED
      BY <1>1, <1>3, <2>1, TypeFacts, MoveKeeps DEF CompleteInCamunda
  <1> QED
    BY <1>2, <1>3 DEF CompleteInCamunda

LEMMA MarkCamundaDoneKeeps ==
    ASSUME IInv, NEW r \in Requests, MarkCamundaDone(r) PROVE IInv'
  <1> DEFINE effects == [proc[r].effects EXCEPT !.camunda = TRUE]
             after == [effects EXCEPT !.service = effects.reject]
             step == IF effects.reject THEN "read" ELSE "service"
             n == [proc[r] EXCEPT !.pc = step, !.saved = SavedBy(r, proc[r].saved),
                                  !.effects = after]
  <1>1. r \in Procs /\ Named(proc[r].effects)
    BY DEF Procs, IInv, RequestsNamed, MarkCamundaDone, OnTask, Steps
  <1>2. effects \in Effects /\ effects.reject \in BOOLEAN
    BY <1>1, TypeFacts DEF Effects
  <1>3. Persist(r, proc[r].saved, effects)
    BY DEF MarkCamundaDone
  <1>4. SavedBy(r, proc[r].saved) = sealed
    BY <1>1, <1>2, <1>3, TypeFacts, PersistKeeps, ZenonT(30)
  <1>9. after \in Effects /\ SameCompletion(after, proc[r].effects)
    BY <1>1, <1>2, TypeFacts DEF Effects, SameCompletion
  <1>5. n \in Locals /\ n.pc \in {"read", "service"} /\ n.saved = sealed
                     /\ Named(n.effects)
    <2> HIDE DEF after
    <2>1. Named(after)
      BY <1>1, <1>9, NamedSame
    <2> QED
      BY <1>1, <1>4, <1>9, <2>1, TypeFacts DEF Locals, Steps
  <1>6. proc' = [proc EXCEPT ![r] = n]
    <2>1. proc' = [proc EXCEPT ![r].pc = step, ![r].saved = SavedBy(r, proc[r].saved),
                               ![r].effects = after]
      BY DEF MarkCamundaDone
    <2> HIDE DEF step, after
    <2> QED
      BY <1>1, <2>1, TypeFacts
  <1>7. UNCHANGED <<sealed, pi, holder, late, done, alive, guard, faults>>
    BY DEF MarkCamundaDone
  <1>8. sealed' = sealed \cup proc[r].saved
    BY <1>1, <1>7, TypeFacts
  <1> HIDE DEF n, effects
  <1> QED
    BY <1>1, <1>2, <1>3, <1>5, <1>6, <1>7, <1>8, TypeFacts, WriteKeeps

(* A checkpoint, whoever writes it, with effects for the same task. *)
LEMMA CheckpointKeeps ==
    ASSUME IInv, NEW p \in Procs, NEW effects \in Effects,
           NEW step \in Steps \ {"complete", "finish"},
           Checkpoint(p, effects, step),
           p \in Requests => Named(effects),
           UNCHANGED <<sealed, done, alive, pi, holder, late, guard, faults>>
    PROVE  IInv'
  <1> DEFINE n == [proc[p] EXCEPT !.pc = step, !.effects = effects,
                                  !.saved = SavedBy(p, proc[p].saved)]
  <1>1. Persist(p, proc[p].saved, effects)
    BY DEF Checkpoint
  <1>5. proc[p].saved \in SUBSET Tasks /\ proc[p].saved \subseteq sealed
    BY TypeFacts
  <1>6. SavedBy(p, proc[p].saved) = sealed \cup proc[p].saved
    BY <1>1, <1>5, PersistKeeps
  <1>2. SavedBy(p, proc[p].saved) = sealed /\ sealed' = sealed \cup proc[p].saved
    BY <1>5, <1>6
  <1>3. n \in Locals /\ n.pc = step /\ n.saved = sealed /\ n.effects = effects
    BY <1>2, TypeFacts DEF Locals
  <1>4. proc' = [proc EXCEPT ![p] = n]
    BY TypeFacts DEF Checkpoint
  <1> HIDE DEF n
  <1> QED
    BY <1>1, <1>2, <1>3, <1>4, TypeFacts, WriteKeeps

LEMMA RunServiceTasksKeeps ==
    ASSUME IInv, NEW p \in Procs, RunServiceTasks(p) PROVE IInv'
  <1> DEFINE effects == [proc[p].effects EXCEPT !.service = TRUE]
  <1>1. effects \in Effects /\ SameCompletion(effects, proc[p].effects)
    BY TypeFacts DEF Effects, SameCompletion
  <1>2. (IF p = Worker THEN RecoveryStep(effects) ELSE "read") \in Steps \ {"complete", "finish"}
    BY DEF RecoveryStep, Steps
  <1>3. p \in Requests => Named(proc[p].effects)
    BY DEF IInv, RequestsNamed, RunServiceTasks, OnTask, Steps
  <1>4. Checkpoint(p, effects, IF p = Worker THEN RecoveryStep(effects) ELSE "read")
    BY DEF RunServiceTasks
  <1> HIDE DEF effects
  <1> QED
    BY <1>1, <1>2, <1>3, <1>4, NamedSame, CheckpointKeeps DEF RunServiceTasks

LEMMA CheckSyncedKeeps == ASSUME IInv, CheckSynced(Worker) PROVE IInv'
  <1>1. Worker \in Procs /\ Worker \notin Requests
    BY WorkerAssumption DEF Procs
  <1>2. \E s \in Steps \ {"complete", "finish"} : Goto(Worker, s)
    BY DEF CheckSynced, Steps
  <1> QED
    BY <1>1, <1>2, TypeFacts, MoveKeeps DEF CheckSynced

LEMMA ReadActiveTasksKeeps ==
    ASSUME IInv, NEW p \in Procs, ReadActiveTasks(p) PROVE IInv'
  <1>1. p \in Requests => Named(proc[p].effects)
    BY DEF IInv, RequestsNamed, ReadActiveTasks, OnTask, Steps
  <1>2. CASE proc[p].effects.reject
    <2>1. Goto(p, "cancel") /\ alive' = (alive /\ Active = {})
      BY <1>2 DEF ReadActiveTasks
    <2>2. alive' \in BOOLEAN /\ (alive' => alive)
      BY <2>1, TypeFacts
    <2>3. \E s \in Steps \ {"complete", "finish"} :
             Goto(p, s) /\ (p \in Requests /\ s \in OnTask => Named(proc[p].effects))
      BY <1>1, <2>1 DEF Steps
    <2> QED
      BY <2>2, <2>3, TypeFacts, MoveKeeps DEF ReadActiveTasks
  <1>3. CASE ~proc[p].effects.reject
    <2>1. UNCHANGED <<db, fresh, sealed, pi, holder, late, done, alive, guard, faults>>
      BY <1>3 DEF ReadActiveTasks
    <2>2. CASE Active = {} /\ Goto(p, "finish")
      <3>1. PICK n \in Locals : /\ proc' = [proc EXCEPT ![p] = n]
                                /\ n = [proc[p] EXCEPT !.pc = "finish"]
        BY <2>2, TypeFacts, GotoStep DEF Steps
      <3>2. n.pc = "finish" /\ n.saved = proc[p].saved /\ n.effects = proc[p].effects
        BY <3>1, TypeFacts DEF Locals
      <3>3. /\ db'.saved = sealed' /\ done' \subseteq sealed'
            /\ Active' = {}
        BY <2>1, <2>2 DEF IInv, StagesSealed, SealedFirst, Active
      <3> QED
        BY <1>1, <2>1, <2>2, <3>1, <3>2, <3>3, TypeFacts, StepKeeps DEF Task
    <2>3. ASSUME NEW t \in Active,
                 proc' = [proc EXCEPT ![p].pc = "running", ![p].next = t]
          PROVE  IInv'
      <3> DEFINE n == [proc[p] EXCEPT !.pc = "running", !.next = t]
      <3>1. t \in Tasks
        BY ActiveTasks
      <3>2. n \in Locals /\ n.pc = "running" /\ n.saved = proc[p].saved
                         /\ n.effects = proc[p].effects
        BY <3>1, TypeFacts DEF Locals, Steps
      <3>3. proc' = [proc EXCEPT ![p] = n]
        BY <2>3, TypeFacts
      <3> HIDE DEF n
      <3> QED
        BY <1>1, <2>1, <3>2, <3>3, TypeFacts, QuietStepKeeps DEF Task
    <2> QED
      BY <1>3, <2>2, <2>3 DEF ReadActiveTasks
  <1> QED
    BY <1>2, <1>3, TypeFacts

LEMMA SetRunningKeeps == ASSUME IInv, NEW p \in Procs, SetRunning(p) PROVE IInv'
  <1>1. \E s \in Steps \ {"complete", "finish"} :
           Goto(p, s) /\ (p \in Requests /\ s \in OnTask => Named(proc[p].effects))
    BY DEF IInv, RequestsNamed, SetRunning, OnTask, Steps
  <1>2. pi' \in Instances
    BY TypeFacts DEF SetRunning, Instances, Locals
  <1> QED
    BY <1>1, <1>2, TypeFacts, MoveKeeps DEF SetRunning

LEMMA AdvanceKeeps == ASSUME IInv, NEW p \in Procs, Advance(p) PROVE IInv'
  <1>1. p \in Requests => Named(proc[p].effects)
    BY DEF IInv, RequestsNamed, Advance, OnTask, Steps
  <1>2. CASE Checkpoint(p, proc[p].effects, "synced")
    BY <1>1, <1>2, TypeFacts, CheckpointKeeps DEF Advance, Steps, Task
  <1>3. CASE Fail(p, "VERSION_CONFLICT") /\ UNCHANGED <<db, fresh>>
    <2>1. \E c \in Codes : Fail(p, c) /\ (p \in Requests => Named(proc[p].effects))
      BY <1>1, <1>3 DEF Codes
    <2> QED
      BY <1>3, <2>1, TypeFacts, MoveKeeps DEF Advance
  <1> QED
    BY <1>2, <1>3 DEF Advance

(* The one place that completes a transaction: nothing was left when the   *)
(* tasks were read, and nothing has come since.                            *)
LEMMA EndWorkflowKeeps ==
    ASSUME IInv, NEW p \in Procs, Finish(p) \/ Cancel(p)
    PROVE  IInv'
  <1>1. PICK step \in {"finish", "cancel"}, tx \in {"completed", "rejected"},
             inst \in {"completed", "cancelled"} :
           EndWorkflow(p, step, tx, inst) /\ (tx = "completed" => step = "finish")
    BY DEF Finish, Cancel
  <1>2. p \in Requests => Named(proc[p].effects)
    BY <1>1 DEF IInv, RequestsNamed, EndWorkflow, OnTask, Steps
  <1>3. UNCHANGED <<sealed, holder, late, done, alive, guard, faults>>
    BY <1>1 DEF EndWorkflow
  <1>4. CASE /\ pi' = [status |-> inst, stage |-> NoTask]
             /\ db' = [db EXCEPT !.status = tx, !.saved = Frozen(proc[p].saved),
                                 !.effects = proc[p].effects]
             /\ fresh' = {}
             /\ Goto(p, "synced")
    <2>1. PICK n \in Locals : /\ proc' = [proc EXCEPT ![p] = n]
                              /\ n = [proc[p] EXCEPT !.pc = "synced"]
      BY <1>4, TypeFacts, GotoStep DEF Steps
    <2>2. n.pc = "synced" /\ n.saved = proc[p].saved /\ n.effects = proc[p].effects
      BY <2>1, TypeFacts DEF Locals
    <2>3. Frozen(proc[p].saved) = sealed
      BY TypeFacts DEF IInv, StagesSealed, Frozen
    <2>4. db' \in Rows /\ db'.saved = sealed /\ db'.status = tx
      BY <1>4, <2>3, TypeFacts DEF Rows, Statuses
    <2>5. pi' \in Instances
      BY <1>4 DEF Instances
    <2>6. done' \subseteq sealed' /\ (Active = {} => Active' = {})
      BY <1>3 DEF IInv, SealedFirst, Active
    <2>7. db'.status = "completed" => Active = {}
      BY <1>1, <2>4 DEF EndWorkflow, IInv, NothingLeft
    <2> QED
      BY <1>2, <1>3, <1>4, <2>1, <2>2, <2>4, <2>5, <2>6, <2>7, TypeFacts, StepKeeps DEF Task
  <1>5. CASE Fail(p, "VERSION_CONFLICT") /\ UNCHANGED <<db, fresh, pi>>
    <2>1. \E c \in Codes : Fail(p, c) /\ (p \in Requests => Named(proc[p].effects))
      BY <1>2, <1>5 DEF Codes
    <2> QED
      BY <1>3, <1>5, <2>1, TypeFacts, MoveKeeps
  <1> QED
    BY <1>1, <1>4, <1>5 DEF EndWorkflow

LEMMA MarkSyncedKeeps == ASSUME IInv, NEW p \in Procs, MarkSynced(p) PROVE IInv'
  <1> DEFINE effects == [proc[p].effects EXCEPT !.synced = TRUE]
  <1>1. effects \in Effects /\ SameCompletion(effects, proc[p].effects)
    BY TypeFacts DEF Effects, SameCompletion
  <1>2. p \in Requests => Named(proc[p].effects)
    BY DEF IInv, RequestsNamed, MarkSynced, OnTask, Steps
  <1>3. Checkpoint(p, effects, "unlock")
    BY DEF MarkSynced
  <1> HIDE DEF effects
  <1> QED
    BY <1>1, <1>2, <1>3, NamedSame, CheckpointKeeps DEF MarkSynced, Steps

LEMMA ReleaseLockKeeps == ASSUME IInv, NEW p \in Procs, ReleaseLock(p) PROVE IInv'
  <1>1. \E s \in Steps \ {"complete", "finish"} :
           Goto(p, s) /\ (p \in Requests /\ s \in OnTask => Named(proc[p].effects))
    BY DEF IInv, RequestsNamed, ReleaseLock, OnTask, Steps
  <1>2. holder' \in Holders /\ late' \in SUBSET Keys
    BY TypeFacts DEF ReleaseLock, Holders
  <1> QED
    BY <1>1, <1>2, TypeFacts, MoveKeeps DEF ReleaseLock

(* The guard's sets only ever hold such keys. *)
LEMMA GuardType ==
    ASSUME guard \in Guards, NEW p \in Procs, Named(proc[p].effects),
           CommitGuard(p) \/ ReleaseGuard(p)
    PROVE  guard' \in Guards
  BY KeyType DEF Guards, CommitGuard, ReleaseGuard

LEMMA MarkDoneKeeps == ASSUME IInv, NEW p \in Procs, MarkDone(p) PROVE IInv'
  <1> DEFINE effects == [proc[p].effects EXCEPT !.released = TRUE, !.service = TRUE,
                                                !.status = "completed"]
  <1>1. effects \in Effects
    BY TypeFacts DEF Effects
  <1>2. Persist(p, proc[p].saved, effects) /\ Leave(p)
    BY DEF MarkDone
  <1>3. UNCHANGED <<sealed, pi, holder, late, done, alive, faults>>
    BY DEF MarkDone
  <1>4. guard' \in Guards
    <2>1. CASE p = Worker
      BY <2>1, TypeFacts DEF MarkDone
    <2>2. CASE p # Worker
      <3>1. Named(proc[p].effects)
        BY <2>2 DEF Procs, IInv, RequestsNamed, MarkDone, OnTask, Steps
      <3> QED
        BY <2>2, <3>1, TypeFacts, GuardType DEF MarkDone
    <2> QED
      BY <2>1, <2>2
  <1>5. PICK n \in Locals : /\ proc' = [proc EXCEPT ![p] = n]
                            /\ n.pc \in {"idle", "ended"}
                            /\ n.saved = {}
    BY <1>2, TypeFacts, LeaveStep
  <1>6. sealed' = sealed \cup proc[p].saved
    BY <1>3, TypeFacts
  <1> HIDE DEF effects
  <1> QED
    BY <1>1, <1>2, <1>3, <1>4, <1>5, <1>6, TypeFacts, WriteKeeps DEF OnTask

-----------------------------------------------------------------------------
LEMMA BreakKeeps == ASSUME IInv, NEW p \in Procs, Break(p) PROVE IInv'
  <1>1. \E c \in Codes : Fail(p, c) /\ (p \in Requests => Named(proc[p].effects))
    BY DEF IInv, RequestsNamed, Break, Breakable, OnTask, Steps, Codes
  <1>2. faults' \in Nat
    BY TypeFacts DEF Break, FaultHappens
  <1> QED
    BY <1>1, <1>2, TypeFacts, MoveKeeps DEF Break

(* A process that leaves its work, or a request that turns to the handler, *)
(* having stored its failure or not.                                       *)
LEMMA CaughtKeeps ==
    ASSUME IInv, NEW p \in Procs, RecordFailure(p),
           Leave(p) \/ (Goto(p, "resolve") /\ Named(proc[p].effects)),
           UNCHANGED <<sealed, pi, holder, late, done, alive>>, guard' \in Guards
    PROVE  IInv'
  <1> DEFINE effects == [proc[p].effects EXCEPT !.status = "failed"]
  <1>1. PICK n \in Locals : /\ proc' = [proc EXCEPT ![p] = n]
                            /\ n.pc \in {"idle", "ended", "resolve"}
                            /\ n.saved \subseteq sealed
                            /\ n.pc = "resolve" => Named(n.effects)
    <2>1. CASE Leave(p)
      BY <2>1, TypeFacts, LeaveStep
    <2>2. CASE Goto(p, "resolve") /\ Named(proc[p].effects)
      <3>1. PICK n \in Locals : /\ proc' = [proc EXCEPT ![p] = n]
                                /\ n = [proc[p] EXCEPT !.pc = "resolve"]
        BY <2>2, TypeFacts, GotoStep DEF Steps
      <3>2. n.pc = "resolve" /\ n.saved = proc[p].saved /\ n.effects = proc[p].effects
        BY <3>1, TypeFacts DEF Locals
      <3> QED
        BY <2>2, <3>1, <3>2, TypeFacts DEF Task
    <2> QED
      BY <2>1, <2>2
  <1>2. faults' \in Nat
    BY TypeFacts DEF RecordFailure, FaultHappens
  <1>3. ASSUME NEW older \in SUBSET proc[p].saved, Persist(p, older, effects)
        PROVE  IInv'
    <2>1. effects \in Effects
      BY TypeFacts DEF Effects
    <2>2. sealed' = sealed \cup older /\ older \in SUBSET Tasks
      BY TypeFacts
    <2> HIDE DEF effects
    <2> QED
      BY <1>1, <1>2, <1>3, <2>1, <2>2, TypeFacts, WriteKeeps DEF OnTask
  <1>4. CASE UNCHANGED <<db, fresh>>
    BY <1>1, <1>2, <1>4, TypeFacts, QuietStepKeeps DEF OnTask
  <1> QED
    BY <1>3, <1>4 DEF RecordFailure

LEMMA CatchFailureKeeps ==
    ASSUME IInv, NEW r \in Requests, CatchFailure(r) PROVE IInv'
  <1>1. r \in Procs /\ Named(proc[r].effects)
    BY DEF Procs, IInv, RequestsNamed, CatchFailure, OnTask, Steps
  <1>2. guard' \in Guards
    BY <1>1, TypeFacts, GuardType DEF CatchFailure
  <1>3. Leave(r) \/ (Goto(r, "resolve") /\ Named(proc[r].effects))
    BY <1>1 DEF CatchFailure
  <1> QED
    BY <1>1, <1>2, <1>3, CaughtKeeps DEF CatchFailure

LEMMA CatchInWorkerKeeps == ASSUME IInv, CatchInWorker PROVE IInv'
  BY TypeFacts, CaughtKeeps DEF CatchInWorker, Procs

(* The handler copies the row, and with it only sealed stages. *)
LEMMA ResolveFailureKeeps ==
    ASSUME IInv, NEW r \in Requests, ResolveFailure(r) PROVE IInv'
  <1> DEFINE n == [proc[r] EXCEPT !.pc = "delete", !.saved = db.saved,
                                  !.effects = db.effects, !.pi = pi]
  <1>1. r \in Procs
    BY DEF Procs
  <1>2. CASE Leave(r)
    BY <1>1, <1>2, TypeFacts, MoveKeeps DEF ResolveFailure
  <1>3. CASE proc' = [proc EXCEPT ![r].pc = "delete", ![r].saved = db.saved,
                                  ![r].effects = db.effects, ![r].pi = pi]
    <2>1. db.saved \in SUBSET Tasks /\ db.saved = sealed /\ db.effects \in Effects
      BY TypeFacts DEF Rows, IInv, StagesSealed
    <2>2. n \in Locals /\ n.pc = "delete" /\ n.saved = sealed
      BY <1>1, <2>1, TypeFacts DEF Locals, Steps
    <2>3. proc' = [proc EXCEPT ![r] = n]
      BY <1>1, <1>3, TypeFacts
    <2> HIDE DEF n
    <2> QED
      BY <1>1, <2>2, <2>3, TypeFacts, QuietStepKeeps DEF ResolveFailure, OnTask
  <1> QED
    BY <1>2, <1>3 DEF ResolveFailure

LEMMA HandlerMoveKeeps ==
    ASSUME IInv, NEW r \in Requests,
           DeleteInstance(r) \/ CheckStatus(r) \/ HandlerBreaks(r)
    PROVE  IInv'
  <1>1. r \in Procs
    BY DEF Procs
  <1>2. alive' \in BOOLEAN /\ (alive' => alive)
    <2>1. \/ alive' = alive
          \/ alive' = (alive /\ proc[r].pi.status = "cancelled")
      BY DEF DeleteInstance, CheckStatus, HandlerBreaks
    <2>2. alive \in BOOLEAN
      BY TypeFacts
    <2>3. CASE alive' = alive
      BY <2>2, <2>3, Zenon
    <2>4. CASE alive' = (alive /\ proc[r].pi.status = "cancelled")
      BY <2>4, Zenon
    <2> QED
      BY <2>1, <2>3, <2>4
  <1>3. faults' \in Nat
    BY TypeFacts DEF DeleteInstance, CheckStatus, HandlerBreaks, FaultHappens
  <1>4. fresh' \in SUBSET Procs
    BY <1>1, TypeFacts DEF DeleteInstance, CheckStatus, HandlerBreaks
  <1>5. \/ Leave(r)
        \/ Goto(r, "check")
        \/ Goto(r, "reject")
    BY DEF DeleteInstance, CheckStatus, HandlerBreaks, Goto
  <1>6. \/ Leave(r)
        \/ \E s \in Steps \ {"complete", "finish"} :
               Goto(r, s) /\ (r \in Requests /\ s \in OnTask => Named(proc[r].effects))
    BY <1>5 DEF Steps, OnTask
  <1>7. UNCHANGED <<db, sealed, pi, holder, late, done, guard>>
    BY DEF DeleteInstance, CheckStatus, HandlerBreaks
  <1> QED
    BY <1>1, <1>2, <1>3, <1>4, <1>6, <1>7, TypeFacts, MoveKeeps

(* The handler writes data it read before the version it writes over; what *)
(* was sealed since stays.                                                 *)
LEMMA RejectTransactionKeeps ==
    ASSUME IInv, NEW r \in Requests, RejectTransaction(r) PROVE IInv'
  <1>1. r \in Procs
    BY DEF Procs
  <1>2. PICK n \in Locals : /\ proc' = [proc EXCEPT ![r] = n]
                            /\ n.pc \in {"idle", "ended"}
                            /\ n.saved = {}
    BY <1>1, TypeFacts, LeaveStep DEF RejectTransaction
  <1>3. UNCHANGED <<sealed, done, alive, guard, faults>>
    BY DEF RejectTransaction
  <1>4. db' \in Rows /\ db'.saved = sealed /\ db'.status = "rejected"
    <2>1. Frozen(proc[r].saved) = sealed
      BY <1>1, TypeFacts DEF IInv, StagesSealed, Frozen
    <2>2. CASE InDate(r)
      BY <1>1, <2>1, <2>2, TypeFacts DEF RejectTransaction, Rows, Locals, Statuses
    <2>3. CASE ~InDate(r)
      BY <2>3, TypeFacts DEF RejectTransaction, Rows, Statuses, IInv, StagesSealed
    <2> QED
      BY <2>2, <2>3
  <1>5. pi' \in Instances /\ holder' \in Holders /\ late' \in SUBSET Keys /\ fresh' \in SUBSET Procs
    BY TypeFacts DEF RejectTransaction, Instances, Holders
  <1>6. done' \subseteq sealed' /\ (Active = {} => Active' = {})
    BY <1>3 DEF IInv, SealedFirst, Active
  <1> QED
    BY <1>1, <1>2, <1>3, <1>4, <1>5, <1>6, TypeFacts, StepKeeps DEF OnTask

LEMMA ResumeKeeps == ASSUME IInv, Resume PROVE IInv'
  <1> DEFINE effects == [db.effects EXCEPT !.attempts = db.effects.attempts + 1]
             n == [pc |-> RecoveryStep(db.effects), saved |-> db.saved,
                   next |-> NoTask, pi |-> pi, err |-> "none", effects |-> effects]
  <1>1. Worker \in Procs /\ Worker \notin Requests
    BY WorkerAssumption DEF Procs
  <1>2. db.saved \in SUBSET Tasks /\ db.saved = sealed /\ db.effects \in Effects
    BY TypeFacts DEF Rows, IInv, StagesSealed
  <1>3. effects \in Effects
    BY <1>2 DEF Effects
  <1>4. RecoveryStep(db.effects) \in {"service", "sync", "unlock"}
    BY DEF RecoveryStep
  <1>5. proc' = [proc EXCEPT ![Worker] = n]
    BY DEF Resume
  <1> HIDE DEF effects
  <1>6. n \in Locals /\ n.pc \in {"service", "sync", "unlock"} /\ n.saved = sealed
    BY <1>2, <1>3, <1>4, TypeFacts DEF Locals, Steps, Codes
  <1>7. /\ UNCHANGED <<db, sealed, pi, holder, late, done, alive, guard, faults>>
        /\ fresh' \in SUBSET Procs
    BY <1>1, TypeFacts DEF Resume
  <1> HIDE DEF n
  <1> QED
    BY <1>1, <1>5, <1>6, <1>7, TypeFacts, QuietStepKeeps

(* A crash forgets what was held and writes nothing. *)
LEMMA CrashKeeps == ASSUME IInv, Crash PROVE IInv'
  <1>1. \A p \in Procs : proc'[p] \in {Idle, Ended}
    BY DEF Crash
  <1>2. \A p \in Procs : proc'[p].pc \in {"idle", "ended"} /\ proc'[p].saved = {}
    BY <1>1 DEF Idle, Ended
  <1>3. TypeOK'
    <2>1. proc' \in [Procs -> Locals]
      BY IdleType DEF Crash
    <2>2. guard' \in Guards /\ faults' \in Nat
      BY TypeFacts DEF Crash, Guards, FaultHappens
    <2> QED
      BY <2>1, <2>2, TypeFacts DEF Crash, TypeOK
  <1>4. UNCHANGED <<db, sealed, done, alive>> /\ Active' = Active
    BY DEF Crash, Active
  <1> QED
    BY <1>2, <1>3, <1>4 DEF IInv, RequestsNamed, OnTask, StagesSealed, SealedFirst,
                            NothingLeft, CompletedMeansEnded, Procs

-----------------------------------------------------------------------------
(* Every step keeps the invariant. *)
LEMMA NextInvariant == IInv /\ [Next]_vars => IInv'
  <1> SUFFICES ASSUME IInv, [Next]_vars PROVE IInv'
    OBVIOUS
  <1>1. ASSUME NEW t \in Tasks, NEW u \in Users, PickUp(u, t) \/ TakeOver(u, t)
        PROVE  IInv'
    BY <1>1, PickUpKeeps
  <1>10. ASSUME NEW t \in Tasks, GiveUp(t) PROVE IInv'
    BY <1>10, GiveUpKeeps
  <1>2. ASSUME NEW r \in Requests, Arrive(r) PROVE IInv'
    BY <1>2, LoadKeeps DEF Arrive
  <1>3. ASSUME NEW p \in Procs, Progress(p) PROVE IInv'
    BY <1>3, RunServiceTasksKeeps, ReadActiveTasksKeeps, SetRunningKeeps, AdvanceKeeps,
       EndWorkflowKeeps, MarkSyncedKeeps, ReleaseLockKeeps, MarkDoneKeeps DEF Progress
  <1>4. ASSUME NEW r \in Requests, Handle(r) PROVE IInv'
    BY <1>3, <1>4, BeginKeeps, SaveLocalKeeps, CompleteInCamundaKeeps, MarkCamundaDoneKeeps,
       CatchFailureKeeps, ResolveFailureKeeps, HandlerMoveKeeps, RejectTransactionKeeps
    DEF Handle, Procs
  <1>5. ASSUME NEW r \in Requests, HandlerBreaks(r) PROVE IInv'
    BY <1>5, HandlerMoveKeeps
  <1>6. CASE Work
    BY <1>3, <1>6, ResumeKeeps, CheckSyncedKeeps, CatchInWorkerKeeps DEF Work, Procs
  <1>7. ASSUME NEW p \in Procs, Break(p) PROVE IInv'
    BY <1>7, BreakKeeps
  <1>8. CASE Crash
    BY <1>8, CrashKeeps
  <1>9. CASE UNCHANGED vars
    BY <1>9 DEF vars, IInv, TypeOK, RequestsNamed, StagesSealed, SealedFirst, NothingLeft,
                CompletedMeansEnded, Active, Task
  <1> QED
    BY <1>1, <1>2, <1>4, <1>5, <1>6, <1>7, <1>8, <1>9, <1>10 DEF Next

LEMMA Invariant == Spec => []IInv
  BY InitInvariant, NextInvariant, PTL DEF Spec

(* The state is well typed whatever the requests, the job, the handler and *)
(* the failures do: in particular the row never gets a status or a record  *)
(* that the recovery's query does not know.                                *)
THEOREM TypeCorrect == Spec => []TypeOK
  <1>1. IInv => TypeOK
    BY DEF IInv
  <1> QED
    BY <1>1, Invariant, PTL

(* completeTaskCore.js saves the form before it asks Camunda to go on: no  *)
(* task is done in Camunda whose stage is not in the row.                  *)
THEOREM FormsSaved == Spec => []SavedBeforeDone
  <1>1. IInv => SavedBeforeDone
    BY DEF IInv, StagesSealed, SealedFirst, SavedBeforeDone
  <1> QED
    BY <1>1, Invariant, PTL

(* runApproveFlow completes a transaction only when no task is left, and   *)
(* no task appears afterwards.                                             *)
THEOREM CompletionCorrect == Spec => []CompletedMeansEnded
  <1>1. IInv => CompletedMeansEnded
    BY DEF IInv, NothingLeft
  <1> QED
    BY <1>1, Invariant, PTL

(* A stage that has been sealed stays sealed. *)
LEMMA SealsStay == [Next]_vars => sealed \subseteq sealed'
  <1> SUFFICES ASSUME [Next]_vars PROVE sealed \subseteq sealed'
    OBVIOUS
  <1>1. ASSUME NEW p \in Procs, Progress(p) PROVE sealed' = sealed
    BY <1>1 DEF Progress, RunServiceTasks, ReadActiveTasks, SetRunning, Advance, Finish,
                Cancel, EndWorkflow, MarkSynced, ReleaseLock, MarkDone
  <1>2. ASSUME NEW r \in Requests, Handle(r) PROVE sealed \subseteq sealed'
    BY <1>1, <1>2 DEF Handle, Procs, Begin, SaveLocal, CompleteInCamunda, MarkCamundaDone,
                      CatchFailure, ResolveFailure, DeleteInstance, CheckStatus,
                      RejectTransaction
  <1>3. ASSUME Work PROVE sealed' = sealed
    BY <1>1, <1>3 DEF Work, Procs, Resume, CheckSynced, CatchInWorker
  <1> QED
    BY <1>2, <1>3 DEF Next, PickUp, TakeOver, GiveUp, Arrive, Load, HandlerBreaks, Break, Crash, vars

(* No write of the row drops a stage: neither the merge after a lost race, *)
(* nor a flow's write, nor the handler's of data it read long before.      *)
THEOREM StagesKept == Spec => NoStageLost
  <1>1. IInv /\ IInv' /\ [Next]_vars => [db.saved \subseteq db'.saved]_vars
    BY SealsStay DEF IInv, StagesSealed
  <1> QED
    BY <1>1, Invariant, PTL DEF Spec, NoStageLost

-----------------------------------------------------------------------------
(* The record                                                              *)
(*                                                                         *)
(* The argument: as long as no flag of another completion has come in,     *)
(* merging two records joins flags of one employee's completion of one     *)
(* task; and what a flag says stays true: a task that is done stays done,  *)
(* its lock is not taken again but by who comes late, and an instance that *)
(* has been advanced or ended is never set back.                           *)

Synced == db.status # "in_progress" \/ pi.stage # NoTask

(* The employee no longer has the lock, or took it after the task's end.   *)
Free(e) == holder[e.task] # e.user \/ <<e.user, e.task>> \in late

(* A record, of the row or carried by a process, that says what is so. *)
Truth(e) ==
    ~e.mixed => /\ e.camunda => e.task \in done /\ e.user \in Users
                /\ e.synced => Synced
                /\ e.released => e.camunda /\ Free(e)

(* The steps after Camunda has taken the task *)
AfterCamunda == {"mark", "service", "sync", "read", "running", "advance", "finish",
                 "cancel", "synced", "unlock", "done"}

(* What process p knows where it is, with l in its hands. *)
Fits(p, l) ==
    /\ Truth(l.effects)
    /\ l.pc \in AfterCamunda => l.effects.camunda
    /\ l.pc = "running" => l.next # NoTask
    /\ l.pc \in {"advance", "synced"} => Synced
    /\ l.pc = "done" /\ ~l.effects.mixed => Free(l.effects)
    /\ l.pi.stage # NoTask => Synced
    /\ p = Worker /\ l.pc # "idle" => l.effects.camunda

RecordInv ==
    /\ Truth(db.effects)
    /\ \A p \in Procs : Fits(p, proc[p])

(* What no step takes back *)
Stable ==
    /\ done \subseteq done'
    /\ late \subseteq late'
    /\ \A t \in done, u \in Users :
           holder'[t] = u => holder[t] = u \/ <<u, t>> \in late'
    /\ Synced => Synced'

LEMMA FreeStays ==
    ASSUME Stable, NEW e, e.task \in done, e.user \in Users, Free(e)
    PROVE  Free(e)'
  BY DEF Stable, Free

LEMMA TruthStays == ASSUME Stable, NEW e, Truth(e) PROVE Truth(e)'
  BY FreeStays DEF Stable, Truth

LEMMA FitsStays == ASSUME Stable, NEW p, NEW l, Fits(p, l) PROVE Fits(p, l)'
  <1>1. Truth(l.effects)'
    <2>1. PICK e : e = l.effects
      OBVIOUS
    <2> QED
      BY <2>1, TruthStays DEF Fits
  <1>2. l.pc = "done" /\ ~l.effects.mixed => Free(l.effects)'
    <2>1. PICK e : e = l.effects
      OBVIOUS
    <2>2. l.pc = "done" /\ ~e.mixed => e.task \in done /\ e.user \in Users /\ Free(e)
      BY <2>1 DEF Fits, Truth, AfterCamunda
    <2> QED
      BY <2>1, <2>2, FreeStays
  <1> QED
    BY <1>1, <1>2 DEF Fits, Stable

(* Most steps leave what is stable alone. *)
LEMMA QuietIsStable ==
    ASSUME UNCHANGED <<pi, holder, late>>, db'.status = db.status, done \subseteq done'
    PROVE  Stable
  BY DEF Stable, Synced

(* A record that was stored before and one that is brought: either they    *)
(* are of one completion, or the merge is marked as mixed.                 *)
LEMMA MergeTrue ==
    ASSUME IInv, NEW e \in Effects, NEW f \in Effects, Truth(e), Truth(f)
    PROVE  Truth(MergedEffects(e, f))
  <1>1. PICK g : g = MergedEffects(e, f)
    OBVIOUS
  <1>2. /\ g.task = f.task /\ g.user = f.user /\ g.camunda = (e.camunda \/ f.camunda)
        /\ g.synced = (e.synced \/ f.synced) /\ g.released = (e.released \/ f.released)
        /\ ~g.mixed => /\ ~e.mixed /\ ~f.mixed
                       /\ e.task = NoTask \/ SameCompletion(e, f)
    BY <1>1 DEF MergedEffects
  <1>3. ~g.mixed /\ e.camunda => SameCompletion(e, f)
    BY <1>2, TypeFacts, TasksAssumption DEF Truth
  <1>4. SameCompletion(e, f) => e.task = f.task /\ e.user = f.user
    BY DEF SameCompletion
  <1>5. ~g.mixed /\ e.camunda => e.task = g.task /\ e.user = g.user
    BY <1>2, <1>3, <1>4
  <1>6. ~g.mixed /\ e.released => Free(g)
    BY <1>2, <1>5 DEF Truth, Free
  <1>7. ~g.mixed /\ f.released => Free(g)
    BY <1>2 DEF Truth, Free
  <1>8. ~g.mixed => /\ g.camunda => g.task \in done /\ g.user \in Users
                    /\ g.synced => Synced
    BY <1>2, <1>5 DEF Truth
  <1>9. ~g.mixed /\ g.released => g.camunda
    BY <1>2 DEF Truth
  <1>10. Truth(g)
    BY <1>2, <1>6, <1>7, <1>8, <1>9 DEF Truth
  <1> QED
    BY <1>1, <1>10

(* What a process goes on with, and what the row then says.                *)
LEMMA RecordStep ==
    ASSUME IInv, RecordInv, Stable, NEW p \in Procs, NEW n,
           proc' = [proc EXCEPT ![p] = n], Fits(p, n)',
           NEW g, db'.effects = g, Truth(g)
    PROVE  RecordInv'
  <1>1. \A q \in Procs : proc'[q] = IF q = p THEN n ELSE proc[q]
    BY TypeFacts
  <1>2. Truth(db.effects)'
    BY TruthStays
  <1>3. \A q \in Procs : Fits(q, proc[q])'
    <2> TAKE q \in Procs
    <2>1. CASE q = p
      BY <1>1, <2>1
    <2>2. CASE q # p
      <3>1. PICK l : l = proc[q]
        OBVIOUS
      <3>2. Fits(q, l)'
        BY <3>1, FitsStays DEF RecordInv
      <3> QED
        BY <1>1, <2>2, <3>1, <3>2
    <2> QED
      BY <2>1, <2>2
  <1> QED
    BY <1>2, <1>3 DEF RecordInv

(* The row's record is not written. *)
LEMMA RecordMove ==
    ASSUME IInv, RecordInv, Stable, NEW p \in Procs, NEW n,
           proc' = [proc EXCEPT ![p] = n], Fits(p, n)', db'.effects = db.effects
    PROVE  RecordInv'
  <1>1. PICK g : g = db.effects
    OBVIOUS
  <1>2. db'.effects = g /\ Truth(g)
    BY <1>1 DEF RecordInv
  <1> QED
    BY <1>2, RecordStep

(* The row's record is written in date or merged. *)
LEMMA RecordWrite ==
    ASSUME IInv, RecordInv, Stable, NEW p \in Procs, NEW n,
           proc' = [proc EXCEPT ![p] = n], Fits(p, n)',
           NEW stages, NEW effects \in Effects, Persist(p, stages, effects),
           Truth(effects)
    PROVE  RecordInv'
  <1>1. PICK g : g = EffectsBy(p, effects)
    OBVIOUS
  <1>2. db.effects \in Effects /\ db \in Rows
    BY TypeFacts DEF Rows
  <1>3. Truth(g)
    BY <1>1, <1>2, MergeTrue DEF EffectsBy, RecordInv
  <1>4. db'.effects = g
    BY <1>1, <1>2 DEF Persist, Rows
  <1> QED
    BY <1>3, <1>4, RecordStep

LEMMA PersistStatus ==
    ASSUME IInv, NEW p, NEW stages, NEW effects, Persist(p, stages, effects)
    PROVE  db'.status = db.status
  BY TypeFacts DEF Persist, Rows

(* What a process carries, by name *)
LEMMA Carried ==
    ASSUME IInv, RecordInv, NEW p \in Procs
    PROVE  /\ Fits(p, proc[p]) /\ Truth(proc[p].effects) /\ proc[p] \in Locals
           /\ proc[p].effects \in Effects /\ Task(p) = proc[p].effects.task
           /\ proc \in [Procs -> Locals]
  BY TypeFacts DEF RecordInv, Fits, Task

LEMMA IdleFits ==
    ASSUME NEW p PROVE Fits(p, Idle) /\ (p # Worker => Fits(p, Ended))
  <1>1. /\ ~NoEffects.camunda /\ ~NoEffects.synced /\ ~NoEffects.released
    BY DEF NoEffects, InitEffects
  <1>2. /\ Idle.pc = "idle" /\ Idle.effects = NoEffects /\ Idle.pi.stage = NoTask
        /\ Ended.pc = "ended" /\ Ended.effects = NoEffects /\ Ended.pi.stage = NoTask
    BY DEF Idle, Ended, NotStarted
  <1> QED
    BY <1>1, <1>2 DEF Fits, Truth, AfterCamunda

(* Who leaves, fails, or goes on to a step at which nothing new is known.  *)
LEMMA LeaveFits ==
    ASSUME IInv, NEW p \in Procs, Leave(p), Stable
    PROVE  \E n : proc' = [proc EXCEPT ![p] = n] /\ Fits(p, n)'
  <1>1. PICK n : n = IF p = Worker THEN Idle ELSE Ended
    OBVIOUS
  <1>2. proc' = [proc EXCEPT ![p] = n]
    BY <1>1 DEF Leave
  <1>3. Fits(p, n)
    BY <1>1, IdleFits
  <1>4. Fits(p, n)'
    BY <1>3, FitsStays
  <1> QED
    BY <1>2, <1>4

LEMMA FailFits ==
    ASSUME IInv, RecordInv, NEW p \in Procs, NEW c, Fail(p, c), Stable,
           p # Worker \/ proc[p].pc # "idle"
    PROVE  \E n : /\ proc' = [proc EXCEPT ![p] = n] /\ Fits(p, n)'
  <1>1. PICK n : n = [proc[p] EXCEPT !.pc = "caught", !.err = c]
    OBVIOUS
  <1>2. /\ proc' = [proc EXCEPT ![p] = n] /\ n.pc = "caught"
        /\ n.effects = proc[p].effects /\ n.pi = proc[p].pi
    BY <1>1, Carried DEF Fail, Locals
  <1>3. Fits(p, n)
    BY <1>2, Carried DEF Fits, AfterCamunda
  <1>4. Fits(p, n)'
    BY <1>3, FitsStays
  <1> QED
    BY <1>2, <1>4

LEMMA GotoFits ==
    ASSUME IInv, RecordInv, NEW p \in Procs, NEW s, Goto(p, s), Stable,
           s \in AfterCamunda \/ p = Worker => proc[p].effects.camunda,
           s # "running",
           s \in {"advance", "synced"} => Synced',
           s # "done"
    PROVE  \E n : proc' = [proc EXCEPT ![p] = n] /\ Fits(p, n)'
  <1>1. PICK n : n = [proc[p] EXCEPT !.pc = s]
    OBVIOUS
  <1>2. /\ proc' = [proc EXCEPT ![p] = n] /\ n.pc = s
        /\ n.effects = proc[p].effects /\ n.pi = proc[p].pi
    BY <1>1, Carried DEF Goto, Locals
  <1>3. PICK e : e = proc[p].effects
    OBVIOUS
  <1>4. Truth(e)'
    BY <1>3, Carried, TruthStays
  <1>5. n.pi.stage # NoTask => Synced'
    BY <1>2, Carried DEF Fits, Stable
  <1>6. n.effects = e
    BY <1>2, <1>3
  <1> QED
    BY <1>2, <1>3, <1>4, <1>5, <1>6 DEF Fits

-----------------------------------------------------------------------------
(* The steps and the record                                                *)

LEMMA RequestIsNoWorker == ASSUME NEW r \in Requests PROVE r # Worker /\ r \in Procs
  BY WorkerAssumption DEF Procs

(* A step of nobody in the pipeline *)
LEMMA RecordOutside ==
    ASSUME RecordInv, Stable, UNCHANGED <<db, proc>> PROVE RecordInv'
  <1>1. PICK e : e = db.effects
    OBVIOUS
  <1>2. Truth(e)'
    BY <1>1, TruthStays DEF RecordInv
  <1>3. \A q \in Procs : Fits(q, proc[q])'
    <2> TAKE q \in Procs
    <2>1. PICK l : l = proc[q]
      OBVIOUS
    <2>2. Fits(q, l)'
      BY <2>1, FitsStays DEF RecordInv
    <2> QED
      BY <2>1, <2>2
  <1> QED
    BY <1>1, <1>2, <1>3 DEF RecordInv

LEMMA RecordPickUp ==
    ASSUME IInv, RecordInv, NEW u \in Users, NEW t \in Tasks, PickUp(u, t) \/ TakeOver(u, t)
    PROVE  RecordInv'
  <1>1. /\ holder' = [holder EXCEPT ![t] = u] /\ late \subseteq late'
        /\ t \in done => <<u, t>> \in late'
    BY ActiveTasks DEF PickUp, TakeOver
  <1>2. \A s \in done, v \in Users : holder'[s] = v => holder[s] = v \/ <<v, s>> \in late'
    BY <1>1, TypeFacts DEF Holders
  <1>3. UNCHANGED <<db, proc, done, pi>>
    BY DEF PickUp, TakeOver
  <1>4. Stable
    BY <1>1, <1>2, <1>3 DEF Stable, Synced
  <1> QED
    BY <1>3, <1>4, RecordOutside

LEMMA RecordGiveUp ==
    ASSUME IInv, RecordInv, NEW t \in Tasks, GiveUp(t) PROVE RecordInv'
  <1>1. \A s \in done, v \in Users : holder'[s] = v => holder[s] = v
    BY TypeFacts, UsersAssumption DEF GiveUp, Holders
  <1>2. Stable
    BY <1>1 DEF GiveUp, Stable, Synced
  <1> QED
    BY <1>2, RecordOutside DEF GiveUp

LEMMA RecordLoad ==
    ASSUME IInv, RecordInv, NEW r \in Requests, NEW u \in Users, NEW t \in Tasks,
           NEW reject \in BOOLEAN, Load(r, u, t, reject)
    PROVE  RecordInv'
  <1>1. Stable
    BY QuietIsStable DEF Load
  <1>2. PICK n : n = [proc[r] EXCEPT !.pc = "begin", !.saved = db.saved,
                                     !.effects = InitEffects(t, u, reject)]
    OBVIOUS
  <1>3. /\ proc' = [proc EXCEPT ![r] = n] /\ n.pc = "begin" /\ n.pi = proc[r].pi
        /\ n.effects = InitEffects(t, u, reject)
    BY <1>2, RequestIsNoWorker, Carried DEF Load, Locals
  <1>4. /\ ~n.effects.camunda /\ ~n.effects.synced /\ ~n.effects.released
    BY <1>3 DEF InitEffects
  <1>5. Fits(r, n)
    BY <1>3, <1>4, RequestIsNoWorker, Carried DEF Fits, Truth, AfterCamunda
  <1>6. Fits(r, n)'
    BY <1>1, <1>5, FitsStays
  <1> QED
    BY <1>1, <1>3, <1>6, RequestIsNoWorker, RecordMove DEF Load

LEMMA RecordBegin ==
    ASSUME IInv, RecordInv, NEW r \in Requests, Begin(r) PROVE RecordInv'
  <1>1. Stable
    BY QuietIsStable DEF Begin
  <1>2. \/ Leave(r)
        \/ \E c \in Codes : Fail(r, c)
        \/ Goto(r, "save")
    BY DEF Begin, TakeGuard, Codes
  <1>3. \E n : proc' = [proc EXCEPT ![r] = n] /\ Fits(r, n)'
    BY <1>1, <1>2, RequestIsNoWorker, LeaveFits, FailFits, GotoFits DEF AfterCamunda
  <1> QED
    BY <1>1, <1>3, RequestIsNoWorker, RecordMove DEF Begin

LEMMA RecordSaveLocal ==
    ASSUME IInv, RecordInv, NEW r \in Requests, SaveLocal(r) PROVE RecordInv'
  <1> DEFINE stages == proc[r].saved \cup {Task(r)}
  <1>1. CASE /\ Persist(r, stages, proc[r].effects)
             /\ proc' = [proc EXCEPT ![r].pc = "complete", ![r].saved = stages]
    <2>1. Stable
      BY <1>1, QuietIsStable, PersistStatus DEF SaveLocal
    <2>2. PICK n : n = [proc[r] EXCEPT !.pc = "complete", !.saved = stages]
      OBVIOUS
    <2>3. /\ proc' = [proc EXCEPT ![r] = n] /\ n.pc = "complete" /\ n.pi = proc[r].pi
          /\ n.effects = proc[r].effects
      BY <1>1, <2>2, RequestIsNoWorker, Carried DEF Locals
    <2>5. Fits(r, n)
      BY <2>3, RequestIsNoWorker, Carried DEF Fits, AfterCamunda
    <2>6. Fits(r, n)'
      BY <2>1, <2>5, FitsStays
    <2>7. PICK e \in Effects : e = proc[r].effects
      BY RequestIsNoWorker, Carried
    <2>8. Persist(r, stages, e) /\ Truth(e)
      BY <1>1, <2>7, RequestIsNoWorker, Carried
    <2> QED
      BY <2>1, <2>3, <2>6, <2>8, RequestIsNoWorker, RecordWrite
  <1>2. CASE Fail(r, "STAGE_SEALED") /\ UNCHANGED db
    <2>1. Stable
      BY <1>2, QuietIsStable DEF SaveLocal
    <2>2. \E n : proc' = [proc EXCEPT ![r] = n] /\ Fits(r, n)'
      BY <1>2, <2>1, RequestIsNoWorker, FailFits
    <2> QED
      BY <1>2, <2>1, <2>2, RequestIsNoWorker, RecordMove
  <1> QED
    BY <1>1, <1>2 DEF SaveLocal

LEMMA RecordCompleteInCamunda ==
    ASSUME IInv, RecordInv, NEW r \in Requests, CompleteInCamunda(r) PROVE RecordInv'
  <1>1. Stable
    BY QuietIsStable DEF CompleteInCamunda
  <1>2. CASE \E c : Fail(r, c)
    <2>1. \E n : proc' = [proc EXCEPT ![r] = n] /\ Fits(r, n)'
      BY <1>1, <1>2, RequestIsNoWorker, FailFits
    <2> QED
      BY <1>1, <2>1, RequestIsNoWorker, RecordMove DEF CompleteInCamunda
  <1>3. CASE /\ done' = done \cup {Task(r)}
             /\ proc' = [proc EXCEPT ![r].pc = "mark",
                                     ![r].effects = [@ EXCEPT !.camunda = TRUE]]
    <2>1. PICK f : f = [proc[r].effects EXCEPT !.camunda = TRUE]
      OBVIOUS
    <2>2. PICK n : n = [proc[r] EXCEPT !.pc = "mark", !.effects = f]
      OBVIOUS
    <2>3. /\ proc' = [proc EXCEPT ![r] = n] /\ n.pc = "mark" /\ n.pi = proc[r].pi
          /\ n.effects = f
      BY <1>3, <2>1, <2>2, RequestIsNoWorker, Carried DEF Locals
    <2>4. /\ f.camunda /\ f.task = Task(r) /\ f.user = proc[r].effects.user
          /\ f.synced = proc[r].effects.synced
          /\ f.released = proc[r].effects.released
          /\ f.mixed = proc[r].effects.mixed
      BY <2>1, RequestIsNoWorker, Carried DEF Effects
    <2>5. f.user \in Users
      BY <2>4, RequestIsNoWorker DEF CompleteInCamunda, IInv, RequestsNamed, Named, OnTask, Steps
    <2>6. PICK e : e = proc[r].effects
      OBVIOUS
    <2>7. Truth(e)' /\ (proc[r].pi.stage # NoTask => Synced')
      BY <1>1, <2>6, RequestIsNoWorker, Carried, TruthStays DEF Fits, Stable
    <2>8. Task(r) \in done' /\ Task(r) = e.task
      BY <1>3, <2>6 DEF Task
    <2>9. Truth(f)'
      <3>1. f.task = e.task /\ f.user = e.user /\ f.synced = e.synced
            /\ f.released = e.released /\ f.mixed = e.mixed
        BY <2>4, <2>6, <2>8
      <3>2. Free(f)' <=> Free(e)'
        BY <3>1 DEF Free
      <3> QED
        BY <2>4, <2>5, <2>7, <2>8, <3>1, <3>2 DEF Truth
    <2>10. Fits(r, n)'
      BY <2>3, <2>4, <2>7, <2>9, RequestIsNoWorker DEF Fits, AfterCamunda
    <2> QED
      BY <1>1, <2>3, <2>10, RequestIsNoWorker, RecordMove DEF CompleteInCamunda
  <1> QED
    BY <1>2, <1>3 DEF CompleteInCamunda

(* A checkpoint after Camunda *)
LEMMA RecordGoesOn ==
    ASSUME IInv, RecordInv, NEW p \in Procs, NEW step,
           NEW f \in Effects, NEW e \in Effects, NEW stages, NEW saved,
           Persist(p, stages, f), UNCHANGED <<pi, holder, late, done>>,
           proc' = [proc EXCEPT ![p].pc = step, ![p].saved = saved, ![p].effects = e],
           Truth(f), f.camunda, Truth(e), e.camunda,
           step \in AfterCamunda \ {"running", "done"},
           step \in {"advance", "synced"} => Synced
    PROVE  RecordInv'
  <1>1. Stable
    BY QuietIsStable, PersistStatus
  <1>2. PICK n : n = [proc[p] EXCEPT !.pc = step, !.saved = saved, !.effects = e]
    OBVIOUS
  <1>3. /\ proc' = [proc EXCEPT ![p] = n] /\ n.pc = step /\ n.pi = proc[p].pi
        /\ n.effects = e
    BY <1>2, Carried DEF Locals
  <1>4. Fits(p, n)
    BY <1>3, Carried DEF Fits, AfterCamunda
  <1>5. Fits(p, n)'
    BY <1>1, <1>4, FitsStays
  <1> QED
    BY <1>1, <1>3, <1>5, RecordWrite

LEMMA RecordCheckpoint ==
    ASSUME IInv, RecordInv, NEW p \in Procs, NEW step, NEW f \in Effects,
           Checkpoint(p, f, step), UNCHANGED <<pi, holder, late, done>>,
           Truth(f), f.camunda,
           step \in AfterCamunda \ {"running", "done"},
           step \in {"advance", "synced"} => Synced
    PROVE  RecordInv'
  <1>1. PICK stages : stages = proc[p].saved
    OBVIOUS
  <1>2. PICK saved : saved = SavedBy(p, proc[p].saved)
    OBVIOUS
  <1>3. /\ Persist(p, stages, f)
        /\ proc' = [proc EXCEPT ![p].pc = step, ![p].saved = saved, ![p].effects = f]
    BY <1>1, <1>2, Carried DEF Checkpoint
  <1> QED
    BY <1>3, RecordGoesOn

LEMMA RecordMarkCamundaDone ==
    ASSUME IInv, RecordInv, NEW r \in Requests, MarkCamundaDone(r)
    PROVE  RecordInv'
  <1>1. PICK f : f = [proc[r].effects EXCEPT !.camunda = TRUE]
    OBVIOUS
  <1>2. PICK e : e = [f EXCEPT !.service = f.reject]
    OBVIOUS
  <1>3. /\ Truth(proc[r].effects) /\ proc[r].effects.camunda /\ proc[r].effects \in Effects
    BY RequestIsNoWorker, Carried DEF MarkCamundaDone, Fits, AfterCamunda
  <1>4. f \in Effects /\ f.camunda /\ Truth(f)
    BY <1>1, <1>3 DEF Effects, Truth, Free
  <1>5. e \in Effects /\ e.camunda /\ Truth(e)
    BY <1>2, <1>4 DEF Effects, Truth, Free
  <1>6. PICK stages : stages = proc[r].saved
    OBVIOUS
  <1>7. PICK saved : saved = SavedBy(r, proc[r].saved)
    OBVIOUS
  <1>8. PICK step : step = IF f.reject THEN "read" ELSE "service"
    OBVIOUS
  <1>9. /\ Persist(r, stages, f) /\ UNCHANGED <<pi, holder, late, done>>
        /\ proc' = [proc EXCEPT ![r].pc = step, ![r].saved = saved, ![r].effects = e]
    BY <1>1, <1>2, <1>6, <1>7, <1>8 DEF MarkCamundaDone
  <1>10. step \in {"read", "service"}
    BY <1>8
  <1> QED
    BY <1>4, <1>5, <1>9, <1>10, RequestIsNoWorker, RecordGoesOn DEF AfterCamunda

LEMMA RecordRunServiceTasks ==
    ASSUME IInv, RecordInv, NEW p \in Procs, RunServiceTasks(p) PROVE RecordInv'
  <1>1. PICK f : f = [proc[p].effects EXCEPT !.service = TRUE]
    OBVIOUS
  <1>2. Truth(proc[p].effects) /\ proc[p].effects.camunda /\ proc[p].effects \in Effects
    BY Carried DEF RunServiceTasks, Fits, AfterCamunda
  <1>3. f \in Effects /\ f.camunda /\ Truth(f)
    BY <1>1, <1>2 DEF Effects, Truth, Free
  <1>4. PICK step : step = IF p = Worker THEN RecoveryStep(f) ELSE "read"
    OBVIOUS
  <1>5. step \in {"read", "service", "sync", "unlock"}
    BY <1>4 DEF RecoveryStep
  <1>6. Checkpoint(p, f, step) /\ UNCHANGED <<pi, holder, late, done>>
    BY <1>1, <1>4 DEF RunServiceTasks
  <1> QED
    BY <1>3, <1>5, <1>6, RecordCheckpoint DEF AfterCamunda

LEMMA RecordMarkSynced ==
    ASSUME IInv, RecordInv, NEW p \in Procs, MarkSynced(p) PROVE RecordInv'
  <1>1. PICK f : f = [proc[p].effects EXCEPT !.synced = TRUE]
    OBVIOUS
  <1>2. /\ Truth(proc[p].effects) /\ proc[p].effects.camunda
        /\ proc[p].effects \in Effects /\ Synced
    BY Carried DEF MarkSynced, Fits, AfterCamunda
  <1>3. f \in Effects /\ f.camunda /\ Truth(f)
    BY <1>1, <1>2 DEF Effects, Truth, Free
  <1>4. Checkpoint(p, f, "unlock") /\ UNCHANGED <<pi, holder, late, done>>
    BY <1>1 DEF MarkSynced
  <1> QED
    BY <1>3, <1>4, RecordCheckpoint DEF AfterCamunda

(* Steps of a process after Camunda that do not write the record           *)
LEMMA RecordCheckSynced ==
    ASSUME IInv, RecordInv, NEW p \in Procs, CheckSynced(p) PROVE RecordInv'
  <1>1. Stable
    BY QuietIsStable DEF CheckSynced
  <1>2. Fits(p, proc[p]) /\ proc[p].effects.camunda
    BY Carried DEF CheckSynced, Fits, AfterCamunda
  <1>3. \/ Goto(p, "synced") /\ proc[p].pi.stage \in Active
        \/ Goto(p, "read")
    BY DEF CheckSynced
  <1>4. proc[p].pi.stage \in Active => Synced
    BY <1>2, ActiveTasks, TasksAssumption DEF Fits
  <1>5. \E n : proc' = [proc EXCEPT ![p] = n] /\ Fits(p, n)'
    BY <1>1, <1>2, <1>3, <1>4, GotoFits DEF Stable
  <1> QED
    BY <1>1, <1>5, RecordMove DEF CheckSynced

LEMMA RecordReadActiveTasks ==
    ASSUME IInv, RecordInv, NEW p \in Procs, ReadActiveTasks(p) PROVE RecordInv'
  <1>1. Stable
    BY QuietIsStable DEF ReadActiveTasks
  <1>2. Fits(p, proc[p]) /\ proc[p].effects.camunda
    BY Carried DEF ReadActiveTasks, Fits, AfterCamunda
  <1>3. CASE Goto(p, "cancel") \/ Goto(p, "finish")
    <2>1. \E n : proc' = [proc EXCEPT ![p] = n] /\ Fits(p, n)'
      BY <1>1, <1>2, <1>3, GotoFits
    <2> QED
      BY <1>1, <2>1, RecordMove DEF ReadActiveTasks
  <1>4. ASSUME NEW t \in Active,
               proc' = [proc EXCEPT ![p].pc = "running", ![p].next = t]
        PROVE  RecordInv'
    <2>1. PICK n : n = [proc[p] EXCEPT !.pc = "running", !.next = t]
      OBVIOUS
    <2>2. /\ proc' = [proc EXCEPT ![p] = n] /\ n.pc = "running" /\ n.pi = proc[p].pi
          /\ n.effects = proc[p].effects /\ n.next = t
      BY <1>4, <2>1, Carried DEF Locals
    <2>3. t # NoTask
      BY <1>4, ActiveTasks, TasksAssumption
    <2>4. Fits(p, n)
      BY <1>2, <2>2, <2>3 DEF Fits
    <2>5. Fits(p, n)'
      BY <1>1, <2>4, FitsStays
    <2> QED
      BY <1>1, <2>2, <2>5, RecordMove DEF ReadActiveTasks
  <1> QED
    BY <1>3, <1>4 DEF ReadActiveTasks

LEMMA RecordSetRunning ==
    ASSUME IInv, RecordInv, NEW p \in Procs, SetRunning(p) PROVE RecordInv'
  <1>1. Fits(p, proc[p]) /\ proc[p].effects.camunda /\ proc[p].next # NoTask
    BY Carried DEF SetRunning, Fits, AfterCamunda
  <1>2. Synced'
    BY <1>1 DEF SetRunning, Synced
  <1>3. Stable
    BY <1>2 DEF SetRunning, Stable
  <1>4. \E n : proc' = [proc EXCEPT ![p] = n] /\ Fits(p, n)'
    BY <1>1, <1>2, <1>3, GotoFits DEF SetRunning
  <1> QED
    BY <1>3, <1>4, RecordMove DEF SetRunning

LEMMA RecordAdvance ==
    ASSUME IInv, RecordInv, NEW p \in Procs, Advance(p) PROVE RecordInv'
  <1>1. /\ Truth(proc[p].effects) /\ proc[p].effects.camunda
        /\ proc[p].effects \in Effects /\ Synced
    BY Carried DEF Advance, Fits, AfterCamunda
  <1>2. CASE Checkpoint(p, proc[p].effects, "synced")
    <2>1. PICK f \in Effects : f = proc[p].effects
      BY <1>1
    <2>2. Checkpoint(p, f, "synced") /\ UNCHANGED <<pi, holder, late, done>>
      BY <1>2, <2>1 DEF Advance
    <2> QED
      BY <1>1, <2>1, <2>2, RecordCheckpoint DEF AfterCamunda
  <1>3. CASE Fail(p, "VERSION_CONFLICT") /\ UNCHANGED db
    <2>1. Stable
      BY <1>3, QuietIsStable DEF Advance
    <2>2. \E n : proc' = [proc EXCEPT ![p] = n] /\ Fits(p, n)'
      BY <1>3, <2>1, FailFits DEF Advance
    <2> QED
      BY <1>3, <2>1, <2>2, RecordMove
  <1> QED
    BY <1>2, <1>3 DEF Advance

LEMMA RecordEndWorkflow ==
    ASSUME IInv, RecordInv, NEW p \in Procs, Finish(p) \/ Cancel(p) PROVE RecordInv'
  <1>1. /\ Truth(proc[p].effects) /\ proc[p].effects.camunda
        /\ proc[p].effects \in Effects
    BY Carried DEF Finish, Cancel, EndWorkflow, Fits, AfterCamunda
  <1>2. CASE Fail(p, "VERSION_CONFLICT") /\ UNCHANGED <<db, pi>>
    <2>1. Stable
      BY <1>2, QuietIsStable DEF Finish, Cancel, EndWorkflow
    <2>2. \E n : proc' = [proc EXCEPT ![p] = n] /\ Fits(p, n)'
      BY <1>2, <2>1, FailFits DEF Finish, Cancel, EndWorkflow
    <2> QED
      BY <1>2, <2>1, <2>2, RecordMove
  <1>3. ASSUME NEW status \in {"completed", "rejected"},
               db' = [db EXCEPT !.status = status, !.saved = Frozen(proc[p].saved),
                                !.effects = proc[p].effects],
               Goto(p, "synced"), UNCHANGED <<holder, late, done>>
        PROVE  RecordInv'
    <2>1. db'.status = status /\ db'.effects = proc[p].effects
      BY <1>3, TypeFacts DEF Rows
    <2>2. Synced'
      BY <2>1 DEF Synced
    <2>3. Stable
      BY <1>3, <2>2 DEF Stable
    <2>4. \E n : proc' = [proc EXCEPT ![p] = n] /\ Fits(p, n)'
      BY <1>1, <1>3, <2>2, <2>3, GotoFits
    <2>5. PICK g : g = proc[p].effects
      OBVIOUS
    <2>6. db'.effects = g /\ Truth(g)
      BY <1>1, <2>1, <2>5
    <2> QED
      BY <2>3, <2>4, <2>6, RecordStep
  <1> QED
    BY <1>2, <1>3 DEF Finish, Cancel, EndWorkflow

LEMMA RecordReleaseLock ==
    ASSUME IInv, RecordInv, NEW p \in Procs, ReleaseLock(p) PROVE RecordInv'
  <1>1. proc[p].effects.camunda /\ Truth(proc[p].effects)
    BY Carried DEF ReleaseLock, Fits, AfterCamunda
  <1>2. \/ holder' = holder /\ holder[Task(p)] # proc[p].effects.user
        \/ holder' = [holder EXCEPT ![Task(p)] = NoUser]
    BY DEF ReleaseLock, Holds
  <1>3. \A t \in Tasks, u \in Users : holder'[t] = u => holder[t] = u
    BY <1>2, TypeFacts, UsersAssumption DEF Holders
  <1>4. Stable
    BY <1>3, TypeFacts DEF ReleaseLock, Stable, Synced
  <1>5. ~proc[p].effects.mixed => Task(p) \in Tasks /\ proc[p].effects.user \in Users
    BY <1>1, TypeFacts DEF Truth, Task
  <1>6. ~proc[p].effects.mixed => holder'[Task(p)] # proc[p].effects.user
    BY <1>2, <1>5, TypeFacts, UsersAssumption DEF Holders
  <1>7. PICK e : e = proc[p].effects
    OBVIOUS
  <1>8. ~e.mixed => Free(e)'
    BY <1>6, <1>7 DEF Free, Task
  <1>9. \E n : proc' = [proc EXCEPT ![p] = n] /\ Fits(p, n)'
    <2>1. PICK n : n = [proc[p] EXCEPT !.pc = "done"]
      OBVIOUS
    <2>2. /\ proc' = [proc EXCEPT ![p] = n] /\ n.pc = "done"
          /\ n.effects = e /\ n.pi = proc[p].pi
      BY <1>7, <2>1, Carried DEF ReleaseLock, Goto, Locals
    <2>3. Truth(e)' /\ (n.pi.stage # NoTask => Synced')
      BY <1>1, <1>4, <1>7, <2>2, Carried, TruthStays DEF Fits, Stable
    <2> QED
      BY <1>1, <1>7, <1>8, <2>2, <2>3 DEF Fits
  <1> QED
    BY <1>4, <1>9, RecordMove DEF ReleaseLock

LEMMA RecordMarkDone ==
    ASSUME IInv, RecordInv, NEW p \in Procs, MarkDone(p) PROVE RecordInv'
  <1>1. /\ Truth(proc[p].effects) /\ proc[p].effects.camunda
        /\ proc[p].effects \in Effects 
        /\ ~proc[p].effects.mixed => Free(proc[p].effects)
    BY Carried DEF MarkDone, Fits, AfterCamunda
  <1>2. PICK f : f = [proc[p].effects EXCEPT !.released = TRUE, !.service = TRUE,
                                             !.status = "completed"]
    OBVIOUS
  <1>3. f \in Effects /\ Truth(f) 
    BY <1>1, <1>2 DEF Effects, Truth, Free
  <1>4. PICK stages : stages = proc[p].saved
    OBVIOUS
  <1>5. Persist(p, stages, f) /\ Leave(p) /\ UNCHANGED <<pi, holder, late, done>>
    BY <1>2, <1>4 DEF MarkDone
  <1>6. Stable
    BY <1>5, QuietIsStable, PersistStatus
  <1>7. \E n : proc' = [proc EXCEPT ![p] = n] /\ Fits(p, n)'
    BY <1>5, <1>6, LeaveFits
  <1> QED
    BY <1>3, <1>5, <1>6, <1>7, RecordWrite

LEMMA RecordBreak ==
    ASSUME IInv, RecordInv, NEW p \in Procs, Break(p) PROVE RecordInv'
  <1>1. Stable
    BY QuietIsStable DEF Break
  <1>2. \E n : proc' = [proc EXCEPT ![p] = n] /\ Fits(p, n)'
    BY <1>1, FailFits DEF Break, Breakable
  <1> QED
    BY <1>1, <1>2, RecordMove DEF Break

(* Whoever stores a failure has something to tell of his task. *)
LEMMA RecordCaught ==
    ASSUME IInv, RecordInv, NEW p \in Procs, RecordFailure(p),
           proc[p].pc = "caught",
           Leave(p) \/ (p \in Requests /\ Goto(p, "resolve")),
           UNCHANGED <<pi, holder, late, done>>
    PROVE  RecordInv'
  <1>1. db'.status = db.status
    BY PersistStatus DEF RecordFailure
  <1>2. Stable
    BY <1>1, QuietIsStable
  <1>3. \E n : proc' = [proc EXCEPT ![p] = n] /\ Fits(p, n)'
    BY <1>2, RequestIsNoWorker, LeaveFits, GotoFits DEF AfterCamunda
  <1>4. CASE UNCHANGED db
    BY <1>2, <1>3, <1>4, RecordMove
  <1>5. ASSUME proc[p].effects.camunda \/ p = Worker,
               NEW stages,
               Persist(p, stages, [proc[p].effects EXCEPT !.status = "failed"])
        PROVE  RecordInv'
    <2>1. /\ Truth(proc[p].effects) /\ proc[p].effects.camunda
          /\ proc[p].effects \in Effects
      BY <1>5, Carried DEF Fits
    <2>2. PICK f : f = [proc[p].effects EXCEPT !.status = "failed"]
      OBVIOUS
    <2>3. f \in Effects /\ Truth(f)
      BY <2>1, <2>2 DEF Effects, Truth, Free
    <2>5. Persist(p, stages, f)
      BY <1>5, <2>2
    <2> QED
      BY <1>2, <1>3, <2>3, <2>5, RecordWrite
  <1> QED
    BY <1>4, <1>5 DEF RecordFailure

LEMMA RecordCatchFailure ==
    ASSUME IInv, RecordInv, NEW r \in Requests, CatchFailure(r)
    PROVE  RecordInv'
  BY RequestIsNoWorker, RecordCaught DEF CatchFailure

LEMMA RecordCatchInWorker ==
    ASSUME IInv, RecordInv, CatchInWorker PROVE RecordInv'
  BY RecordCaught DEF CatchInWorker, Procs

(* The handler reads the record and may write it back.                     *)
LEMMA RecordResolveFailure ==
    ASSUME IInv, RecordInv, NEW r \in Requests, ResolveFailure(r) PROVE RecordInv'
  <1>1. Stable
    BY QuietIsStable DEF ResolveFailure
  <1>2. CASE Leave(r)
    <2>1. \E n : proc' = [proc EXCEPT ![r] = n] /\ Fits(r, n)'
      BY <1>1, <1>2, RequestIsNoWorker, LeaveFits
    <2> QED
      BY <1>1, <2>1, RequestIsNoWorker, RecordMove DEF ResolveFailure
  <1>3. CASE proc' = [proc EXCEPT ![r].pc = "delete", ![r].saved = db.saved,
                                  ![r].effects = db.effects, ![r].pi = pi]
    <2>1. PICK n : n = [proc[r] EXCEPT !.pc = "delete", !.saved = db.saved,
                                       !.effects = db.effects, !.pi = pi]
      OBVIOUS
    <2>2. /\ proc' = [proc EXCEPT ![r] = n] /\ n.pc = "delete" /\ n.pi = pi
          /\ n.effects = db.effects
      BY <1>3, <2>1, RequestIsNoWorker, Carried DEF Locals
    <2>3. Fits(r, n)
      BY <2>2, RequestIsNoWorker DEF Fits, RecordInv, AfterCamunda, Synced
    <2>4. Fits(r, n)'
      BY <1>1, <2>3, FitsStays
    <2> QED
      BY <1>1, <2>2, <2>4, RequestIsNoWorker, RecordMove DEF ResolveFailure
  <1> QED
    BY <1>2, <1>3 DEF ResolveFailure

LEMMA RecordHandlerMove ==
    ASSUME IInv, RecordInv, NEW r \in Requests,
           DeleteInstance(r) \/ CheckStatus(r) \/ HandlerBreaks(r)
    PROVE  RecordInv'
  <1>1. UNCHANGED <<db, pi, holder, late, done>>
    BY DEF DeleteInstance, CheckStatus, HandlerBreaks
  <1>2. Stable
    BY <1>1, QuietIsStable
  <1>3. Leave(r) \/ Goto(r, "check") \/ Goto(r, "reject")
    BY DEF DeleteInstance, CheckStatus, HandlerBreaks, Goto
  <1>4. \E n : proc' = [proc EXCEPT ![r] = n] /\ Fits(r, n)'
    BY <1>2, <1>3, RequestIsNoWorker, LeaveFits, GotoFits DEF AfterCamunda
  <1> QED
    BY <1>1, <1>2, <1>4, RequestIsNoWorker, RecordMove

LEMMA RecordRejectTransaction ==
    ASSUME IInv, RecordInv, NEW r \in Requests, RejectTransaction(r) PROVE RecordInv'
  <1>1. db'.status = "rejected"
    BY TypeFacts DEF RejectTransaction, Rows
  <1>2. Stable
    BY <1>1, TypeFacts, UsersAssumption DEF RejectTransaction, Stable, Synced
  <1>3. \E n : proc' = [proc EXCEPT ![r] = n] /\ Fits(r, n)'
    BY <1>2, RequestIsNoWorker, LeaveFits DEF RejectTransaction
  <1>4. db'.effects = proc[r].effects \/ db'.effects = db.effects
    BY TypeFacts DEF RejectTransaction, Rows
  <1>5. CASE db'.effects = db.effects
    BY <1>2, <1>3, <1>5, RequestIsNoWorker, RecordMove
  <1>6. CASE db'.effects = proc[r].effects
    <2>1. PICK g : g = proc[r].effects
      OBVIOUS
    <2>2. db'.effects = g /\ Truth(g)
      BY <1>6, <2>1, RequestIsNoWorker, Carried
    <2> QED
      BY <1>2, <1>3, <2>2, RequestIsNoWorker, RecordStep
  <1> QED
    BY <1>4, <1>5, <1>6

LEMMA RecordResume == ASSUME IInv, RecordInv, Resume PROVE RecordInv'
  <1>1. Stable
    BY QuietIsStable DEF Resume
  <1>2. PICK e : e = [db.effects EXCEPT !.attempts = db.effects.attempts + 1]
    OBVIOUS
  <1>3. PICK n : n = [pc |-> RecoveryStep(db.effects), saved |-> db.saved,
                      next |-> NoTask, pi |-> pi, err |-> "none", effects |-> e]
    OBVIOUS
  <1>4. proc' = [proc EXCEPT ![Worker] = n] /\ Worker \in Procs
    BY <1>2, <1>3 DEF Resume, Procs
  <1>5. db.effects \in Effects /\ db.effects.camunda /\ Truth(db.effects)
    BY TypeFacts DEF Rows, Resume, NeedsRecovery, RecordInv
  <1>6. Truth(e) /\ e.camunda
    BY <1>2, <1>5 DEF Effects, Truth, Free
  <1>7. n.pc \in {"service", "sync", "unlock"} /\ n.effects = e /\ n.pi = pi
    BY <1>3 DEF RecoveryStep
  <1>8. Fits(Worker, n)
    BY <1>6, <1>7 DEF Fits, Synced
  <1>9. Fits(Worker, n)'
    BY <1>1, <1>8, FitsStays
  <1> QED
    BY <1>1, <1>4, <1>9, RecordMove DEF Resume

LEMMA RecordCrash == ASSUME IInv, RecordInv, Crash PROVE RecordInv'
  <1>1. Stable
    BY QuietIsStable DEF Crash
  <1>2. PICK e : e = db.effects
    OBVIOUS
  <1>3. Truth(e)'
    BY <1>1, <1>2, TruthStays DEF RecordInv
  <1>4. \A q \in Procs : Fits(q, proc[q])'
    <2> TAKE q \in Procs
    <2>1. PICK l : l = IF q = Worker \/ proc[q].pc = "idle" THEN Idle ELSE Ended
      OBVIOUS
    <2>2. Fits(q, l)
      BY <2>1, IdleFits
    <2>3. Fits(q, l)'
      BY <1>1, <2>2, FitsStays
    <2>4. proc'[q] = l
      BY <2>1 DEF Crash
    <2> QED
      BY <2>3, <2>4
  <1> QED
    BY <1>1, <1>2, <1>3, <1>4 DEF Crash, RecordInv

LEMMA RecordStutter == ASSUME IInv, RecordInv, UNCHANGED vars PROVE RecordInv'
  BY RecordOutside DEF vars, Stable, Synced

LEMMA NextRecord == IInv /\ RecordInv /\ [Next]_vars => RecordInv'
  <1> SUFFICES ASSUME IInv, RecordInv, [Next]_vars PROVE RecordInv'
    OBVIOUS
  <1>1. ASSUME NEW t \in Tasks, NEW u \in Users, PickUp(u, t) \/ TakeOver(u, t)
        PROVE  RecordInv'
    BY <1>1, RecordPickUp
  <1>10. ASSUME NEW t \in Tasks, GiveUp(t) PROVE RecordInv'
    BY <1>10, RecordGiveUp
  <1>2. ASSUME NEW r \in Requests, Arrive(r) PROVE RecordInv'
    BY <1>2, RecordLoad DEF Arrive
  <1>3. ASSUME NEW p \in Procs, Progress(p) PROVE RecordInv'
    BY <1>3, RecordRunServiceTasks, RecordReadActiveTasks, RecordSetRunning, RecordAdvance,
       RecordEndWorkflow, RecordMarkSynced, RecordReleaseLock, RecordMarkDone DEF Progress
  <1>4. ASSUME NEW r \in Requests, Handle(r) PROVE RecordInv'
    BY <1>3, <1>4, RequestIsNoWorker, RecordBegin, RecordSaveLocal, RecordCompleteInCamunda,
       RecordMarkCamundaDone, RecordCatchFailure, RecordResolveFailure, RecordHandlerMove,
       RecordRejectTransaction DEF Handle
  <1>5. ASSUME NEW r \in Requests, HandlerBreaks(r) PROVE RecordInv'
    BY <1>5, RecordHandlerMove
  <1>6. CASE Work
    BY <1>3, <1>6, RecordResume, RecordCheckSynced, RecordCatchInWorker DEF Work, Procs
  <1>7. ASSUME NEW p \in Procs, Break(p) PROVE RecordInv'
    BY <1>7, RecordBreak
  <1>8. CASE Crash
    BY <1>8, RecordCrash
  <1>9. CASE UNCHANGED vars
    BY <1>9, RecordStutter
  <1> QED
    BY <1>1, <1>2, <1>4, <1>5, <1>6, <1>7, <1>8, <1>9, <1>10 DEF Next

LEMMA InitRecord == Init => RecordInv
  <1> SUFFICES ASSUME Init PROVE RecordInv
    OBVIOUS
  <1>1. \A p \in Procs : proc[p] = Idle
    BY DEF Init
  <1>2. db.effects = NoEffects
    BY DEF Init
  <1>3. Truth(NoEffects)
    BY DEF Truth, NoEffects, InitEffects
  <1> QED
    BY <1>1, <1>2, <1>3, IdleFits DEF RecordInv

(* What the recovery's record says has happened has happened, unless flags *)
(* of another completion were merged into it: for any number of tasks,     *)
(* employees, requests, failures, attempts and restarts, in whatever order *)
(* requests, the job and the handler write and merge it                    *)
(* (mergeCompleteSideEffects).                                             *)
THEOREM RecordCorrect == Spec => []RecordTruthful
  <1>1. Init => IInv /\ RecordInv
    BY InitInvariant, InitRecord
  <1>2. (IInv /\ RecordInv) /\ [Next]_vars => (IInv /\ RecordInv)'
    BY NextInvariant, NextRecord
  <1>3. RecordInv => RecordTruthful
    BY DEF RecordInv, Truth, Free, RecordTruthful, Synced
  <1> QED
    BY <1>1, <1>2, <1>3, PTL DEF Spec
=============================================================================
