---------------------------- MODULE ServiceTasks ----------------------------
(***************************************************************************)
(* The service tasks of one process instance: Camunda passes them without  *)
(* doing anything, and the server runs the actions configured for them     *)
(* (notifications, documents) once it sees them in Camunda's history.      *)
(* Three writers of one transactions row compete for them: requests that   *)
(* complete a user task, the recovery of such completions, and the         *)
(* background job.  Each claims instances in the row before it runs them.  *)
(***************************************************************************)
EXTENDS Naturals, FiniteSets

CONSTANTS
    Items,        \* service-task instances, in Camunda's words activity instances
    Requests,     \* completions of user tasks, one for each task
    Job,          \* the background job (recovery, then synchronisation)
    Stale,        \* SERVICE_TASK_SYNC_STALE_MS, in ticks
    LastEnd,      \* bound: no instance ends after this time
    MaxFailures,  \* bound: failing steps
    MaxCrashes    \* bound: restarts of the server

ASSUME ServiceTasksAssumption ==
    /\ IsFiniteSet(Items)
    /\ Job \notin Requests
    /\ {Stale, LastEnd, MaxFailures, MaxCrashes} \subseteq Nat
    /\ LastEnd > 0

VARIABLES
    row,       \* the tracking fields of the row and two flags of _complete_side_effects
    current,   \* who holds the row's present version
    open,      \* the transaction is submitted or in progress, its instance is running
    ended,     \* Camunda's history: the time an instance ended, 0 before
    completed, \* requests whose user task Camunda has completed
    now,       \* the clock
    proc,      \* what each process holds and where it is
    ran,       \* history: how often each process ran the actions of an instance
    missed,    \* history: claims that came between a request's reading and its first write
    failures, crashes

vars == <<row, current, open, ended, completed, now, proc, ran, missed, failures, crashes>>

Procs == Requests \cup {Job}
Horizon == LastEnd + Stale + 1       \* bound: the clock stops here

(***************************************************************************)
(* claimed: _executedServiceTaskInstances; mark:                           *)
(* _serviceTaskSyncWatermark, 0 when absent; recorded and served: the      *)
(* flags camunda_done and service_tasks_done.                              *)
(***************************************************************************)
Data == [claimed: SUBSET Items, mark: 0..Horizon, recorded: BOOLEAN, served: BOOLEAN]

Steps == {"idle", "loaded", "saved", "marking", "history", "claiming", "reread",
          "running", "saving", "leaving", "done"}

(***************************************************************************)
(* data is what the step works on, kept the variable of its caller, which  *)
(* is what a catch block writes.                                           *)
(***************************************************************************)
Local == [pc: Steps, source: {"complete", "recovery", "sync"},
          data: Data, kept: Data, pending: SUBSET Items]

Blank == [claimed |-> {}, mark |-> 0, recorded |-> FALSE, served |-> FALSE]

TypeOK ==
    /\ row \in Data
    /\ current \subseteq Procs
    /\ open \in BOOLEAN
    /\ ended \in [Items -> 0..LastEnd]
    /\ completed \subseteq Requests
    /\ now \in 1..Horizon
    /\ proc \in [Procs -> Local]
    /\ ran \in [Procs -> [Items -> Nat]]
    /\ missed \subseteq Items
    /\ failures \in 0..MaxFailures
    /\ crashes \in 0..MaxCrashes

Rest(p) == [pc |-> "idle", source |-> IF p = Job THEN "sync" ELSE "complete",
            data |-> Blank, kept |-> Blank, pending |-> {}]

Init ==
    /\ row = Blank
    /\ current = {}
    /\ open = TRUE
    /\ ended = [i \in Items |-> 0]
    /\ completed = {}
    /\ now = 1
    /\ proc = [p \in Procs |-> Rest(p)]
    /\ ran = [p \in Procs |-> [i \in Items |-> 0]]
    /\ missed = {}
    /\ failures = 0
    /\ crashes = 0

-----------------------------------------------------------------------------
(* Operators of the runner                                                 *)

Later(s, t) == IF s > t THEN s ELSE t

Finished == {i \in Items : ended[i] > 0}

(* Mutant: without instances the watermark runs ahead of the clock *)
WatermarkAhead(mark, S) ==
    IF S = {} THEN IF mark = 0 THEN Horizon + 1 ELSE mark
    ELSE Later(mark, CHOOSE t \in {ended[i] : i \in S} : \A i \in S : ended[i] <= t)

(* The watermark moves to the latest end among the instances; without any  *)
(* it is set to the present time, once.                                    *)
Watermark(mark, S) ==
    IF S = {} THEN IF mark = 0 THEN now ELSE mark
    ELSE Later(mark, CHOOSE t \in {ended[i] : i \in S} : \A i \in S : ended[i] <= t)

(***************************************************************************)
(* What is marked as executed without being run: for a row without         *)
(* watermark the whole history, and otherwise what ended too long ago.     *)
(* Only the synchronisation does this.                                     *)
(***************************************************************************)
Bootstrap(d) ==
    IF d.mark > 0 THEN d
    ELSE [d EXCEPT !.claimed = @ \cup Finished, !.mark = Watermark(0, Finished)]

(* Mutant: what ended too long ago is left to the next pass *)
KeepStale(d) == d

SkipStale(d) ==
    [d EXCEPT !.claimed = @ \cup {i \in Finished : now - ended[i] > Stale}]

Prepared(d, source) == IF source = "sync" THEN SkipStale(Bootstrap(d)) ELSE d

(* Mutant: executed instances are pending again *)
PendingAgain(d, source) == {i \in Finished : source = "sync" => ended[i] > d.mark}

Pending(d, source) ==
    {i \in Finished \ d.claimed : source = "sync" => ended[i] > d.mark}

(* Mutant: only the watermark is moved *)
ClaimedNothing(d, S) == [d EXCEPT !.mark = Watermark(@, S)]

\* claimPendingInMemory
Claimed(d, S) == [d EXCEPT !.claimed = @ \cup S, !.mark = Watermark(@, S)]

(* Mutant: the writer's claims replace those of the row *)
MergeOver(fresh, d) == [fresh EXCEPT !.claimed = d.claimed, !.mark = Later(@, d.mark)]

\* mergeExecutedTracking: everything else stays as the row has it
MergeTracking(fresh, d) ==
    [fresh EXCEPT !.claimed = @ \cup d.claimed, !.mark = Later(@, d.mark)]

\* mergeCompleteTransactionData: the flags are joined
MergeComplete(fresh, d) ==
    [MergeTracking(fresh, d) EXCEPT !.recorded = @ \/ d.recorded, !.served = @ \/ d.served]

(***************************************************************************)
(* A versioned write.  The holder of the present version stores its data;  *)
(* anybody else writes its merge into the row it reads again.  Afterwards  *)
(* nobody else is up to date.                                              *)
(***************************************************************************)
StoredRow(p, d, merged) == IF p \in current THEN d ELSE merged

Store(p, d, merged) ==
    /\ row' = StoredRow(p, d, merged)
    /\ current' = {p}

Read(p) == current' = current \cup {p}

Quit(p) == current' = current \ {p}

-----------------------------------------------------------------------------
(* Camunda and the clock                                                   *)

\* Service tasks behind a user task are passed in the same Camunda step.
TaskCompleted(r) ==
    /\ proc[r].pc = "saved"
    /\ completed' = completed \cup {r}
    /\ \E S \in SUBSET (Items \ Finished) :
         /\ S # {} => now <= LastEnd
         /\ ended' = [i \in Items |-> IF i \in S THEN now ELSE ended[i]]

CompleteInCamunda(r) ==
    /\ TaskCompleted(r)
    /\ LET d == [proc[r].data EXCEPT !.recorded = TRUE, !.served = FALSE] IN
         proc' = [proc EXCEPT ![r].pc = "marking", ![r].data = d, ![r].kept = d]
    /\ UNCHANGED <<row, current, open, now, ran, missed, failures, crashes>>

\* A timer of the process fires and the tasks behind it are passed.
TimerFires(i) ==
    /\ i \notin Finished
    /\ now <= LastEnd
    /\ ended' = [ended EXCEPT ![i] = now]
    /\ UNCHANGED <<row, current, open, completed, now, proc, ran, missed, failures, crashes>>

TimePasses ==
    /\ now < Horizon
    /\ now' = now + 1
    /\ UNCHANGED <<row, current, open, ended, completed, proc, ran, missed, failures, crashes>>

-----------------------------------------------------------------------------
(* Completing a user task, as far as service tasks are concerned           *)

Load(r) ==
    /\ proc[r].pc = "idle"
    /\ open
    /\ Read(r)
    /\ proc' = [proc EXCEPT ![r].pc = "loaded", ![r].data = row]
    /\ UNCHANGED <<row, open, ended, completed, now, ran, missed, failures, crashes>>

\* The form is saved before Camunda, with a record of its own.  The version is
\* then the new one, while the request goes on with the data it had: what the
\* save merged into the row the request has missed.
SaveLocal(r) ==
    LET d == [proc[r].data EXCEPT !.recorded = FALSE, !.served = FALSE] IN
    /\ proc[r].pc = "loaded"
    /\ Store(r, d, MergeComplete(row, d))
    /\ missed' = missed \cup (row.claimed \ d.claimed)
    /\ proc' = [proc EXCEPT ![r].pc = "saved"]
    /\ UNCHANGED <<open, ended, completed, now, ran, failures, crashes>>

\* The checkpoint after Camunda.
MarkCamundaDone(r) ==
    /\ proc[r].pc = "marking"
    /\ Store(r, proc[r].data, MergeComplete(row, proc[r].data))
    /\ proc' = [proc EXCEPT ![r].pc = "history", ![r].data = row', ![r].kept = row']
    /\ UNCHANGED <<open, ended, completed, now, ran, missed, failures, crashes>>

\* What the caller does with the runner's result.
ToSave(l) ==
    LET d == IF l.source = "sync" THEN l.data ELSE [l.data EXCEPT !.served = TRUE]
    IN [l EXCEPT !.pc = "saving", !.data = d, !.kept = d, !.pending = {}]

\* The runner writes its claims into the caller's object.
ReadHistory(p) ==
    LET S == Pending(proc[p].data, proc[p].source)
        d == Claimed(proc[p].data, S)
    IN
    /\ proc[p].pc = "history"
    /\ proc[p].source # "sync"
    /\ proc' = [proc EXCEPT ![p] =
            IF S = {} THEN ToSave(@)
            ELSE [@ EXCEPT !.pc = "claiming", !.data = d, !.kept = d, !.pending = S]]
    /\ UNCHANGED <<row, current, open, ended, completed, now, ran, missed, failures, crashes>>

\* Everything pending counts as claimed by this process, merged or not.
Claim(p) ==
    /\ proc[p].pc = "claiming"
    /\ proc[p].source # "sync"
    /\ Store(p, proc[p].data, MergeComplete(row, proc[p].data))
    /\ proc' = [proc EXCEPT ![p].pc = "running", ![p].data = row']
    /\ UNCHANGED <<open, ended, completed, now, ran, missed, failures, crashes>>

\* The actions of the instance that ended first.
RunActions(p) ==
    /\ proc[p].pc = "running"
    /\ \E i \in proc[p].pending :
         /\ \A j \in proc[p].pending : ended[i] <= ended[j]
         /\ ran' = [ran EXCEPT ![p][i] = @ + 1]
         /\ proc' = [proc EXCEPT ![p] =
                IF proc[p].pending = {i} THEN ToSave(proc[p])
                ELSE [proc[p] EXCEPT !.pending = @ \ {i}]]
    /\ UNCHANGED <<row, current, open, ended, completed, now, missed, failures, crashes>>

Save(p) ==
    /\ proc[p].pc = "saving"
    /\ proc[p].source # "sync"
    /\ Store(p, proc[p].data, MergeComplete(row, proc[p].data))
    /\ proc' = [proc EXCEPT ![p].pc = "leaving", ![p].kept = row']
    /\ UNCHANGED <<open, ended, completed, now, ran, missed, failures, crashes>>

\* The rest of the completion: without a task left the transaction is over.
Leave(p) ==
    /\ proc[p].pc = "leaving"
    /\ open' = (open /\ completed # Requests)
    /\ proc' = [proc EXCEPT ![p] =
            IF p = Job THEN [Rest(Job) EXCEPT !.pc = "loaded"]
            ELSE [Rest(p) EXCEPT !.pc = "done"]]
    /\ Quit(p)
    /\ UNCHANGED <<row, ended, completed, now, ran, missed, failures, crashes>>

-----------------------------------------------------------------------------
(* The background job: recovery first, then synchronisation                *)

Unserved == row.recorded /\ ~row.served

Tick ==
    /\ proc[Job].pc = "idle"
    /\ open
    /\ proc' = [proc EXCEPT ![Job] =
            IF Unserved
            THEN [@ EXCEPT !.pc = "history", !.source = "recovery", !.data = row, !.kept = row]
            ELSE [Rest(Job) EXCEPT !.pc = "loaded"]]
    /\ IF Unserved THEN Read(Job) ELSE UNCHANGED current
    /\ UNCHANGED <<row, open, ended, completed, now, ran, missed, failures, crashes>>

\* The batch query; rows of finished transactions are not in it.
SyncLoad ==
    /\ proc[Job].pc = "loaded"
    /\ IF open
       THEN /\ Read(Job)
            /\ proc' = [proc EXCEPT ![Job].pc = "history", ![Job].source = "sync",
                                    ![Job].data = row, ![Job].kept = row]
       ELSE /\ proc' = [proc EXCEPT ![Job] = Rest(Job)]
            /\ UNCHANGED current
    /\ UNCHANGED <<row, open, ended, completed, now, ran, missed, failures, crashes>>

SyncHistory ==
    LET d == Prepared(proc[Job].data, "sync")
        S == Pending(d, "sync")
    IN
    /\ proc[Job].pc = "history"
    /\ proc[Job].source = "sync"
    /\ proc' = [proc EXCEPT ![Job] =
            IF S # {} THEN [@ EXCEPT !.pc = "reread", !.data = Claimed(d, S), !.pending = S]
            ELSE IF d = proc[Job].data THEN Rest(Job)
            ELSE [@ EXCEPT !.pc = "saving", !.data = d]]
    /\ IF S = {} /\ d = proc[Job].data THEN Quit(Job) ELSE UNCHANGED current
    /\ UNCHANGED <<row, open, ended, completed, now, ran, missed, failures, crashes>>

\* claimServiceTaskInstances, up to its write: what others have claimed since
\* the batch query is left to them.
SyncReread ==
    LET mine == (proc[Job].data.claimed \ proc[Job].kept.claimed) \ row.claimed IN
    /\ proc[Job].pc = "reread"
    /\ Read(Job)
    /\ proc' = [proc EXCEPT ![Job] =
            IF mine = {}
            THEN [proc[Job] EXCEPT !.pc = "saving", !.data = row, !.pending = {}]
            ELSE [proc[Job] EXCEPT !.pc = "claiming", !.data = MergeTracking(row, @),
                                   !.pending = @ \cap mine]]
    /\ UNCHANGED <<row, open, ended, completed, now, ran, missed, failures, crashes>>

\* A second conflict in a row gives the claim up until the next tick.
GiveUp ==
    /\ Job \notin current
    /\ proc' = [proc EXCEPT ![Job] = Rest(Job)]
    /\ UNCHANGED <<row, current>>

SyncClaim ==
    /\ proc[Job].pc = "claiming"
    /\ proc[Job].source = "sync"
    /\ \/ /\ Store(Job, proc[Job].data, MergeTracking(row, proc[Job].data))
          /\ proc' = [proc EXCEPT
                ![Job].pc = IF proc[Job].pending = {} THEN "saving" ELSE "running",
                ![Job].data = row']
       \/ GiveUp
    /\ UNCHANGED <<open, ended, completed, now, ran, missed, failures, crashes>>

SyncSave ==
    /\ proc[Job].pc = "saving"
    /\ proc[Job].source = "sync"
    /\ \/ /\ row' = StoredRow(Job, proc[Job].data, MergeTracking(row, proc[Job].data))
          /\ current' = {}
          /\ proc' = [proc EXCEPT ![Job] = Rest(Job)]
       \/ GiveUp
    /\ UNCHANGED <<open, ended, completed, now, ran, missed, failures, crashes>>

-----------------------------------------------------------------------------
(* Failures and crashes                                                    *)

(***************************************************************************)
(* A step throws.  The catch blocks of completion and recovery store the   *)
(* caller's data under the version the claim returned; the job's catch     *)
(* block only counts.                                                      *)
(***************************************************************************)
Fail(p) ==
    /\ failures < MaxFailures
    /\ proc[p].pc \in Steps \ {"idle", "loaded", "saved", "done"}
    /\ failures' = failures + 1
    /\ IF proc[p].source = "sync"
       THEN /\ proc' = [proc EXCEPT ![p] = Rest(p)]
            /\ Quit(p)
            /\ UNCHANGED row
       ELSE /\ row' = StoredRow(p, proc[p].kept, MergeComplete(row, proc[p].kept))
            /\ current' = {}
            /\ proc' = [proc EXCEPT ![p] =
                    IF p = Job THEN [Rest(Job) EXCEPT !.pc = "loaded"]
                    ELSE [Rest(p) EXCEPT !.pc = "done"]]
    /\ UNCHANGED <<open, ended, completed, now, ran, missed, crashes>>

\* Camunda refuses the task, or completes it and its answer is lost: the request
\* ends without a word in the row.
CamundaFails(r) ==
    /\ failures < MaxFailures
    /\ \/ TaskCompleted(r)
       \/ proc[r].pc = "saved" /\ UNCHANGED <<completed, ended>>
    /\ failures' = failures + 1
    /\ proc' = [proc EXCEPT ![r] = [Rest(r) EXCEPT !.pc = "done"]]
    /\ Quit(r)
    /\ UNCHANGED <<row, open, now, ran, missed, crashes>>

\* A restart ends everything under way; the timer starts the job again.
Crash ==
    /\ crashes < MaxCrashes
    /\ crashes' = crashes + 1
    /\ current' = {}
    /\ proc' = [p \in Procs |->
            IF p = Job \/ proc[p].pc = "idle" THEN Rest(p)
            ELSE [Rest(p) EXCEPT !.pc = "done"]]
    /\ UNCHANGED <<row, open, ended, completed, now, ran, missed, failures>>

-----------------------------------------------------------------------------
RequestStep(r) ==
    Load(r) \/ SaveLocal(r) \/ CompleteInCamunda(r) \/ MarkCamundaDone(r) \/ CamundaFails(r)

RunnerStep(p) ==
    ReadHistory(p) \/ Claim(p) \/ RunActions(p) \/ Save(p) \/ Leave(p)

JobStep == Tick \/ SyncLoad \/ SyncHistory \/ SyncReread \/ SyncClaim \/ SyncSave

Next ==
    \/ \E r \in Requests : RequestStep(r)
    \/ \E p \in Procs : RunnerStep(p) \/ Fail(p)
    \/ JobStep
    \/ \E i \in Items : TimerFires(i)
    \/ TimePasses
    \/ Crash

(***************************************************************************)
(* The clock goes on; the timer starts the job again and again and each    *)
(* step of the server that can be taken is taken at last.  Nobody has to   *)
(* complete a task, and nothing has to fail.                               *)
(***************************************************************************)
Fairness ==
    /\ WF_vars(TimePasses)
    /\ WF_vars(JobStep \/ RunnerStep(Job))
    /\ \A r \in Requests : WF_vars(MarkCamundaDone(r) \/ RunnerStep(r))

Spec == Init /\ [][Next]_vars /\ Fairness
-----------------------------------------------------------------------------
(* Properties                                                              *)

(***************************************************************************)
(* A claim stays in the row whatever the other writers store, unless a     *)
(* step fails: every stale write is merged with what the row has           *)
(* (mergeExecutedTracking, mergeCompleteTransactionData).  Only what came  *)
(* between a request's reading and its first write may go: the request     *)
(* holds the version of the merged row then and its next checkpoint        *)
(* stores its own claims over it (persistCompleteTaskSideEffects returns   *)
(* the version, not the merged data).                                      *)
(***************************************************************************)
ClaimsKept ==
    [][failures' = failures => row.claimed \ row'.claimed \subseteq missed]_vars

(***************************************************************************)
(* As long as nothing failed, whatever has been run is claimed in the row, *)
(* so that no later pass and no restarted server takes it up again, but    *)
(* for the claims a request has missed.                                    *)
(***************************************************************************)
RunIsClaimed ==
    failures = 0 =>
        \A p \in Procs, i \in Items \ missed : ran[p][i] > 0 => i \in row.claimed

(***************************************************************************)
(* No process runs an instance twice, over all passes of the job, its      *)
(* recoveries and its restarts, as long as nothing failed and no request   *)
(* missed its claim (two processes that race can both run it).             *)
(***************************************************************************)
OncePerProcess ==
    failures = 0 => \A p \in Procs, i \in Items \ missed : ran[p][i] <= 1

(***************************************************************************)
(* While the transaction is open every instance in Camunda's history is    *)
(* claimed at last and then for good, also those that end at the           *)
(* watermark's own time and that no pass takes up.                         *)
(***************************************************************************)
EndedIsClaimed ==
    \A i \in Items : (ended[i] > 0) ~> [](i \in row.claimed \/ ~open)
=============================================================================
