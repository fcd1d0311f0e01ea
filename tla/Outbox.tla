------------------------------- MODULE Outbox -------------------------------
(***************************************************************************)
(* The document that a process generates for one transaction.  A service   *)
(* task tries to generate it within a time limit and, when that does not   *)
(* succeed, leaves an event in the outbox.  The outbox worker delivers     *)
(* events and retries failed ones; a completion that reaches the end of    *)
(* the process delivers them too, and ends the transaction only if the     *)
(* document is there.  An event without attempts left rejects the          *)
(* transaction.  Every delivery, and every attempt whose time is over,     *)
(* runs the same generation job.                                           *)
(***************************************************************************)
EXTENDS Naturals, Sequences, FiniteSets

CONSTANTS
    Requests,       \* completions whose service tasks generate the document
    Worker,         \* the outbox worker
    MaxAttempts,    \* RETRY_MAX_ATTEMPTS
    MaxDiskErrors,  \* bound: documents that cannot be saved
    MaxFaults       \* bound: restarts, and rejections that lose a write conflict

ASSUME OutboxAssumption ==
    /\ IsFiniteSet(Requests)
    /\ Worker \notin Requests
    /\ MaxAttempts \in Nat \ {0}
    /\ {MaxDiskErrors, MaxFaults} \subseteq Nat

VARIABLES
    status,    \* of the transaction
    rows,      \* document_instance: "empty" has no path yet, "gone" is deleted
    events,    \* outbox_events in the order of their creation
    actor,     \* requests and the worker
    job,       \* executions of the generation job
    rejecting, \* a handler of an exhausted event is under way
    diskErrors, faults

vars == <<status, rows, events, actor, job, rejecting, diskErrors, faults>>

Actors == Requests \cup {Worker}

\* A request has its own attempt, which outlives its time limit, and the
\* delivery it is waiting for.
Jobs == (Requests \X {"attempt"}) \cup (Actors \X {"delivery"})
Attempt(r) == <<r, "attempt">>
Delivery(a) == <<a, "delivery">>

(***************************************************************************)
(* count is _retry_count in the payload.  It can pass the maximum: a flush  *)
(* that loaded the event earlier makes an exhausted one pending again.     *)
(* hint is document_instance_id, the row known when the attempt began, or  *)
(* 0.  failed counts the deliveries that did fail, up to the maximum, and  *)
(* is history.                                                             *)
(***************************************************************************)
Event == [status: {"pending", "failed", "processed"}, count: Nat,
          failed: 0..MaxAttempts, hint: Nat]

ActorSteps == {"idle", "generating", "enqueue", "flush", "deliver", "dispatched",
               "completing", "blocked", "done"}

Job == [pc: {"off", "find", "create", "save", "ok", "error"}, row: Nat,
        created: BOOLEAN]

\* A request leaves one event at most, and only rows that exist are known.
TypeOK ==
    /\ status \in {"open", "completed", "rejected"}
    /\ rows \in Seq({"empty", "filled", "gone"})
    /\ events \in Seq(Event) /\ Len(events) <= Cardinality(Requests)
    /\ job \in [Jobs -> Job]
    /\ rejecting \in BOOLEAN
    /\ diskErrors \in 0..MaxDiskErrors
    /\ faults \in 0..MaxFaults
    /\ \A n \in DOMAIN events : events[n].hint <= Len(rows)
    /\ \A a \in Actors :
         /\ actor[a].pc \in ActorSteps
         /\ actor[a].hint \in 0..Len(rows)
         /\ actor[a].round \in {"retry", "pending", "flush"}
         /\ DOMAIN actor[a].seen \subseteq DOMAIN events
         /\ \A n \in DOMAIN actor[a].seen :
              actor[a].seen[n] \in Event /\ actor[a].seen[n].hint <= Len(rows)
    /\ \A j \in Jobs : job[j].row <= Len(rows)

Nothing == [e \in {} |-> 0]
NoJob == [pc |-> "off", row |-> 0, created |-> FALSE]

Resting(a) ==
    [pc |-> "idle", hint |-> 0, seen |-> Nothing,
     round |-> IF a = Worker THEN "retry" ELSE "flush"]

Init ==
    /\ status = "open"
    /\ rows = <<>>
    /\ events = <<>>
    /\ actor = [a \in Actors |-> Resting(a)]
    /\ job = [j \in Jobs |-> NoJob]
    /\ rejecting = FALSE
    /\ diskErrors = 0
    /\ faults = 0

-----------------------------------------------------------------------------
(* The generation job                                                      *)

Live == {n \in DOMAIN rows : rows[n] # "gone"}

\* findByTransactionAndTemplate: the latest row, 0 if there is none.
Latest == IF Live = {} THEN 0 ELSE CHOOSE n \in Live : \A m \in Live : m <= n

Start(j, hint) == job' = [job EXCEPT ![j] = [NoJob EXCEPT !.pc = "find", !.row = hint]]

\* A row with a path is the document; otherwise it has to be filled in.
Find(j) ==
    LET n == IF job[j].row \in Live THEN job[j].row ELSE Latest IN
    /\ job[j].pc = "find"
    /\ job' = [job EXCEPT ![j].row = n,
            ![j].pc = IF n > 0 /\ rows[n] = "filled" THEN "ok" ELSE "create"]
    /\ UNCHANGED <<status, rows, events, actor, rejecting, diskErrors, faults>>

\* The template cannot be filled in: values missing, broken template.
FillFails(j) ==
    /\ job[j].pc = "create"
    /\ job' = [job EXCEPT ![j].pc = "error"]
    /\ UNCHANGED <<status, rows, events, actor, rejecting, diskErrors, faults>>

\* Only now is a row created, unless one has been found.
Create(j) ==
    LET new == job[j].row = 0 IN
    /\ job[j].pc = "create"
    /\ rows' = IF new THEN Append(rows, "empty") ELSE rows
    /\ job' = [job EXCEPT ![j].pc = "save", ![j].created = new,
                          ![j].row = IF new THEN Len(rows) + 1 ELSE @]
    /\ UNCHANGED <<status, events, actor, rejecting, diskErrors, faults>>

\* The file and then its path; an update of a deleted row changes nothing and
\* reports no error.
SaveDocument(j) ==
    /\ job[j].pc = "save"
    /\ rows' = [rows EXCEPT ![job[j].row] = IF @ = "gone" THEN @ ELSE "filled"]
    /\ job' = [job EXCEPT ![j].pc = "ok"]
    /\ UNCHANGED <<status, events, actor, rejecting, diskErrors, faults>>

\* Who has created the row deletes it.
SaveFails(j) ==
    /\ job[j].pc = "save"
    /\ diskErrors < MaxDiskErrors
    /\ diskErrors' = diskErrors + 1
    /\ rows' = IF job[j].created THEN [rows EXCEPT ![job[j].row] = "gone"] ELSE rows
    /\ job' = [job EXCEPT ![j].pc = "error"]
    /\ UNCHANGED <<status, events, actor, rejecting, faults>>

-----------------------------------------------------------------------------
(* The action of the service task                                          *)

Begin(r) ==
    /\ actor[r].pc = "idle"
    /\ status = "open"
    /\ Start(Attempt(r), Latest)
    /\ actor' = [actor EXCEPT ![r].pc = "generating", ![r].hint = Latest]
    /\ UNCHANGED <<status, rows, events, rejecting, diskErrors, faults>>

AttemptEnds(r) ==
    /\ actor[r].pc = "generating"
    /\ job[Attempt(r)].pc \in {"ok", "error"}
    /\ actor' = [actor EXCEPT
            ![r].pc = IF job[Attempt(r)].pc = "ok" THEN "flush" ELSE "enqueue"]
    /\ job' = [job EXCEPT ![Attempt(r)] = NoJob]
    /\ UNCHANGED <<status, rows, events, rejecting, diskErrors, faults>>

\* The time is over, and the attempt goes on without anybody waiting for it.
TimesOut(r) ==
    /\ actor[r].pc = "generating"
    /\ job[Attempt(r)].pc \in {"find", "create", "save"}
    /\ actor' = [actor EXCEPT ![r].pc = "enqueue"]
    /\ UNCHANGED <<status, rows, events, job, rejecting, diskErrors, faults>>

Enqueue(r) ==
    /\ actor[r].pc = "enqueue"
    /\ events' = Append(events, [status |-> "pending", count |-> 0, failed |-> 0,
                                  hint |-> actor[r].hint])
    /\ actor' = [actor EXCEPT ![r].pc = "flush"]
    /\ UNCHANGED <<status, rows, job, rejecting, diskErrors, faults>>

-----------------------------------------------------------------------------
(* Delivering events: the worker's two rounds and the flush of a request   *)

Exhausted(e) == e.status = "failed" /\ e.count >= MaxAttempts

(* Mutant: the worker takes pending events only *)
SelectedPending(round) ==
    {n \in DOMAIN events :
        events[n].status = "pending" \/ (round = "flush" /\ events[n].status = "failed")}

Selected(round) ==
    {n \in DOMAIN events :
        CASE round = "retry"   -> events[n].status = "failed" /\ ~Exhausted(events[n])
          [] round = "pending" -> events[n].status = "pending"
          [] round = "flush"   -> events[n].status # "processed"}

\* The events of a round are loaded at once and delivered one by one.
Load(a, round) ==
    actor' = [actor EXCEPT ![a].pc = "deliver", ![a].round = round,
                           ![a].seen = [n \in Selected(round) |-> events[n]]]

Flush(r) ==
    /\ actor[r].pc = "flush"
    /\ Load(r, "flush")
    /\ UNCHANGED <<status, rows, events, job, rejecting, diskErrors, faults>>

Poll ==
    /\ \/ actor[Worker].pc = "idle" /\ Load(Worker, "retry")
       \/ /\ actor[Worker].pc = "deliver"
          /\ actor[Worker].seen = Nothing
          /\ IF actor[Worker].round = "retry"
             THEN Load(Worker, "pending")
             ELSE actor' = [actor EXCEPT ![Worker] = Resting(Worker)]
    /\ UNCHANGED <<status, rows, events, job, rejecting, diskErrors, faults>>

At(a) == CHOOSE n \in DOMAIN actor[a].seen : \A m \in DOMAIN actor[a].seen : n <= m

Others(seen, n) == [m \in DOMAIN seen \ {n} |-> seen[m]]

\* An exhausted event is skipped; a failed one becomes pending again.
Dispatch(a) ==
    /\ actor[a].pc = "deliver"
    /\ actor[a].seen # Nothing
    /\ LET n == At(a)
           e == actor[a].seen[n]
       IN
         IF Exhausted(e)
         THEN /\ actor' = [actor EXCEPT ![a].seen = Others(@, n)]
              /\ UNCHANGED <<events, job>>
         ELSE /\ events' = IF e.status = "failed"
                           THEN [events EXCEPT ![n].status = "pending"] ELSE events
              /\ actor' = [actor EXCEPT ![a].pc = "dispatched"]
              /\ Start(Delivery(a), e.hint)
    /\ UNCHANGED <<status, rows, rejecting, diskErrors, faults>>

Return(a, n) ==
    /\ actor' = [actor EXCEPT ![a].pc = "deliver", ![a].seen = Others(@, n)]
    /\ job' = [job EXCEPT ![Delivery(a)] = NoJob]

MarkProcessed(a) ==
    /\ actor[a].pc = "dispatched"
    /\ job[Delivery(a)].pc = "ok"
    /\ events' = [events EXCEPT ![At(a)].status = "processed"]
    /\ Return(a, At(a))
    /\ UNCHANGED <<status, rows, rejecting, diskErrors, faults>>

(* Mutant: the transaction is rejected one attempt too early *)
FailEarly(a) ==
    LET n == At(a)
        count == actor[a].seen[n].count + 1
    IN
    /\ actor[a].pc = "dispatched"
    /\ job[Delivery(a)].pc = "error"
    /\ events' = [events EXCEPT ![n].status = "failed", ![n].count = count,
                    ![n].failed = IF @ < MaxAttempts THEN @ + 1 ELSE @]
    /\ rejecting' = (rejecting \/ count >= MaxAttempts - 1)
    /\ Return(a, n)
    /\ UNCHANGED <<status, rows, diskErrors, faults>>

(* Mutant: the last attempt rejects nothing *)
FailLate(a) ==
    LET n == At(a)
        count == actor[a].seen[n].count + 1
    IN
    /\ actor[a].pc = "dispatched"
    /\ job[Delivery(a)].pc = "error"
    /\ events' = [events EXCEPT ![n].status = "failed", ![n].count = count,
                    ![n].failed = IF @ < MaxAttempts THEN @ + 1 ELSE @]
    /\ rejecting' = (rejecting \/ count > MaxAttempts)
    /\ Return(a, n)
    /\ UNCHANGED <<status, rows, diskErrors, faults>>

\* The count is the one of the row as loaded, plus one.
FailEvent(a) ==
    LET n == At(a)
        count == actor[a].seen[n].count + 1
    IN
    /\ actor[a].pc = "dispatched"
    /\ job[Delivery(a)].pc = "error"
    /\ events' = [events EXCEPT ![n].status = "failed", ![n].count = count,
                    ![n].failed = IF @ < MaxAttempts THEN @ + 1 ELSE @]
    /\ rejecting' = (rejecting \/ count >= MaxAttempts)
    /\ Return(a, n)
    /\ UNCHANGED <<status, rows, diskErrors, faults>>

\* handleGeneratePdfFailure, which nobody waits for.  A write of the row in
\* between makes its versioned write fail, and rolls the rejection back.
RejectTransaction ==
    /\ rejecting
    /\ rejecting' = FALSE
    /\ \/ status' = "rejected" /\ UNCHANGED faults
       \/ status # "rejected" /\ faults < MaxFaults /\ faults' = faults + 1 /\ UNCHANGED status
    /\ UNCHANGED <<rows, events, actor, job, diskErrors>>

-----------------------------------------------------------------------------
(* The end of the process                                                  *)

(* Mutant: it is enough that nothing is left to be done *)
NothingPending ==
    /\ \A n \in Live : rows[n] # "empty"
    /\ \A n \in DOMAIN events : events[n].status = "processed"

Ready ==
    /\ \E n \in Live : rows[n] = "filled"
    /\ \A n \in Live : rows[n] # "empty"
    /\ \A n \in DOMAIN events : events[n].status = "processed"

Assess(r) ==
    /\ actor[r].pc = "deliver"
    /\ actor[r].seen = Nothing
    /\ actor' = [actor EXCEPT ![r].pc = IF Ready THEN "completing" ELSE "blocked"]
    /\ UNCHANGED <<status, rows, events, job, rejecting, diskErrors, faults>>

Complete(r) ==
    /\ actor[r].pc = "completing"
    /\ status' = "completed"
    /\ actor' = [actor EXCEPT ![r].pc = "done"]
    /\ UNCHANGED <<rows, events, job, rejecting, diskErrors, faults>>

(* Mutant: the recovery runs the action of the service task again *)
ResumeFromAction(r) ==
    /\ actor[r].pc = "blocked"
    /\ status = "open"
    /\ actor' = [actor EXCEPT ![r].pc = "enqueue"]
    /\ UNCHANGED <<status, rows, events, job, rejecting, diskErrors, faults>>

\* The recovery of an open transaction runs the end of the process again.
Resume(r) ==
    /\ actor[r].pc = "blocked"
    /\ status = "open"
    /\ actor' = [actor EXCEPT ![r].pc = "flush"]
    /\ UNCHANGED <<status, rows, events, job, rejecting, diskErrors, faults>>

-----------------------------------------------------------------------------
\* A restart ends jobs, deliveries, the rejection; rows and events remain.
Crash ==
    /\ faults < MaxFaults
    /\ faults' = faults + 1
    /\ job' = [j \in Jobs |-> NoJob]
    /\ rejecting' = FALSE
    /\ actor' = [a \in Actors |->
            IF a \in Requests /\ actor[a].pc \notin {"idle", "done"}
            THEN [Resting(a) EXCEPT !.pc = "blocked"]
            ELSE IF a = Worker THEN Resting(a) ELSE actor[a]]
    /\ UNCHANGED <<status, rows, events, diskErrors>>

JobStep(j) == Find(j) \/ FillFails(j) \/ Create(j) \/ SaveDocument(j) \/ SaveFails(j)

Deliver(a) == Dispatch(a) \/ MarkProcessed(a) \/ FailEvent(a)

RequestStep(r) ==
    AttemptEnds(r) \/ TimesOut(r) \/ Enqueue(r) \/ Flush(r) \/ Assess(r) \/ Complete(r)

Next ==
    \/ \E j \in Jobs : JobStep(j)
    \/ \E a \in Actors : Deliver(a)
    \/ \E r \in Requests : RequestStep(r) \/ Begin(r) \/ Resume(r)
    \/ Poll
    \/ RejectTransaction
    \/ Crash

(***************************************************************************)
(* Jobs run to their end, the worker polls again and again, and the server *)
(* goes on with what it has begun; no request has to come, nothing has to  *)
(* fail and a recovery may stay out.                                       *)
(***************************************************************************)
Fairness ==
    /\ \A j \in Jobs : WF_vars(JobStep(j))
    /\ WF_vars(Poll \/ Deliver(Worker))
    /\ \A r \in Requests : WF_vars(RequestStep(r) \/ Deliver(r))
    /\ WF_vars(RejectTransaction)

Spec == Init /\ [][Next]_vars /\ Fairness

-----------------------------------------------------------------------------
(* Properties                                                              *)

(***************************************************************************)
(* A completed transaction has its document, whatever attempts, deliveries *)
(* and restarts overlapped (assertReadyForWorkflowCompletion), as long as  *)
(* every document that was filled in could be saved.                       *)
(***************************************************************************)
HasDocument == \E n \in Live : rows[n] = "filled"
CompletedHasDocument == diskErrors = 0 /\ status = "completed" => HasDocument

(***************************************************************************)
(* handleGeneratePdfFailure: a transaction is rejected only when one event *)
(* has really failed the configured number of times, although the count is *)
(* written back by deliveries that overlap.                                *)
(***************************************************************************)
RejectedWhenExhausted ==
    rejecting \/ status = "rejected" =>
        \E n \in DOMAIN events : events[n].failed = MaxAttempts

(***************************************************************************)
(* Every event is delivered at last, or has no attempts left: none is lost *)
(* by a restart, an overlapping delivery or a status written over another. *)
(***************************************************************************)
Settled(e) == e.status = "processed" \/ Exhausted(e)
EventsSettle == <>[](\A n \in DOMAIN events : Settled(events[n]))

(***************************************************************************)
(* An exhausted event brings the transaction to an end, so that nobody     *)
(* waits for a document that will not come, unless a restart or a conflict *)
(* stops the one handler that is started for it.                           *)
(***************************************************************************)
GivenUpEnds ==
    (\E n \in DOMAIN events : Exhausted(events[n])) ~>
        (status # "open" \/ faults > 0)
=============================================================================
