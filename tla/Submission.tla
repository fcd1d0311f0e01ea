----------------------------- MODULE Submission ------------------------------
(***************************************************************************)
(* A citizen submits a form to one process: transactionSubmitService with  *)
(* its operation guard and its drafts, startWorkflowService with the start *)
(* of the process in Camunda and the compensation of a start that fails,   *)
(* and the handler of technical failures that runs beside it.  Several     *)
(* requests of the same user may be under way.                             *)
(***************************************************************************)
EXTENDS Naturals, Sequences, FiniteSets

CONSTANTS
    Requests,   \* submissions under way at one time, all of one user
    Keys,       \* Idempotency-Key headers
    NoKey,      \* no header: the guard's key is made from the transaction
    MaxRows,    \* bound on transactions
    MaxStarts,  \* bound on processes started in Camunda
    MaxFaults   \* bound: steps that fail, restarts

ASSUME SubmissionAssumption ==
    /\ IsFiniteSet(Requests) /\ IsFiniteSet(Keys)
    /\ NoKey \notin Keys
    /\ {MaxRows, MaxStarts, MaxFaults} \subseteq Nat

VARIABLES
    status,     \* of the transactions, in the order of their creation
    sealed,     \* transactions whose submission stage is sealed
    processes,  \* started in Camunda, with their rows in process_instances
    guard,      \* operationGuardService
    request,
    handlers,   \* executions of handleWorkflowTechnicalFailure
    usedKeys,   \* history: the keys with which a transaction was submitted
    stranded,   \* history: transactions left behind by a restart or a failed resetting
    faults

vars == <<status, sealed, processes, guard, request, handlers, usedKeys,
          stranded, faults>>

Rows == DOMAIN status

Statuses == {"draft", "submitted", "in_progress", "completed", "rejected"}

\* record: the row in process_instances.  alive: the process exists in
\* Camunda; a leaked one exists because its deletion has failed, and of a lost
\* one the server knows nothing, because Camunda's answer has not arrived.
Process == [row : 1..MaxRows, alive : {"yes", "leaked", "lost", "no"},
            record : {"none", "running", "cancelled"}]

\* inst is 0 when the failure came before the row in process_instances.
Handler == [row : 1..MaxRows, inst : 0..MaxStarts, pc : {"delete", "read", "write"}]

GuardKeys == Keys \cup (1..MaxRows)

Steps == {"idle", "find", "create", "guard", "check", "store", "start", "record", "auto",
          "progress", "rollback", "read", "reopen", "release", "answered"}

\* row and inst are 0 before there is one; ok: the answer was a success.
Local == [pc : Steps, key : Keys \cup {NoKey}, row : 0..MaxRows, inst : 0..MaxStarts,
          ok : BOOLEAN]

Idle == [pc |-> "idle", key |-> NoKey, row |-> 0, inst |-> 0, ok |-> FALSE]

TypeOK ==
    /\ status \in Seq(Statuses)
    /\ Len(status) <= MaxRows
    /\ sealed \subseteq Rows
    /\ processes \in Seq(Process) /\ Len(processes) <= MaxStarts
    /\ \A n \in DOMAIN processes : processes[n].row \in sealed
    /\ guard \in [inFlight : SUBSET GuardKeys, replay : SUBSET GuardKeys]
    /\ request \in [Requests -> Local]
    /\ \A r \in Requests : /\ request[r].row <= Len(status)
                           /\ request[r].inst <= Len(processes)
    /\ handlers \subseteq Handler
    /\ usedKeys \in [1..MaxRows -> SUBSET GuardKeys]
    /\ stranded \subseteq 1..MaxRows
    /\ faults \in 0..MaxFaults

Init ==
    /\ status = <<>>
    /\ sealed = {}
    /\ processes = <<>>
    /\ guard = [inFlight |-> {}, replay |-> {}]
    /\ request = [r \in Requests |-> Idle]
    /\ handlers = {}
    /\ usedKeys = [t \in 1..MaxRows |-> {}]
    /\ stranded = {}
    /\ faults = 0

-----------------------------------------------------------------------------
(* Which transaction: submitTransactionByProcess                           *)

InFlight == {t \in Rows : status[t] \in {"submitted", "in_progress"}}
Drafts == {t \in Rows : status[t] = "draft"}

Latest(rows) == CHOOSE t \in rows : \A u \in rows : u <= t

\* A transaction that is in flight already is the answer.
Begin(r) ==
    /\ request[r].pc = "idle"
    /\ InFlight = {}
    /\ \E k \in Keys \cup {NoKey} :
         request' = [request EXCEPT ![r] = [Idle EXCEPT !.pc = "find", !.key = k]]
    /\ UNCHANGED <<status, sealed, processes, guard, handlers, usedKeys, stranded, faults>>

\* findDraftByCode
FindDraft(r) ==
    /\ request[r].pc = "find"
    /\ request' = IF Drafts = {}
                  THEN [request EXCEPT ![r].pc = "create"]
                  ELSE [request EXCEPT ![r].pc = "guard", ![r].row = Latest(Drafts)]
    /\ UNCHANGED <<status, sealed, processes, guard, handlers, usedKeys, stranded, faults>>

\* Nothing stops two requests from creating a draft each.
CreateDraft(r) ==
    /\ request[r].pc = "create"
    /\ IF Len(status) < MaxRows
       THEN /\ status' = Append(status, "draft")
            /\ request' = [request EXCEPT ![r].pc = "guard", ![r].row = Len(status) + 1]
       ELSE request' = [request EXCEPT ![r] = Idle] /\ UNCHANGED status
    /\ UNCHANGED <<sealed, processes, guard, handlers, usedKeys, stranded, faults>>

-----------------------------------------------------------------------------
(* The submission: submitTransaction                                       *)

\* The header, or else a key made from the transaction.
GuardKey(r) == IF request[r].key = NoKey THEN request[r].row ELSE request[r].key

\* Mutant: the guard does not look at the requests in flight.
GuardOpen(r) == TRUE

\* begin refuses a key that is in flight.
GuardFree(r) == GuardKey(r) \notin guard.inFlight

\* A cached answer is given again.  The draft that was found may be none by
\* now.  The limit of the guard's rate can only refuse more.
TakeGuard(r) ==
    LET k == GuardKey(r) IN
    /\ request[r].pc = "guard"
    /\ IF k \notin guard.replay /\ GuardFree(r)
       THEN /\ guard' = [guard EXCEPT !.inFlight = @ \cup {k}]
            /\ usedKeys' = [usedKeys EXCEPT ![request[r].row] = @ \cup {k}]
            /\ request' = [request EXCEPT ![r].pc = "check"]
       ELSE request' = [request EXCEPT ![r] = Idle] /\ UNCHANGED <<guard, usedKeys>>
    /\ UNCHANGED <<status, sealed, processes, handlers, stranded, faults>>

\* Under the guard the transaction is read again.
IsDraft(t) == status[t] = "draft"

\* The form is validated next; an invalid one ends the request like a
\* transaction that is no draft.
Check(r) ==
    /\ request[r].pc = "check"
    /\ \/ /\ IsDraft(request[r].row)
          /\ request' = [request EXCEPT ![r].pc = "store"]
       \/ request' = [request EXCEPT ![r].pc = "release"]
    /\ UNCHANGED <<status, sealed, processes, guard, handlers, usedKeys, stranded, faults>>

\* Mutant: only a signed submission is sealed.
SealIfSigned(t) == sealed

\* createProcessStage, for a citizen too.
Seal(t) == sealed \cup {t}

\* One database transaction: files, data, status and seal.  The status is
\* written whatever it is by now.
Store(r) ==
    LET t == request[r].row IN
    /\ request[r].pc = "store"
    /\ status' = [status EXCEPT ![t] = "submitted"]
    /\ sealed' = Seal(t)
    /\ request' = [request EXCEPT ![r].pc = "start"]
    /\ UNCHANGED <<processes, guard, handlers, usedKeys, stranded, faults>>

-----------------------------------------------------------------------------
(* The start of the process: startWorkflow                                 *)

\* An error that counts as technical starts the handler, which nobody waits for.
Abort(r, inst) ==
    /\ request' = [request EXCEPT ![r].pc = "rollback"]
    /\ \/ handlers' = handlers \cup
             {[row |-> request[r].row, inst |-> inst, pc |-> "delete"]}
       \/ UNCHANGED handlers

\* Camunda or the database fails.
Fault == faults < MaxFaults /\ faults' = faults + 1

Fail(r, inst) == Fault /\ Abort(r, inst)

\* A transaction that is not submitted any more is not started, nor is one
\* whose process has been switched off: neither counts as a failing start.
\* A start that fails may have reached Camunda: then a process is running of
\* which the request has no id.
Start(r) ==
    LET t == request[r].row IN
    /\ request[r].pc = "start"
    /\ \/ /\ request' = [request EXCEPT ![r].pc = "read"]
          /\ UNCHANGED <<processes, handlers, faults>>
       \/ /\ status[t] = "submitted"
          /\ Len(processes) < MaxStarts
          /\ processes' = Append(processes, [row |-> t, alive |-> "yes", record |-> "none"])
          /\ request' = [request EXCEPT ![r].pc = "record", ![r].inst = Len(processes) + 1]
          /\ UNCHANGED <<handlers, faults>>
       \/ /\ status[t] = "submitted"
          /\ Fail(r, 0)
          /\ \/ UNCHANGED processes
             \/ /\ Len(processes) < MaxStarts
                /\ processes' = Append(processes,
                                      [row |-> t, alive |-> "lost", record |-> "none"])
    /\ UNCHANGED <<status, sealed, guard, usedKeys, stranded>>

\* The row in process_instances.
Record(r) ==
    /\ request[r].pc = "record"
    /\ \/ /\ processes' = [processes EXCEPT ![request[r].inst].record = "running"]
          /\ request' = [request EXCEPT ![r].pc = "auto"]
          /\ UNCHANGED <<handlers, faults>>
       \/ Fail(r, 0) /\ UNCHANGED processes
    /\ UNCHANGED <<status, sealed, guard, usedKeys, stranded>>

\* The first task is completed with what was submitted (the completion is
\* CompleteTask's): the process goes on, or ends, or the completion fails.  A
\* process that is gone has no first task, or loses it before the completion.
AutoComplete(r) ==
    LET n == request[r].inst IN
    /\ request[r].pc = "auto"
    /\ \/ /\ processes[n].alive # "no"
          /\ request' = [request EXCEPT ![r].pc = "progress"]
          /\ \/ UNCHANGED <<status, processes>>
             \/ /\ status' = [status EXCEPT ![request[r].row] = "completed"]
                /\ processes' = [processes EXCEPT ![n].alive = "no"]
          /\ UNCHANGED <<handlers, faults>>
       \/ Fail(r, n) /\ UNCHANGED <<status, processes>>
       \/ /\ processes[n].alive = "no"
          /\ \/ request' = [request EXCEPT ![r].pc = "progress"] /\ UNCHANGED handlers
             \/ Abort(r, n)
          /\ UNCHANGED <<status, processes, faults>>
    /\ UNCHANGED <<sealed, guard, usedKeys, stranded>>

\* updateTransactionStatus writes whatever the status is.
Progress(r) ==
    /\ request[r].pc = "progress"
    /\ \/ /\ status' = [status EXCEPT ![request[r].row] = "in_progress"]
          /\ request' = [request EXCEPT ![r].pc = "release", ![r].ok = TRUE]
          /\ UNCHANGED <<handlers, faults>>
       \/ Fail(r, request[r].inst) /\ UNCHANGED status
    /\ UNCHANGED <<sealed, processes, guard, usedKeys, stranded>>

\* Mutant: the compensation does not delete the process.
ForgetToDelete(n) == UNCHANGED processes

\* A deletion in Camunda may fail, and then nobody repeats it.
Delete(n) ==
    \/ processes' = [processes EXCEPT ![n].alive = "no"]
    \/ processes' = [processes EXCEPT ![n].alive = IF @ = "yes" THEN "leaked" ELSE @]

\* rollbackCamundaProcess
Rollback(r) ==
    /\ request[r].pc = "rollback"
    /\ IF request[r].inst = 0 THEN UNCHANGED processes ELSE Delete(request[r].inst)
    /\ request' = [request EXCEPT ![r].pc = "read"]
    /\ UNCHANGED <<status, sealed, guard, handlers, usedKeys, stranded, faults>>

\* Mutant: a transaction that could not be started is left as it is.
StaysSubmitted(t) == FALSE

\* Who could not start a submitted transaction makes it a draft again.
Reopens(t) == status[t] = "submitted"

\* The database fails in the resetting: the request ends and the status stays.
Strand(r) ==
    /\ Fault
    /\ stranded' = stranded \cup {request[r].row}
    /\ request' = [request EXCEPT ![r].pc = "release"]
    /\ UNCHANGED status

ReadStatus(r) ==
    /\ request[r].pc = "read"
    /\ \/ /\ request' = [request EXCEPT ![r].pc =
                IF Reopens(request[r].row) THEN "reopen" ELSE "release"]
          /\ UNCHANGED <<status, stranded, faults>>
       \/ Strand(r)
    /\ UNCHANGED <<sealed, processes, guard, handlers, usedKeys>>

\* The row is not locked between the reading and the writing.
Reopen(r) ==
    /\ request[r].pc = "reopen"
    /\ \/ /\ status' = [status EXCEPT ![request[r].row] = "draft"]
          /\ request' = [request EXCEPT ![r].pc = "release"]
          /\ UNCHANGED <<stranded, faults>>
       \/ Strand(r)
    /\ UNCHANGED <<sealed, processes, guard, handlers, usedKeys>>

\* The guard keeps a successful answer and forgets a failed request.
Release(r) ==
    LET k == GuardKey(r) IN
    /\ request[r].pc = "release"
    /\ guard' = [inFlight |-> guard.inFlight \ {k},
                 replay |-> IF request[r].ok THEN guard.replay \cup {k} ELSE guard.replay]
    /\ request' = [request EXCEPT ![r] =
          IF request[r].ok THEN [@ EXCEPT !.pc = "answered"] ELSE Idle]
    /\ UNCHANGED <<status, sealed, processes, handlers, usedKeys, stranded, faults>>

-----------------------------------------------------------------------------
(* The handler of technical failures                                       *)

Move(h, pc) == handlers' = (handlers \ {h}) \cup {[h EXCEPT !.pc = pc]}

\* findByTransactionId: any of the transaction's rows, when none is given.
Instances(h) ==
    IF h.inst # 0 THEN {h.inst}
    ELSE {n \in DOMAIN processes : processes[n].row = h.row /\ processes[n].record # "none"}

HandlerDeletes(h) ==
    /\ h.pc = "delete"
    /\ \/ Instances(h) = {} /\ Move(h, "read") /\ UNCHANGED processes
       \/ \E n \in Instances(h) :
            /\ IF processes[n].record = "cancelled" THEN UNCHANGED processes ELSE Delete(n)
            /\ handlers' = (handlers \ {h}) \cup {[h EXCEPT !.inst = n, !.pc = "read"]}
    /\ UNCHANGED <<status, sealed, guard, request, usedKeys, stranded, faults>>

\* In a database transaction, but without locking the row.
HandlerReads(h) ==
    /\ h.pc = "read"
    /\ IF status[h.row] \in {"rejected", "completed"}
       THEN handlers' = handlers \ {h}
       ELSE Move(h, "write")
    /\ UNCHANGED <<status, sealed, processes, guard, request, usedKeys, stranded, faults>>

HandlerRejects(h) ==
    /\ h.pc = "write"
    /\ status' = [status EXCEPT ![h.row] = "rejected"]
    /\ processes' = IF h.inst = 0 THEN processes
                    ELSE [processes EXCEPT ![h.inst].record = "cancelled"]
    /\ handlers' = handlers \ {h}
    /\ UNCHANGED <<sealed, guard, request, usedKeys, stranded, faults>>

-----------------------------------------------------------------------------

Crash ==
    /\ Fault
    /\ guard' = [inFlight |-> {}, replay |-> {}]
    /\ request' = [r \in Requests |-> Idle]
    /\ handlers' = {}
    /\ stranded' = stranded \cup {request[r].row : r \in {q \in Requests : request[q].row # 0}}
    /\ UNCHANGED <<status, sealed, processes, usedKeys>>

Step(r) ==
    \/ FindDraft(r) \/ CreateDraft(r) \/ TakeGuard(r) \/ Check(r) \/ Store(r)
    \/ Start(r) \/ Record(r) \/ AutoComplete(r) \/ Progress(r)
    \/ Rollback(r) \/ ReadStatus(r) \/ Reopen(r) \/ Release(r)

Handle(h) == HandlerDeletes(h) \/ HandlerReads(h) \/ HandlerRejects(h)

Next ==
    \/ \E r \in Requests : Begin(r) \/ Step(r)
    \/ \E h \in handlers : Handle(h)
    \/ Crash

\* Requests run to their end; no property needs the handlers to.
Spec == Init /\ [][Next]_vars /\ \A r \in Requests : WF_vars(Step(r))

-----------------------------------------------------------------------------
(* Properties                                                              *)

\* The transaction has been submitted with one key only, as when no request
\* brings a key of its own.
OneKey(t) == Cardinality(usedKeys[t]) <= 1

\* A transaction runs in Camunda at most once, whatever is clicked twice,
\* fails, is compensated and submitted again.  Only processes that the server
\* knows to run are counted, for Camunda keeps others beside them: one whose
\* deletion has failed, and one whose start was never answered.  Two keys for
\* one draft would defeat the guard.
RunsOnce ==
    \A m, n \in DOMAIN processes :
        (/\ processes[m].alive = "yes" /\ processes[n].alive = "yes"
         /\ processes[m].row = processes[n].row
         /\ OneKey(processes[m].row)) => m = n

\* Who was told that the submission has succeeded does not find a draft: no
\* compensation of another request or attempt takes the submission back.
AnswerHolds ==
    \A r \in Requests :
        request[r].pc = "answered" /\ OneKey(request[r].row)
            => status[request[r].row] \notin {"draft", "submitted"}

Hangs(t) == t \in Rows /\ status[t] = "submitted"

\* A submission is settled, however its start fails: it does not hang between
\* draft and workflow, where every further submission would only be told that
\* it is under way.  A transaction is left behind only by a restart in the middle of
\* its own submission, or when the database refuses the resetting itself.
SubmissionsSettle == \A t \in 1..MaxRows : Hangs(t) ~> ~Hangs(t) \/ t \in stranded
=============================================================================
