----------------------------- MODULE OutboxProofs -----------------------------
(***************************************************************************)
(* A transaction is rejected only when an event has really failed the      *)
(* configured number of times, and completed only with its document, for   *)
(* any requests, attempts, failures and restarts.                          *)
(*                                                                         *)
(* The argument: the count of an event may be written back by a delivery   *)
(* that began earlier, but no count, of a row or of a copy that somebody   *)
(* has loaded, tells of more failures than there were.  As long as no      *)
(* document failed to be saved, no row is deleted, so that what the        *)
(* readiness check has found is there when the transaction is completed.   *)
(***************************************************************************)
EXTENDS Outbox, FiniteSetTheorems, SequenceTheorems, WellFoundedInduction, TLAPS

Local == [pc: ActorSteps, hint: Nat, round: {"retry", "pending", "flush"},
          seen: UNION {[S -> Event] : S \in SUBSET Nat}]

(* What a copy of an event counts: no more failures than there were. *)
Told(c, e) == c <= e.failed \/ e.failed = MaxAttempts

Counted ==
    /\ \A n \in 1..Len(events) : Told(events[n].count, events[n])
    /\ \A a \in Actors : \A n \in DOMAIN actor[a].seen :
         Told(actor[a].seen[n].count, events[n])

(* A job that saves has its row, a delivery its event. *)
StepsFit ==
    /\ \A j \in Jobs : job[j].pc = "save" => job[j].row # 0
    /\ \A a \in Actors : actor[a].pc = "dispatched" => actor[a].seen # Nothing

(* Each event was left by a request of its own. *)
BeforeEvent == {"idle", "generating", "enqueue"}
Passed == {r \in Requests : actor[r].pc \notin BeforeEvent}
Enqueued == Len(events) <= Cardinality(Passed)

Filled == \E n \in 1..Len(rows) : rows[n] = "filled"
Documents ==
    diskErrors = 0 =>
        /\ \A n \in 1..Len(rows) : rows[n] # "gone"
        /\ status = "completed" => Filled
        /\ \A a \in Actors : actor[a].pc = "completing" => Filled

IInv ==
    /\ TypeOK
    /\ actor \in [Actors -> Local]
    /\ StepsFit
    /\ Counted
    /\ RejectedWhenExhausted
    /\ Enqueued
    /\ Documents

-----------------------------------------------------------------------------
(* Sequences, sets and the least of them                                   *)

RowStates == {"empty", "filled", "gone"}

LEMMA Domains ==
    ASSUME TypeOK
    PROVE  /\ Len(rows) \in Nat /\ DOMAIN rows = 1..Len(rows)
           /\ Len(events) \in Nat /\ DOMAIN events = 1..Len(events)
           /\ \A n \in 1..Len(rows) : rows[n] \in RowStates
           /\ \A n \in 1..Len(events) : events[n] \in Event
           /\ MaxAttempts \in Nat /\ MaxAttempts > 0
  <1>1. rows \in Seq(RowStates) /\ events \in Seq(Event)
    BY DEF TypeOK, RowStates
  <1> QED
    BY <1>1, LenProperties, ElementOfSeq, OutboxAssumption

(* One element of a sequence is written. *)
LEMMA WriteOne ==
    ASSUME NEW S, NEW s \in Seq(S), NEW i \in 1..Len(s), NEW x \in S
    PROVE  /\ [s EXCEPT ![i] = x] \in Seq(S)
           /\ Len([s EXCEPT ![i] = x]) = Len(s)
           /\ \A j \in 1..Len(s) : [s EXCEPT ![i] = x][j] = IF j = i THEN x ELSE s[j]
  BY ExceptSeq

(* A finite set of numbers has a least and a greatest one. *)
LEMMA FiniteExtrema ==
    ASSUME NEW S \in SUBSET Nat, IsFiniteSet(S), S # {}
    PROVE  /\ \E m \in S : \A x \in S : m <= x
           /\ \E m \in S : \A x \in S : x <= m
  <1> DEFINE Least(U) == \E m \in U : \A x \in U : m <= x
             Greatest(U) == \E m \in U : \A x \in U : x <= m
             Bad == {U \in SUBSET S : U # {} /\ ~(Least(U) /\ Greatest(U))}
  <1>1. SUFFICES ASSUME S \in Bad PROVE FALSE
    OBVIOUS
  <1>2. Bad \subseteq FiniteSubsetsOf(S)
    BY FS_FiniteSubsetsOfFinite
  <1>3. PICK U \in Bad : \A V \in Bad : <<V, U>> \notin StrictSubsetOrdering(S)
    BY <1>1, <1>2, WFMin, FS_StrictSubsetOrderingWellFounded
  <1>4. PICK x \in U : TRUE
    BY <1>3
  <1>5. <<U \ {x}, U>> \in StrictSubsetOrdering(S)
    BY <1>3, <1>4 DEF StrictSubsetOrdering
  <1>6. U \ {x} \notin Bad
    BY <1>3, <1>5
  <1>7. CASE U \ {x} = {}
    <2>1. U = {x} /\ x <= x
      BY <1>3, <1>4, <1>7
    <2> QED
      BY <1>3, <2>1
  <1>8. CASE U \ {x} # {}
    <2>1. PICK l \in U \ {x} : \A y \in U \ {x} : l <= y
      BY <1>3, <1>6, <1>8
    <2>2. PICK g \in U \ {x} : \A y \in U \ {x} : y <= g
      BY <1>3, <1>6, <1>8
    <2>3. x \in Nat /\ l \in Nat /\ g \in Nat /\ U \subseteq Nat
      BY <1>3, <1>4, <2>1, <2>2
    <2>4. Least(U)
      <3>1. CASE l <= x
        BY <2>1, <3>1
      <3>2. CASE x < l
        <4>1. \A y \in U : x <= y
          BY <2>1, <2>3, <3>2
        <4> QED
          BY <1>4, <4>1
      <3> QED
        BY <2>3, <3>1, <3>2
    <2>5. Greatest(U)
      <3>1. CASE x <= g
        BY <2>2, <3>1
      <3>2. CASE g < x
        <4>1. \A y \in U : y <= x
          BY <2>2, <2>3, <3>2
        <4> QED
          BY <1>4, <4>1
      <3> QED
        BY <2>3, <3>1, <3>2
    <2> QED
      BY <1>3, <2>4, <2>5
  <1> QED
    BY <1>7, <1>8

LEMMA InitiallyFine == Init => IInv
  <1> SUFFICES ASSUME Init PROVE IInv
    OBVIOUS
  <1>1. rows = <<>> /\ events = <<>> /\ Len(rows) = 0 /\ Len(events) = 0
    BY DEF Init
  <1>2. rows \in Seq(RowStates) /\ events \in Seq(Event) /\ 1..0 = {}
        /\ DOMAIN rows = {} /\ DOMAIN events = {}
    BY <1>1
  <1>3. Nothing \in [{} -> Event] /\ DOMAIN Nothing = {}
    BY DEF Nothing
  <1>4. actor \in [Actors -> Local]
    <2> SUFFICES ASSUME NEW a \in Actors PROVE Resting(a) \in Local
      BY DEF Init
    <2>1. Nothing \in UNION {[S -> Event] : S \in SUBSET Nat}
      BY <1>3
    <2> QED
      BY <2>1 DEF Resting, Local, ActorSteps
  <1>5. \A a \in Actors : /\ actor[a].pc = "idle" /\ actor[a].hint = 0
                          /\ actor[a].seen = Nothing
                          /\ actor[a].round \in {"retry", "pending", "flush"}
    BY DEF Init, Resting
  <1>6. \A j \in Jobs : job[j] = NoJob /\ job[j].row = 0 /\ job[j].pc = "off"
    BY DEF Init, NoJob
  <1>7. job \in [Jobs -> Job]
    BY DEF Init, Job, NoJob
  <1>8. Cardinality(Requests) \in Nat /\ Cardinality(Passed) \in Nat
    BY OutboxAssumption, FS_CardinalityType, FS_Subset DEF Passed
  <1>9. TypeOK
    <2>1. \A a \in Actors : actor[a].hint \in 0..Len(rows) /\ DOMAIN actor[a].seen = {}
      BY <1>1, <1>3, <1>5
    <2>2. /\ diskErrors \in 0..MaxDiskErrors /\ faults \in 0..MaxFaults
          /\ Len(events) <= Cardinality(Requests)
      BY <1>1, <1>8, OutboxAssumption DEF Init
    <2>3. \A j \in Jobs : job[j].row <= Len(rows)
      BY <1>1, <1>6
    <2>4. status \in {"open", "completed", "rejected"} /\ rejecting \in BOOLEAN
      BY DEF Init
    <2> QED
      BY <1>2, <1>5, <1>7, <2>1, <2>2, <2>3, <2>4 DEF TypeOK, ActorSteps, RowStates
  <1>10. Counted /\ StepsFit
    BY <1>1, <1>2, <1>3, <1>5, <1>6 DEF Counted, StepsFit
  <1>11. RejectedWhenExhausted /\ Enqueued /\ Documents
    BY <1>1, <1>2, <1>5, <1>8 DEF Init, RejectedWhenExhausted, Enqueued, Documents
  <1> QED
    BY <1>4, <1>9, <1>10, <1>11 DEF IInv

-----------------------------------------------------------------------------
(* The jobs: rows are added and filled in, and deleted only when a         *)
(* document could not be saved                                             *)

RowsGoOn ==
    /\ rows' \in Seq(RowStates) /\ Len(rows) <= Len(rows')
    /\ diskErrors' \in 0..MaxDiskErrors
    /\ diskErrors' = 0 =>
         /\ diskErrors = 0
         /\ \A n \in 1..Len(rows') :
              (n \in 1..Len(rows) /\ rows'[n] = rows[n]) \/ rows'[n] # "gone"
         /\ \A n \in 1..Len(rows) : rows[n] = "filled" => rows'[n] = "filled"

LEMMA JobKeeps ==
    ASSUME IInv, NEW j \in Jobs, NEW m \in Job, job' = [job EXCEPT ![j] = m],
           RowsGoOn, m.row <= Len(rows'), m.pc = "save" => m.row # 0,
           UNCHANGED <<status, events, actor, rejecting, faults>>
    PROVE  IInv'
  <1>1. TypeOK /\ Len(rows) \in Nat /\ Len(rows') \in Nat
        /\ DOMAIN rows' = 1..Len(rows') /\ Len(rows) <= Len(rows')
    BY Domains, LenProperties DEF IInv, RowsGoOn
  <1>2. /\ job' \in [Jobs -> Job] /\ job'[j] = m
        /\ \A i \in Jobs : i # j => job'[i] = job[i]
    BY <1>1 DEF TypeOK
  <1>3. \A i \in Jobs : job'[i].row <= Len(rows')
    BY <1>1, <1>2 DEF TypeOK, Job, RowsGoOn
  <1>4. TypeOK'
    <2>1. \A n \in DOMAIN events : events[n].hint <= Len(rows')
      <3>1. \A n \in DOMAIN events : events[n].hint \in Nat /\ events[n].hint <= Len(rows)
        BY <1>1, Domains DEF TypeOK, Event
      <3> QED
        BY <1>1, <3>1 DEF RowsGoOn
    <2>2. \A a \in Actors :
            /\ actor[a].hint \in 0..Len(rows')
            /\ \A n \in DOMAIN actor[a].seen : actor[a].seen[n].hint <= Len(rows')
      <3> TAKE a \in Actors
      <3>1. actor[a].hint \in 0..Len(rows')
        BY <1>1 DEF TypeOK
      <3>2. \A n \in DOMAIN actor[a].seen :
              actor[a].seen[n].hint \in Nat /\ actor[a].seen[n].hint <= Len(rows)
        BY <1>1 DEF TypeOK, Event
      <3> QED
        BY <1>1, <3>1, <3>2
    <2> QED
      BY <1>1, <1>2, <1>3, <2>1, <2>2 DEF TypeOK, RowStates, RowsGoOn
  <1>5. StepsFit'
    BY <1>2 DEF IInv, StepsFit
  <1>6. Counted' /\ RejectedWhenExhausted' /\ Enqueued' /\ (actor \in [Actors -> Local])'
    BY DEF IInv, Counted, Told, RejectedWhenExhausted, Enqueued, Passed
  <1>7. Documents'
    <2> SUFFICES ASSUME diskErrors' = 0
                 PROVE  /\ \A n \in 1..Len(rows') : rows'[n] # "gone"
                        /\ status' = "completed" => Filled'
                        /\ \A a \in Actors : actor'[a].pc = "completing" => Filled'
      BY DEF Documents
    <2>1. Filled => Filled'
      BY <1>1 DEF Filled, RowsGoOn
    <2> QED
      BY <1>1, <2>1 DEF IInv, Documents, RowsGoOn
  <1> QED
    BY <1>4, <1>5, <1>6, <1>7 DEF IInv

LEMMA LatestFits ==
    ASSUME TypeOK
    PROVE  Latest \in 0..Len(rows)
  <1>1. Live \subseteq 1..Len(rows) /\ Len(rows) \in Nat
    BY Domains DEF Live
  <1>2. CASE Live = {}
    BY <1>1, <1>2 DEF Latest
  <1>3. CASE Live # {}
    <2>1. IsFiniteSet(1..Len(rows))
      BY <1>1, FS_Interval
    <2>2. IsFiniteSet(Live) /\ Live \in SUBSET Nat
      <3>1. Live \in SUBSET (1..Len(rows)) /\ Live \in SUBSET Nat
        BY <1>1
      <3> QED
        BY <2>1, <3>1, FS_Subset
    <2>3. \E n \in Live : \A m \in Live : m <= n
      BY <1>3, <2>2, FiniteExtrema
    <2>4. Latest \in Live
      BY <1>3, <2>3 DEF Latest
    <2> QED
      BY <1>1, <2>4
  <1> QED
    BY <1>2, <1>3

LEMMA FindKeeps == ASSUME IInv, NEW j \in Jobs, Find(j) PROVE IInv'
  <1> DEFINE n == IF job[j].row \in Live THEN job[j].row ELSE Latest
  <1>1. TypeOK /\ job[j] \in Job /\ Len(rows) \in Nat
    BY Domains DEF IInv, TypeOK
  <1>2. n \in 0..Len(rows)
    BY <1>1, LatestFits, Domains DEF Live
  <1>3. PICK p \in {"ok", "create"} :
                p = IF n > 0 /\ rows[n] = "filled" THEN "ok" ELSE "create"
    OBVIOUS
  <1>4. PICK m : m = [job[j] EXCEPT !.row = n, !.pc = p]
    OBVIOUS
  <1>5. job' = [job EXCEPT ![j] = m]
    BY <1>1, <1>3, <1>4 DEF Find, TypeOK
  <1> HIDE DEF n
  <1>6. m \in Job /\ m.row = n /\ m.pc # "save"
    <2>1. n \in Nat
      BY <1>1, <1>2
    <2> QED
      BY <1>1, <1>3, <1>4, <2>1 DEF Job
  <1>7. RowsGoOn
    BY <1>1 DEF Find, RowsGoOn, TypeOK, RowStates
  <1>8. m.row <= Len(rows')
    BY <1>1, <1>2, <1>6 DEF Find
  <1> QED
    BY <1>5, <1>6, <1>7, <1>8, JobKeeps DEF Find

LEMMA FillFailsKeeps == ASSUME IInv, NEW j \in Jobs, FillFails(j) PROVE IInv'
  <1>1. TypeOK /\ job[j] \in Job /\ Len(rows) \in Nat /\ job[j].row <= Len(rows)
    BY Domains DEF IInv, TypeOK
  <1>2. PICK m : m = [job[j] EXCEPT !.pc = "error"]
    OBVIOUS
  <1>3. m \in Job /\ m.row = job[j].row /\ m.pc = "error"
    BY <1>1, <1>2 DEF Job
  <1>4. job' = [job EXCEPT ![j] = m]
    BY <1>1, <1>2 DEF FillFails, TypeOK
  <1>5. RowsGoOn
    BY <1>1 DEF FillFails, RowsGoOn, TypeOK, RowStates
  <1> QED
    BY <1>1, <1>3, <1>4, <1>5, JobKeeps DEF FillFails

LEMMA CreateKeeps == ASSUME IInv, NEW j \in Jobs, Create(j) PROVE IInv'
  <1>1. /\ TypeOK /\ job[j] \in Job /\ Len(rows) \in Nat /\ job[j].row <= Len(rows)
        /\ rows \in Seq(RowStates)
    BY Domains DEF IInv, TypeOK, RowStates
  <1>2. PICK n : n = IF job[j].row = 0 THEN Len(rows) + 1 ELSE job[j].row
    OBVIOUS
  <1>3. PICK c \in BOOLEAN : c = (job[j].row = 0)
    OBVIOUS
  <1>4. PICK m : m = [job[j] EXCEPT !.pc = "save", !.created = c, !.row = n]
    OBVIOUS
  <1>5. n \in Nat /\ n # 0
    BY <1>1, <1>2 DEF Job
  <1>6. m \in Job /\ m.row = n
    BY <1>1, <1>4, <1>5 DEF Job
  <1>7. job' = [job EXCEPT ![j] = m]
    BY <1>1, <1>2, <1>3, <1>4 DEF Create, TypeOK
  <1>8. RowsGoOn /\ n <= Len(rows')
    <2>1. CASE job[j].row = 0
      <3>1. rows' = Append(rows, "empty") /\ "empty" \in RowStates
        BY <2>1 DEF Create, RowStates
      <3>2. /\ rows' \in Seq(RowStates) /\ Len(rows') = Len(rows) + 1
            /\ \A k \in 1..Len(rows) : rows'[k] = rows[k]
            /\ rows'[Len(rows) + 1] = "empty"
        BY <1>1, <3>1, AppendProperties
      <3>3. \A k \in 1..Len(rows') :
              (k \in 1..Len(rows) /\ rows'[k] = rows[k]) \/ rows'[k] # "gone"
        BY <1>1, <3>2
      <3> QED
        BY <1>1, <1>2, <2>1, <3>2, <3>3 DEF RowsGoOn, Create, TypeOK
    <2>2. CASE job[j].row # 0
      BY <1>1, <1>2, <2>2 DEF RowsGoOn, Create, TypeOK
    <2> QED
      BY <2>1, <2>2
  <1> QED
    BY <1>5, <1>6, <1>7, <1>8, JobKeeps DEF Create

LEMMA SaveDocumentKeeps == ASSUME IInv, NEW j \in Jobs, SaveDocument(j) PROVE IInv'
  <1> DEFINE n == job[j].row
             x == IF rows[n] = "gone" THEN "gone" ELSE "filled"
  <1>1. /\ TypeOK /\ job[j] \in Job /\ Len(rows) \in Nat /\ n \in 1..Len(rows)
        /\ rows \in Seq(RowStates)
    BY Domains DEF IInv, TypeOK, RowStates, SaveDocument, StepsFit, Job
  <1>2. PICK m : m = [job[j] EXCEPT !.pc = "ok"]
    OBVIOUS
  <1>3. m \in Job /\ m.row = n /\ m.pc = "ok"
    BY <1>1, <1>2 DEF Job
  <1>4. job' = [job EXCEPT ![j] = m]
    BY <1>1, <1>2 DEF SaveDocument, TypeOK
  <1>5. rows' = [rows EXCEPT ![n] = x] /\ x \in RowStates
    BY DEF SaveDocument, RowStates
  <1>6. /\ rows' \in Seq(RowStates) /\ Len(rows') = Len(rows)
        /\ \A k \in 1..Len(rows) : rows'[k] = IF k = n THEN x ELSE rows[k]
    BY <1>1, <1>5, WriteOne
  <1>7. \A k \in 1..Len(rows) : /\ rows'[k] = rows[k] \/ rows'[k] # "gone"
                                /\ rows[k] = "filled" => rows'[k] = "filled"
    BY <1>6
  <1> HIDE DEF n, x
  <1>8. RowsGoOn
    BY <1>1, <1>6, <1>7 DEF RowsGoOn, SaveDocument, TypeOK
  <1>9. m.row <= Len(rows') /\ m.pc # "save"
    BY <1>1, <1>3, <1>6
  <1> QED
    BY <1>3, <1>4, <1>8, <1>9, JobKeeps DEF SaveDocument

LEMMA SaveFailsKeeps == ASSUME IInv, NEW j \in Jobs, SaveFails(j) PROVE IInv'
  <1>1. /\ TypeOK /\ job[j] \in Job /\ Len(rows) \in Nat /\ job[j].row \in 1..Len(rows)
        /\ rows \in Seq(RowStates)
    BY Domains DEF IInv, TypeOK, RowStates, SaveFails, StepsFit, Job
  <1>2. PICK m : m = [job[j] EXCEPT !.pc = "error"]
    OBVIOUS
  <1>3. m \in Job /\ m.row = job[j].row /\ m.pc = "error"
    BY <1>1, <1>2 DEF Job
  <1>4. job' = [job EXCEPT ![j] = m]
    BY <1>1, <1>2 DEF SaveFails, TypeOK
  <1>5. "gone" \in RowStates
    BY DEF RowStates
  <1>6. rows' \in Seq(RowStates) /\ Len(rows') = Len(rows)
    BY <1>1, <1>5, WriteOne DEF SaveFails
  <1>7. diskErrors' \in 0..MaxDiskErrors /\ diskErrors' # 0
    BY <1>1, OutboxAssumption DEF SaveFails, TypeOK
  <1>8. RowsGoOn
    BY <1>1, <1>6, <1>7 DEF RowsGoOn
  <1>9. m.row <= Len(rows') /\ m.pc # "save"
    BY <1>1, <1>3, <1>6
  <1> QED
    BY <1>3, <1>4, <1>8, <1>9, JobKeeps DEF SaveFails

-----------------------------------------------------------------------------
(* A request or the worker goes on                                         *)

(* What it carries from now on: events that exist, and true counts.        *)
Carried(n) ==
    /\ n \in Local
    /\ n.hint <= Len(rows)
    /\ DOMAIN n.seen \subseteq 1..Len(events')
    /\ \A k \in DOMAIN n.seen : n.seen[k].hint <= Len(rows) /\ Told(n.seen[k].count, events'[k])
    /\ n.pc = "dispatched" => n.seen # Nothing

(* The events: one is added by a request that has none, or one is written. *)
EventsGoOn(a, n) ==
    /\ events' \in Seq(Event) /\ Len(events) <= Len(events')
    /\ \A k \in 1..Len(events') : events'[k].hint <= Len(rows) /\ Told(events'[k].count, events'[k])
    /\ \A k \in 1..Len(events) : events[k].failed <= events'[k].failed
    /\ a \in Requests /\ actor[a].pc \notin BeforeEvent => n.pc \notin BeforeEvent
    /\ Len(events') # Len(events) =>
         /\ Len(events') = Len(events) + 1
         /\ a \in Requests /\ actor[a].pc = "enqueue" /\ n.pc = "flush"

JobsGoOn ==
    /\ job' \in [Jobs -> Job]
    /\ \A j \in Jobs : job'[j].row <= Len(rows) /\ (job'[j].pc = "save" => job'[j].row # 0)

EndsFit(a, n) ==
    /\ rejecting' \in BOOLEAN
    /\ rejecting' => rejecting \/ \E k \in 1..Len(events') : events'[k].failed = MaxAttempts
    /\ status' # status => status' = "completed" /\ actor[a].pc = "completing"
    /\ n.pc = "completing" /\ diskErrors = 0 => Filled

GoesOn(a, n) ==
    /\ actor' = [actor EXCEPT ![a] = n]
    /\ Carried(n) /\ EventsGoOn(a, n) /\ JobsGoOn /\ EndsFit(a, n)
    /\ UNCHANGED <<rows, diskErrors, faults>>

(* Failures are not forgotten, so that no copy becomes untrue. *)
LEMMA StillTold ==
    ASSUME TypeOK, events' \in Seq(Event), Len(events) <= Len(events'),
           \A k \in 1..Len(events) : events[k].failed <= events'[k].failed
    PROVE  /\ \A k \in 1..Len(events), c \in Nat : Told(c, events[k]) => Told(c, events'[k])
           /\ \A k \in 1..Len(events) : events[k].failed = MaxAttempts
                                           => events'[k].failed = MaxAttempts
  <1> SUFFICES ASSUME NEW k \in 1..Len(events)
               PROVE  /\ \A c \in Nat : Told(c, events[k]) => Told(c, events'[k])
                      /\ events[k].failed = MaxAttempts => events'[k].failed = MaxAttempts
    OBVIOUS
  <1>1. events[k] \in Event /\ events'[k] \in Event
    BY Domains, ElementOfSeq, LenProperties
  <1>2. /\ events[k].failed \in 0..MaxAttempts /\ events'[k].failed \in 0..MaxAttempts
        /\ events[k].failed <= events'[k].failed /\ MaxAttempts \in Nat
    BY <1>1, Domains DEF Event
  <1> QED
    BY <1>2 DEF Told

LEMMA GoesOnTyped ==
    ASSUME IInv, NEW a \in Actors, NEW n, GoesOn(a, n), Len(events') <= Cardinality(Requests)
    PROVE  TypeOK'
  <1>1. /\ TypeOK /\ Len(rows) \in Nat /\ rows' = rows /\ diskErrors' = diskErrors
        /\ faults' = faults /\ n \in Local /\ actor \in [Actors -> Local]
    BY Domains DEF IInv, GoesOn, Carried
  <1>2. /\ actor'[a] = n /\ \A b \in Actors : b # a => actor'[b] = actor[b]
        /\ Len(events) \in Nat /\ Len(events') \in Nat /\ Len(events) <= Len(events')
        /\ DOMAIN events' = 1..Len(events') /\ DOMAIN events = 1..Len(events)
    BY <1>1, Domains, LenProperties DEF GoesOn, EventsGoOn
  <1>3. \A b \in Actors :
           /\ actor'[b].pc \in ActorSteps
           /\ actor'[b].hint \in 0..Len(rows)
           /\ actor'[b].round \in {"retry", "pending", "flush"}
           /\ DOMAIN actor'[b].seen \subseteq DOMAIN events'
           /\ \A k \in DOMAIN actor'[b].seen :
                actor'[b].seen[k] \in Event /\ actor'[b].seen[k].hint <= Len(rows)
    <2> TAKE b \in Actors
    <2>1. CASE b = a
      <3>1. /\ n.pc \in ActorSteps /\ n.hint \in Nat
            /\ n.round \in {"retry", "pending", "flush"}
            /\ \A k \in DOMAIN n.seen : n.seen[k] \in Event
        <4>1. PICK S \in SUBSET Nat : n.seen \in [S -> Event]
          BY <1>1 DEF Local
        <4> QED
          BY <1>1, <4>1 DEF Local
      <3> QED
        BY <1>1, <1>2, <2>1, <3>1 DEF GoesOn, Carried
    <2>2. CASE b # a
      <3>1. DOMAIN actor[b].seen \subseteq DOMAIN events'
        BY <1>1, <1>2 DEF TypeOK
      <3> QED
        BY <1>1, <1>2, <2>2, <3>1 DEF TypeOK
    <2> QED
      BY <2>1, <2>2
  <1>4. /\ \A k \in DOMAIN events' : events'[k].hint <= Len(rows)
        /\ events' \in Seq(Event) /\ job' \in [Jobs -> Job]
        /\ \A j \in Jobs : job'[j].row <= Len(rows)
        /\ rejecting' \in BOOLEAN /\ status' \in {"open", "completed", "rejected"}
    BY <1>1, <1>2 DEF GoesOn, EventsGoOn, JobsGoOn, EndsFit, TypeOK
  <1> QED
    BY <1>1, <1>3, <1>4 DEF TypeOK

LEMMA GoesOnEnqueued ==
    ASSUME IInv, NEW a \in Actors, NEW n, GoesOn(a, n)
    PROVE  Enqueued' /\ Len(events') <= Cardinality(Requests)
  <1>1. /\ TypeOK /\ Enqueued /\ actor \in [Actors -> Local]
        /\ Len(events) \in Nat /\ Len(events') \in Nat
    BY Domains, LenProperties DEF IInv, GoesOn, EventsGoOn
  <1>2. actor'[a] = n /\ \A b \in Actors : b # a => actor'[b] = actor[b]
    BY <1>1 DEF GoesOn
  <1>3. /\ IsFiniteSet(Requests) /\ Passed \in SUBSET Requests /\ Passed' \in SUBSET Requests
        /\ Requests \subseteq Actors
    BY OutboxAssumption DEF Passed, Actors
  <1>4. /\ IsFiniteSet(Passed) /\ IsFiniteSet(Passed')
        /\ Cardinality(Passed) \in Nat /\ Cardinality(Passed') \in Nat
        /\ Cardinality(Requests) \in Nat /\ Cardinality(Passed') <= Cardinality(Requests)
    BY <1>3, FS_Subset, FS_CardinalityType
  <1>5. Passed \subseteq Passed'
    BY <1>2, <1>3 DEF Passed, GoesOn, EventsGoOn
  <1>6. Enqueued'
    <2>1. CASE Len(events') = Len(events)
      <3>1. Cardinality(Passed) <= Cardinality(Passed')
        BY <1>4, <1>5, FS_Subset
      <3> QED
        BY <1>1, <1>4, <2>1, <3>1 DEF Enqueued
    <2>2. CASE Len(events') # Len(events)
      <3>1. /\ Len(events') = Len(events) + 1
            /\ a \in Requests /\ actor[a].pc = "enqueue" /\ n.pc = "flush"
        BY <2>2 DEF GoesOn, EventsGoOn
      <3>2. a \in Passed' /\ a \notin Passed
        BY <1>2, <3>1 DEF Passed, BeforeEvent
      <3>3. Cardinality(Passed) < Cardinality(Passed')
        <4>1. Passed # Passed'
          BY <3>2
        <4> QED
          BY <1>4, <1>5, <4>1, FS_Subset
      <3> QED
        BY <1>1, <1>4, <3>1, <3>3 DEF Enqueued
    <2> QED
      BY <2>1, <2>2
  <1> QED
    BY <1>1, <1>4, <1>6 DEF Enqueued

LEMMA GoesOnKeeps ==
    ASSUME IInv, NEW a \in Actors, NEW n, GoesOn(a, n)
    PROVE  IInv'
  <1>1. TypeOK' /\ Enqueued'
    BY GoesOnTyped, GoesOnEnqueued
  <1>2. /\ TypeOK /\ rows' = rows /\ diskErrors' = diskErrors /\ n \in Local
        /\ actor \in [Actors -> Local]
        /\ Len(events) \in Nat /\ Len(events') \in Nat /\ Len(events) <= Len(events')
        /\ events' \in Seq(Event)
        /\ DOMAIN events' = 1..Len(events') /\ DOMAIN events = 1..Len(events)
    BY Domains, LenProperties DEF IInv, GoesOn, Carried, EventsGoOn
  <1>3. /\ actor'[a] = n /\ \A b \in Actors : b # a => actor'[b] = actor[b]
        /\ actor' \in [Actors -> Local]
    BY <1>2 DEF GoesOn
  <1>4. /\ \A k \in 1..Len(events), c \in Nat : Told(c, events[k]) => Told(c, events'[k])
        /\ \A k \in 1..Len(events) : events[k].failed = MaxAttempts
                                        => events'[k].failed = MaxAttempts
    BY <1>2, StillTold DEF GoesOn, EventsGoOn
  <1>5. Counted'
    <2>1. \A k \in 1..Len(events') : Told(events'[k].count, events'[k])
      BY DEF GoesOn, EventsGoOn
    <2>2. \A b \in Actors : \A k \in DOMAIN actor'[b].seen : Told(actor'[b].seen[k].count, events'[k])
      <3> TAKE b \in Actors
      <3>1. CASE b = a
        BY <1>3, <3>1 DEF GoesOn, Carried
      <3>2. CASE b # a
        <4> TAKE k \in DOMAIN actor'[b].seen
        <4>1. actor'[b] = actor[b] /\ k \in 1..Len(events) /\ actor[b].seen[k] \in Event
          BY <1>2, <1>3, <3>2 DEF TypeOK
        <4>2. actor[b].seen[k].count \in Nat /\ Told(actor[b].seen[k].count, events[k])
          BY <1>3, <3>2, <4>1 DEF IInv, Counted, Event
        <4> QED
          BY <1>4, <4>1, <4>2
      <3> QED
        BY <3>1, <3>2
    <2> QED
      BY <2>1, <2>2 DEF Counted
  <1>6. StepsFit'
    BY <1>3 DEF IInv, StepsFit, GoesOn, Carried, JobsGoOn
  <1>7. RejectedWhenExhausted'
    <2>1. RejectedWhenExhausted
      BY DEF IInv
    <2>2. CASE \E k \in 1..Len(events') : events'[k].failed = MaxAttempts
      BY <1>2, <2>2 DEF RejectedWhenExhausted
    <2>3. CASE ~ \E k \in 1..Len(events') : events'[k].failed = MaxAttempts
      <3>1. ~ \E k \in DOMAIN events : events[k].failed = MaxAttempts
        BY <1>2, <1>4, <2>3
      <3>2. ~rejecting /\ status # "rejected" /\ ~rejecting' /\ status' # "rejected"
        BY <2>1, <2>3, <3>1 DEF RejectedWhenExhausted, GoesOn, EndsFit
      <3> QED
        BY <3>2 DEF RejectedWhenExhausted
    <2> QED
      BY <2>2, <2>3
  <1>8. Documents'
    <2> SUFFICES ASSUME diskErrors = 0
                 PROVE  /\ \A k \in 1..Len(rows) : rows[k] # "gone"
                        /\ status' = "completed" => Filled
                        /\ \A b \in Actors : actor'[b].pc = "completing" => Filled
      BY <1>2 DEF Documents, Filled
    <2> QED
      BY <1>3 DEF IInv, Documents, GoesOn, EndsFit
  <1> QED
    BY <1>1, <1>3, <1>5, <1>6, <1>7, <1>8 DEF IInv

-----------------------------------------------------------------------------
(* What most steps leave as it is                                          *)

LEMMA Typed ==
    ASSUME IInv
    PROVE  /\ TypeOK /\ Len(rows) \in Nat
           /\ Len(events) \in Nat /\ DOMAIN events = 1..Len(events)
           /\ actor \in [Actors -> Local] /\ job \in [Jobs -> Job]
           /\ \A a \in Actors : /\ actor[a] \in Local /\ Delivery(a) \in Jobs
                                /\ actor[a].hint <= Len(rows)
           /\ Requests \subseteq Actors /\ Worker \in Actors
           /\ \A r \in Requests : Attempt(r) \in Jobs
  BY Domains DEF IInv, TypeOK, Actors, Jobs, Delivery, Attempt

LEMMA EventsStay ==
    ASSUME IInv, NEW a \in Actors, NEW n, UNCHANGED events,
           a \in Requests /\ actor[a].pc \notin BeforeEvent => n.pc \notin BeforeEvent
    PROVE  EventsGoOn(a, n)
  <1>1. /\ TypeOK /\ Counted /\ events \in Seq(Event) /\ Len(events) \in Nat
        /\ DOMAIN events = 1..Len(events)
    BY Domains DEF IInv, TypeOK
  <1>2. \A k \in 1..Len(events) : events[k].failed <= events[k].failed
    BY <1>1, Domains, OutboxAssumption DEF Event
  <1> QED
    BY <1>1, <1>2 DEF EventsGoOn, Counted, TypeOK

LEMMA JobsStay == ASSUME IInv, UNCHANGED job PROVE JobsGoOn
  BY DEF IInv, TypeOK, StepsFit, JobsGoOn

LEMMA JobSet ==
    ASSUME IInv, NEW j \in Jobs, NEW m \in Job, job' = [job EXCEPT ![j] = m],
           m.row <= Len(rows), m.pc # "save"
    PROVE  JobsGoOn
  <1>1. /\ job' \in [Jobs -> Job] /\ job'[j] = m
        /\ \A i \in Jobs : i # j => job'[i] = job[i]
    BY DEF IInv, TypeOK
  <1> QED
    BY <1>1 DEF IInv, TypeOK, StepsFit, JobsGoOn

LEMMA NoJobTyped ==
    ASSUME IInv
    PROVE  NoJob \in Job /\ NoJob.row <= Len(rows) /\ NoJob.pc # "save"
  <1>1. NoJob \in Job /\ NoJob.row = 0 /\ NoJob.pc = "off"
    BY DEF NoJob, Job
  <1> QED
    BY <1>1, Typed

(* Copies remain true. *)
LEMMA CopiesStay ==
    ASSUME IInv, NEW a \in Actors,
           events' \in Seq(Event), Len(events) <= Len(events'),
           \A k \in 1..Len(events) : events[k].failed <= events'[k].failed
    PROVE  /\ DOMAIN actor[a].seen \subseteq 1..Len(events)
           /\ DOMAIN actor[a].seen \subseteq 1..Len(events')
           /\ \A k \in DOMAIN actor[a].seen :
                /\ actor[a].seen[k] \in Event /\ actor[a].seen[k].hint <= Len(rows)
                /\ Told(actor[a].seen[k].count, events'[k])
  <1>1. /\ TypeOK /\ Counted /\ Len(events) \in Nat /\ Len(events') \in Nat
        /\ DOMAIN events = 1..Len(events)
    BY Domains, LenProperties DEF IInv
  <1>2. \A k \in 1..Len(events), c \in Nat : Told(c, events[k]) => Told(c, events'[k])
    BY <1>1, StillTold
  <1>3. DOMAIN actor[a].seen \subseteq 1..Len(events)
    BY <1>1 DEF TypeOK
  <1>4. \A k \in DOMAIN actor[a].seen :
           /\ actor[a].seen[k] \in Event /\ actor[a].seen[k].hint <= Len(rows)
           /\ actor[a].seen[k].count \in Nat
           /\ Told(actor[a].seen[k].count, events[k])
    BY <1>1 DEF TypeOK, Counted, Event
  <1> QED
    BY <1>1, <1>2, <1>3, <1>4

LEMMA CarriedOn ==
    ASSUME IInv, NEW a \in Actors, NEW n, n \in Local,
           n.hint = actor[a].hint, n.seen = actor[a].seen,
           n.pc = "dispatched" => n.seen # Nothing,
           events' \in Seq(Event), Len(events) <= Len(events'),
           \A k \in 1..Len(events) : events[k].failed <= events'[k].failed
    PROVE  Carried(n)
  BY CopiesStay, Typed DEF Carried

(* A step that changes where a request is and nothing it carries. *)
LEMMA Moves ==
    ASSUME IInv, NEW a \in Actors, NEW pc \in ActorSteps, pc # "dispatched",
           actor' = [actor EXCEPT ![a].pc = pc],
           a \in Requests /\ actor[a].pc \notin BeforeEvent => pc \notin BeforeEvent,
           JobsGoOn, UNCHANGED <<events, rows, rejecting, diskErrors, faults>>,
           status' # status => status' = "completed" /\ actor[a].pc = "completing",
           pc = "completing" /\ diskErrors = 0 => Filled
    PROVE  IInv'
  <1>1. PICK n : n = [actor[a] EXCEPT !.pc = pc]
    OBVIOUS
  <1>2. n \in Local /\ n.pc = pc /\ n.hint = actor[a].hint /\ n.seen = actor[a].seen
    BY <1>1, Typed DEF Local
  <1>3. actor' = [actor EXCEPT ![a] = n]
    BY <1>1, Typed
  <1>4. EventsGoOn(a, n)
    BY <1>2, EventsStay
  <1>5. Carried(n)
    BY <1>2, <1>4, CarriedOn DEF EventsGoOn
  <1>6. EndsFit(a, n)
    BY <1>2, Typed DEF EndsFit, TypeOK
  <1> QED
    BY <1>3, <1>4, <1>5, <1>6, GoesOnKeeps DEF GoesOn

-----------------------------------------------------------------------------
(* The steps of a request and of the worker                                *)

LEMMA BeginKeeps == ASSUME IInv, NEW r \in Requests, Begin(r) PROVE IInv'
  <1>1. /\ Latest \in 0..Len(rows) /\ Len(rows) \in Nat /\ r \in Actors
        /\ Latest \in Nat /\ Latest <= Len(rows)
    BY LatestFits, Typed
  <1>2. PICK m : m = [NoJob EXCEPT !.pc = "find", !.row = Latest]
    OBVIOUS
  <1>3. m \in Job /\ m.row <= Len(rows) /\ m.pc # "save"
    BY <1>1, <1>2 DEF Job, NoJob
  <1>4. JobsGoOn
    BY <1>2, <1>3, JobSet, Typed DEF Begin, Start
  <1>5. PICK n : n = [actor[r] EXCEPT !.pc = "generating", !.hint = Latest]
    OBVIOUS
  <1>6. n \in Local /\ n.pc = "generating" /\ n.hint = Latest /\ n.seen = actor[r].seen
    BY <1>1, <1>5, Typed DEF Local, ActorSteps
  <1>7. actor' = [actor EXCEPT ![r] = n]
    BY <1>1, <1>5, Typed DEF Begin
  <1>8. EventsGoOn(r, n)
    BY <1>1, <1>6, EventsStay DEF Begin, BeforeEvent
  <1>9. Carried(n)
    <2>1. n.hint <= Len(rows)
      BY <1>1, <1>6
    <2> QED
      BY <1>1, <1>6, <1>8, <2>1, CopiesStay DEF EventsGoOn, Carried
  <1>10. EndsFit(r, n)
    BY <1>6, Typed DEF EndsFit, TypeOK, Begin
  <1> QED
    BY <1>1, <1>4, <1>7, <1>8, <1>9, <1>10, GoesOnKeeps DEF GoesOn, Begin

LEMMA AttemptEndsKeeps == ASSUME IInv, NEW r \in Requests, AttemptEnds(r) PROVE IInv'
  <1>1. PICK pc : pc = IF job[Attempt(r)].pc = "ok" THEN "flush" ELSE "enqueue"
    OBVIOUS
  <1>2. pc \in {"flush", "enqueue"} /\ pc \in ActorSteps
    BY <1>1 DEF ActorSteps
  <1>3. actor' = [actor EXCEPT ![r].pc = pc] /\ actor[r].pc \in BeforeEvent
    BY <1>1 DEF AttemptEnds, BeforeEvent
  <1>4. JobsGoOn
    BY Typed, NoJobTyped, JobSet DEF AttemptEnds
  <1> QED
    BY <1>2, <1>3, <1>4, Typed, Moves DEF AttemptEnds

LEMMA TimesOutKeeps == ASSUME IInv, NEW r \in Requests, TimesOut(r) PROVE IInv'
  <1>1. "enqueue" \in ActorSteps /\ actor[r].pc \in BeforeEvent
    BY DEF TimesOut, ActorSteps, BeforeEvent
  <1> QED
    BY <1>1, Typed, JobsStay, Moves DEF TimesOut

LEMMA EnqueueKeeps == ASSUME IInv, NEW r \in Requests, Enqueue(r) PROVE IInv'
  <1>1. /\ TypeOK /\ Len(rows) \in Nat /\ r \in Actors /\ events \in Seq(Event)
        /\ actor[r] \in Local /\ actor[r].hint <= Len(rows) /\ Len(events) \in Nat
        /\ DOMAIN events = 1..Len(events)
    BY Typed DEF TypeOK
  <1>2. PICK e : e = [status |-> "pending", count |-> 0, failed |-> 0, hint |-> actor[r].hint]
    OBVIOUS
  <1>3. e \in Event /\ e.count = 0 /\ e.failed = 0 /\ e.hint = actor[r].hint
    BY <1>1, <1>2, OutboxAssumption DEF Event, Local
  <1>4. /\ events' \in Seq(Event) /\ Len(events') = Len(events) + 1
        /\ \A k \in 1..Len(events) : events'[k] = events[k]
        /\ events'[Len(events) + 1] = e
    BY <1>1, <1>2, <1>3, AppendProperties DEF Enqueue
  <1>5. PICK n : n = [actor[r] EXCEPT !.pc = "flush"]
    OBVIOUS
  <1>6. n \in Local /\ n.pc = "flush" /\ n.hint = actor[r].hint /\ n.seen = actor[r].seen
    BY <1>1, <1>5 DEF Local, ActorSteps
  <1>7. actor' = [actor EXCEPT ![r] = n]
    BY <1>1, <1>5, Typed DEF Enqueue
  <1>8. EventsGoOn(r, n)
    <2>1. \A k \in 1..Len(events) : events[k].failed <= events'[k].failed
      BY <1>1, <1>4, Domains, OutboxAssumption DEF Event
    <2>2. \A k \in 1..Len(events') :
            events'[k].hint <= Len(rows) /\ Told(events'[k].count, events'[k])
      <3> TAKE k \in 1..Len(events')
      <3>1. CASE k \in 1..Len(events)
        BY <1>1, <1>4, <3>1 DEF TypeOK, IInv, Counted
      <3>2. CASE k \notin 1..Len(events)
        <4>1. k = Len(events) + 1
          BY <1>1, <1>4, <3>2
        <4> QED
          BY <1>1, <1>3, <1>4, <4>1 DEF Told
      <3> QED
        BY <3>1, <3>2
    <2>3. Len(events) <= Len(events') /\ actor[r].pc = "enqueue"
      BY <1>1, <1>4 DEF Enqueue
    <2> QED
      BY <1>4, <1>6, <2>1, <2>2, <2>3 DEF EventsGoOn, BeforeEvent
  <1>9. Carried(n)
    BY <1>1, <1>6, <1>8, CarriedOn DEF EventsGoOn
  <1>10. EndsFit(r, n)
    BY <1>1, <1>6 DEF EndsFit, TypeOK, Enqueue
  <1> QED
    BY <1>1, <1>7, <1>8, <1>9, <1>10, GoesOnKeeps, JobsStay DEF GoesOn, Enqueue

(* A round begins: what it loads is as true as the events. *)
LEMMA LoadKeeps ==
    ASSUME IInv, NEW a \in Actors, NEW round \in {"retry", "pending", "flush"},
           Load(a, round), UNCHANGED <<status, rows, events, job, rejecting, diskErrors, faults>>
    PROVE  IInv'
  <1>1. /\ TypeOK /\ Len(events) \in Nat /\ actor[a] \in Local /\ actor \in [Actors -> Local]
        /\ actor[a].hint <= Len(rows) /\ DOMAIN events = 1..Len(events)
        /\ \A k \in 1..Len(events) : events[k] \in Event
    BY Typed, Domains
  <1>2. PICK f : f = [k \in Selected(round) |-> events[k]]
    OBVIOUS
  <1>3. Selected(round) \subseteq 1..Len(events)
    BY <1>1 DEF Selected
  <1>4. /\ f \in [Selected(round) -> Event] /\ DOMAIN f = Selected(round)
        /\ \A k \in Selected(round) : f[k] = events[k]
    BY <1>1, <1>2, <1>3
  <1>5. f \in UNION {[S -> Event] : S \in SUBSET Nat}
    BY <1>3, <1>4
  <1>6. PICK n : n = [actor[a] EXCEPT !.pc = "deliver", !.round = round, !.seen = f]
    OBVIOUS
  <1>7. n \in Local /\ n.pc = "deliver" /\ n.hint = actor[a].hint /\ n.seen = f
    BY <1>1, <1>5, <1>6 DEF Local, ActorSteps
  <1>8. actor' = [actor EXCEPT ![a] = n]
    BY <1>1, <1>2, <1>6 DEF Load
  <1>9. EventsGoOn(a, n)
    BY <1>7, EventsStay DEF BeforeEvent
  <1>10. Carried(n)
    <2>1. \A k \in DOMAIN f : f[k].hint <= Len(rows) /\ Told(f[k].count, events'[k])
      BY <1>1, <1>3, <1>4 DEF IInv, Counted, TypeOK
    <2> QED
      BY <1>1, <1>3, <1>4, <1>7, <2>1 DEF Carried
  <1>11. EndsFit(a, n)
    BY <1>1, <1>7 DEF EndsFit, TypeOK
  <1> QED
    BY <1>8, <1>9, <1>10, <1>11, GoesOnKeeps, JobsStay DEF GoesOn

LEMMA FlushKeeps == ASSUME IInv, NEW r \in Requests, Flush(r) PROVE IInv'
  BY Typed, LoadKeeps DEF Flush

LEMMA PollKeeps == ASSUME IInv, Poll PROVE IInv'
  <1>1. Worker \in Actors /\ Worker \notin Requests
    BY Typed, OutboxAssumption
  <1>2. CASE Load(Worker, "retry")
    BY <1>1, <1>2, LoadKeeps DEF Poll
  <1>3. CASE Load(Worker, "pending")
    BY <1>1, <1>3, LoadKeeps DEF Poll
  <1>4. CASE actor' = [actor EXCEPT ![Worker] = Resting(Worker)]
    <2>1. PICK n : n = Resting(Worker)
      OBVIOUS
    <2>2. n \in Local /\ n.pc = "idle" /\ n.hint = 0 /\ n.seen = Nothing /\ DOMAIN n.seen = {}
      <3>1. Nothing \in [{} -> Event] /\ DOMAIN Nothing = {}
        BY DEF Nothing
      <3>2. Nothing \in UNION {[S -> Event] : S \in SUBSET Nat}
        BY <3>1
      <3> QED
        BY <2>1, <3>1, <3>2 DEF Resting, Local, ActorSteps
    <2>3. Carried(n)
      BY <2>2, Typed DEF Carried
    <2>4. EventsGoOn(Worker, n)
      BY <1>1, EventsStay DEF Poll
    <2>5. EndsFit(Worker, n)
      BY <2>2, Typed DEF EndsFit, Poll, TypeOK
    <2> QED
      BY <1>1, <1>4, <2>1, <2>3, <2>4, <2>5, GoesOnKeeps, JobsStay DEF GoesOn, Poll
  <1> QED
    BY <1>2, <1>3, <1>4 DEF Poll

LEMMA AssessKeeps == ASSUME IInv, NEW r \in Requests, Assess(r) PROVE IInv'
  <1>1. PICK pc : pc = IF Ready THEN "completing" ELSE "blocked"
    OBVIOUS
  <1>2. pc \in {"completing", "blocked"} /\ pc \in ActorSteps
    BY <1>1 DEF ActorSteps
  <1>3. Ready => Filled
    BY Typed, Domains DEF Ready, Filled, Live
  <1>4. actor' = [actor EXCEPT ![r].pc = pc]
    BY <1>1 DEF Assess
  <1> QED
    BY <1>1, <1>2, <1>3, <1>4, Typed, JobsStay, Moves DEF Assess, BeforeEvent

LEMMA CompleteKeeps == ASSUME IInv, NEW r \in Requests, Complete(r) PROVE IInv'
  <1>1. "done" \in ActorSteps
    BY DEF ActorSteps
  <1> QED
    BY <1>1, Typed, JobsStay, Moves DEF Complete, BeforeEvent

LEMMA ResumeKeeps == ASSUME IInv, NEW r \in Requests, Resume(r) PROVE IInv'
  <1>1. "flush" \in ActorSteps
    BY DEF ActorSteps
  <1> QED
    BY <1>1, Typed, JobsStay, Moves DEF Resume, BeforeEvent

-----------------------------------------------------------------------------
(* Deliveries                                                              *)

LEMMA AtFits ==
    ASSUME IInv, NEW a \in Actors, actor[a].seen # Nothing
    PROVE  /\ At(a) \in DOMAIN actor[a].seen /\ At(a) \in 1..Len(events)
           /\ actor[a].seen[At(a)] \in Event
           /\ actor[a].seen[At(a)].hint <= Len(rows)
  <1> DEFINE S == DOMAIN actor[a].seen
  <1>1. /\ TypeOK /\ actor[a] \in Local /\ Len(events) \in Nat
        /\ DOMAIN events = 1..Len(events)
    BY Typed
  <1>2. S \subseteq 1..Len(events)
    BY <1>1 DEF TypeOK
  <1>3. S # {}
    <2>1. PICK D \in SUBSET Nat : actor[a].seen \in [D -> Event]
      BY <1>1 DEF Local
    <2>2. S = {} => actor[a].seen = Nothing
      BY <2>1 DEF Nothing
    <2> QED
      BY <2>2
  <1>4. IsFiniteSet(S) /\ S \in SUBSET Nat
    <2>1. IsFiniteSet(1..Len(events)) /\ S \in SUBSET (1..Len(events))
      BY <1>1, <1>2, FS_Interval
    <2> QED
      BY <2>1, FS_Subset
  <1>5. \E n \in S : \A m \in S : n <= m
    BY <1>3, <1>4, FiniteExtrema
  <1>6. At(a) \in S
    BY <1>5 DEF At
  <1> QED
    BY <1>1, <1>2, <1>6 DEF TypeOK

(* An event is behind: the others of the round remain. *)
LEMMA OthersCarried ==
    ASSUME IInv, NEW a \in Actors, NEW k, NEW n,
           n = [actor[a] EXCEPT !.pc = "deliver", !.seen = Others(actor[a].seen, k)],
           events' \in Seq(Event), Len(events) <= Len(events'),
           \A i \in 1..Len(events) : events[i].failed <= events'[i].failed
    PROVE  Carried(n) /\ n.pc = "deliver"
  <1>1. actor[a] \in Local /\ actor[a].hint <= Len(rows)
    BY Typed
  <1>2. /\ DOMAIN actor[a].seen \subseteq 1..Len(events')
        /\ \A i \in DOMAIN actor[a].seen :
                /\ actor[a].seen[i] \in Event /\ actor[a].seen[i].hint <= Len(rows)
                /\ Told(actor[a].seen[i].count, events'[i])
    BY CopiesStay
  <1>3. PICK f : f = Others(actor[a].seen, k)
    OBVIOUS
  <1>4. /\ DOMAIN f = DOMAIN actor[a].seen \ {k} /\ f \in [DOMAIN f -> Event]
        /\ \A i \in DOMAIN f : f[i] = actor[a].seen[i]
    BY <1>2, <1>3 DEF Others
  <1>5. f \in UNION {[S -> Event] : S \in SUBSET Nat}
    <2>1. DOMAIN f \in SUBSET Nat
      BY <1>2, <1>4
    <2> QED
      BY <1>4, <2>1
  <1>6. n = [actor[a] EXCEPT !.pc = "deliver", !.seen = f]
    BY <1>3
  <1>7. n \in Local /\ n.pc = "deliver" /\ n.hint = actor[a].hint /\ n.seen = f
    BY <1>1, <1>5, <1>6 DEF Local, ActorSteps
  <1> QED
    BY <1>1, <1>2, <1>4, <1>7 DEF Carried

(* One event is written, its count true and its failures kept. *)
LEMMA EventWritten ==
    ASSUME IInv, NEW a \in Actors, NEW n, NEW k \in 1..Len(events), NEW e \in Event,
           events' = [events EXCEPT ![k] = e],
           e.hint = events[k].hint, events[k].failed <= e.failed, Told(e.count, e),
           n.pc \notin BeforeEvent
    PROVE  EventsGoOn(a, n) /\ Len(events') = Len(events) /\ events'[k] = e
  <1>1. /\ TypeOK /\ Counted /\ events \in Seq(Event) /\ Len(events) \in Nat
        /\ DOMAIN events = 1..Len(events) /\ events[k] \in Event
    BY Domains DEF IInv, TypeOK
  <1>2. /\ events' \in Seq(Event) /\ Len(events') = Len(events)
        /\ \A i \in 1..Len(events) : events'[i] = IF i = k THEN e ELSE events[i]
    BY <1>1, WriteOne
  <1>3. \A i \in 1..Len(events) : events[i].failed <= events'[i].failed
    BY <1>1, <1>2, Domains, OutboxAssumption, SMTT(30) DEF Event
  <1>4. \A i \in 1..Len(events) :
          events'[i].hint <= Len(rows) /\ Told(events'[i].count, events'[i])
    BY <1>1, <1>2 DEF TypeOK, Counted
  <1> QED
    BY <1>1, <1>2, <1>3, <1>4 DEF EventsGoOn

LEMMA DispatchKeeps == ASSUME IInv, NEW a \in Actors, Dispatch(a) PROVE IInv'
  <1> DEFINE k == At(a)
             e == actor[a].seen[k]
  <1>1. /\ TypeOK /\ actor[a] \in Local /\ Len(events) \in Nat /\ k \in 1..Len(events)
        /\ e \in Event /\ e.hint <= Len(rows) /\ events \in Seq(Event)
        /\ actor \in [Actors -> Local] /\ actor[a].seen # Nothing /\ Delivery(a) \in Jobs
    BY Typed, AtFits DEF Dispatch, TypeOK
  <1>2. CASE Exhausted(e)
    <2>1. PICK n : n = [actor[a] EXCEPT !.pc = "deliver", !.seen = Others(actor[a].seen, k)]
      OBVIOUS
    <2>2. actor' = [actor EXCEPT ![a] = n]
      <3>1. actor[a].pc = "deliver" /\ actor' = [actor EXCEPT ![a].seen = Others(actor[a].seen, k)]
        BY <1>1, <1>2 DEF Dispatch
      <3>2. n = [actor[a] EXCEPT !.seen = Others(actor[a].seen, k)]
        BY <1>1, <2>1, <3>1 DEF Local
      <3> QED
        BY <1>1, <3>1, <3>2
    <2>3. UNCHANGED <<events, job>>
      BY <1>2 DEF Dispatch
    <2>4. n.pc = "deliver"
      BY <1>1, <2>1 DEF Local
    <2>5. EventsGoOn(a, n)
      BY <2>3, <2>4, EventsStay DEF BeforeEvent
    <2>6. Carried(n)
      BY <2>1, <2>5, OthersCarried DEF EventsGoOn
    <2>7. EndsFit(a, n)
      BY <1>1, <2>4 DEF EndsFit, TypeOK, Dispatch
    <2> QED
      BY <2>2, <2>3, <2>5, <2>6, <2>7, GoesOnKeeps, JobsStay DEF GoesOn, Dispatch
  <1>3. CASE ~Exhausted(e)
    <2>1. PICK n : n = [actor[a] EXCEPT !.pc = "dispatched"]
      OBVIOUS
    <2>2. /\ n \in Local /\ n.pc = "dispatched" /\ n.hint = actor[a].hint
          /\ n.seen = actor[a].seen
      BY <1>1, <2>1 DEF Local, ActorSteps
    <2>3. actor' = [actor EXCEPT ![a] = n]
      BY <1>1, <1>3, <2>1 DEF Dispatch
    <2>4. PICK m : m = [NoJob EXCEPT !.pc = "find", !.row = e.hint]
      OBVIOUS
    <2>5. m \in Job /\ m.row <= Len(rows) /\ m.pc # "save"
      <3>1. e.hint \in Nat
        BY <1>1 DEF Event
      <3> QED
        BY <1>1, <2>4, <3>1 DEF Job, NoJob
    <2>6. JobsGoOn
      BY <1>1, <1>3, <2>4, <2>5, JobSet DEF Dispatch, Start
    <2>7. EventsGoOn(a, n)
      <3>1. CASE e.status = "failed"
        <4>1. PICK x : x = [events[k] EXCEPT !.status = "pending"]
          OBVIOUS
        <4>2. events[k] \in Event /\ Told(events[k].count, events[k])
          BY <1>1, Domains DEF IInv, Counted
        <4>3. /\ x \in Event /\ x.hint = events[k].hint /\ x.failed = events[k].failed
              /\ x.count = events[k].count
          BY <4>1, <4>2 DEF Event
        <4>4. events' = [events EXCEPT ![k] = x]
          BY <1>1, <1>3, <3>1, <4>1 DEF Dispatch
        <4>5. events[k].failed <= x.failed /\ Told(x.count, x)
          BY <4>2, <4>3, OutboxAssumption DEF Event, Told
        <4> HIDE DEF k, e
        <4> QED
          BY <1>1, <2>2, <4>3, <4>4, <4>5, EventWritten DEF BeforeEvent
      <3>2. CASE e.status # "failed"
        <4>1. UNCHANGED events
          BY <1>3, <3>2 DEF Dispatch
        <4> QED
          BY <2>2, <4>1, EventsStay DEF BeforeEvent
      <3> QED
        BY <3>1, <3>2
    <2>8. Carried(n)
      BY <1>1, <2>2, <2>7, CarriedOn DEF EventsGoOn
    <2>9. EndsFit(a, n)
      BY <1>1, <2>2 DEF EndsFit, TypeOK, Dispatch
    <2> QED
      BY <2>3, <2>6, <2>7, <2>8, <2>9, GoesOnKeeps DEF GoesOn, Dispatch
  <1> QED
    BY <1>2, <1>3

(* The end of a delivery, whatever it has written. *)
LEMMA ReturnKeeps ==
    ASSUME IInv, NEW a \in Actors, NEW k \in 1..Len(events), NEW e \in Event,
           actor[a].pc = "dispatched", Return(a, k), events' = [events EXCEPT ![k] = e],
           e.hint = events[k].hint, events[k].failed <= e.failed, Told(e.count, e),
           rejecting' \in BOOLEAN, rejecting' => rejecting \/ e.failed = MaxAttempts,
           UNCHANGED <<status, rows, diskErrors, faults>>
    PROVE  IInv'
  <1>1. TypeOK /\ Len(events) \in Nat /\ actor \in [Actors -> Local] /\ Delivery(a) \in Jobs
    BY Typed
  <1>2. PICK n : n = [actor[a] EXCEPT !.pc = "deliver", !.seen = Others(actor[a].seen, k)]
    OBVIOUS
  <1>3. actor' = [actor EXCEPT ![a] = n]
    BY <1>1, <1>2 DEF Return
  <1>4. n.pc = "deliver"
    BY <1>1, <1>2 DEF Local
  <1>5. EventsGoOn(a, n) /\ Len(events') = Len(events) /\ events'[k] = e
    <2>1. n.pc \notin BeforeEvent
      BY <1>4 DEF BeforeEvent
    <2> QED
      BY <2>1, EventWritten, ZenonT(30)
  <1>6. Carried(n)
    BY <1>2, <1>5, OthersCarried DEF EventsGoOn
  <1>7. JobsGoOn
    BY <1>1, NoJobTyped, JobSet DEF Return
  <1>8. EndsFit(a, n)
    BY <1>4, <1>5 DEF EndsFit
  <1> QED
    BY <1>3, <1>5, <1>6, <1>7, <1>8, GoesOnKeeps DEF GoesOn

LEMMA MarkProcessedKeeps == ASSUME IInv, NEW a \in Actors, MarkProcessed(a) PROVE IInv'
  <1>1. PICK k : k = At(a)
    OBVIOUS
  <1>2. /\ TypeOK /\ k \in 1..Len(events) /\ events[k] \in Event
        /\ Told(events[k].count, events[k]) /\ actor[a].pc = "dispatched"
    <2>1. TypeOK /\ actor[a].seen # Nothing /\ actor[a].pc = "dispatched"
      BY DEF IInv, StepsFit, MarkProcessed
    <2> QED
      BY <1>1, <2>1, AtFits, Domains DEF IInv, Counted
  <1>3. PICK x : x = [events[k] EXCEPT !.status = "processed"]
    OBVIOUS
  <1>4. /\ x \in Event /\ x.hint = events[k].hint /\ x.failed = events[k].failed
        /\ x.count = events[k].count
    BY <1>2, <1>3 DEF Event
  <1>5. events' = [events EXCEPT ![k] = x]
    BY <1>1, <1>2, <1>3, Typed DEF MarkProcessed
  <1>6. events[k].failed <= x.failed /\ Told(x.count, x)
    BY <1>2, <1>4, OutboxAssumption DEF Event, Told
  <1>7. Return(a, k) /\ UNCHANGED <<status, rows, diskErrors, faults>>
    BY <1>1 DEF MarkProcessed
  <1>8. rejecting' \in BOOLEAN /\ (rejecting' => rejecting)
    BY <1>2 DEF MarkProcessed, TypeOK
  <1> QED
    BY <1>2, <1>4, <1>5, <1>6, <1>7, <1>8, ReturnKeeps

LEMMA FailEventKeeps == ASSUME IInv, NEW a \in Actors, FailEvent(a) PROVE IInv'
  <1>1. PICK k : k = At(a)
    OBVIOUS
  <1>2. /\ TypeOK /\ k \in 1..Len(events) /\ events[k] \in Event
        /\ k \in DOMAIN actor[a].seen /\ actor[a].seen[k] \in Event
        /\ Told(actor[a].seen[k].count, events[k]) /\ actor[a].pc = "dispatched"
    <2>1. TypeOK /\ actor[a].seen # Nothing /\ actor[a].pc = "dispatched"
      BY DEF IInv, StepsFit, FailEvent
    <2> QED
      BY <1>1, <2>1, AtFits, Domains DEF IInv, Counted
  <1>3. PICK c : c = actor[a].seen[k].count + 1
    OBVIOUS
  <1>4. PICK f : f = IF events[k].failed < MaxAttempts THEN events[k].failed + 1
                                                      ELSE events[k].failed
    OBVIOUS
  <1>5. /\ c \in Nat /\ f \in 0..MaxAttempts /\ events[k].failed <= f
        /\ c <= f \/ f = MaxAttempts
    <2>1. /\ actor[a].seen[k].count \in Nat /\ events[k].failed \in 0..MaxAttempts
          /\ MaxAttempts \in Nat
      BY <1>2, OutboxAssumption DEF Event
    <2> QED
      BY <1>2, <1>3, <1>4, <2>1, SMTT(30) DEF Told
  <1>6. PICK x : x = [events[k] EXCEPT !.status = "failed", !.count = c, !.failed = f]
    OBVIOUS
  <1>7. x \in Event /\ x.hint = events[k].hint /\ x.failed = f /\ x.count = c
    BY <1>2, <1>5, <1>6 DEF Event
  <1>8. events' = [events EXCEPT ![k] = x]
    BY <1>1, <1>2, <1>3, <1>4, <1>6, Typed DEF FailEvent
  <1>9. Told(x.count, x) /\ events[k].failed <= x.failed
    BY <1>5, <1>7 DEF Told
  <1>10. Return(a, k) /\ UNCHANGED <<status, rows, diskErrors, faults>>
    BY <1>1 DEF FailEvent
  <1>11. rejecting' = (rejecting \/ c >= MaxAttempts)
    BY <1>1, <1>3 DEF FailEvent
  <1>12. c >= MaxAttempts => f = MaxAttempts
    BY <1>5, OutboxAssumption
  <1>13. rejecting' \in BOOLEAN /\ (rejecting' => rejecting \/ x.failed = MaxAttempts)
    BY <1>7, <1>11, <1>12
  <1> QED
    BY <1>2, <1>7, <1>8, <1>9, <1>10, <1>13, ReturnKeeps

-----------------------------------------------------------------------------
(* The rejection, and restarts                                             *)

LEMMA RejectTransactionKeeps == ASSUME IInv, RejectTransaction PROVE IInv'
  <1>1. UNCHANGED <<rows, events, actor, job, diskErrors>> /\ rejecting
    BY DEF RejectTransaction
  <1>2. rejecting' = FALSE
    BY DEF RejectTransaction
  <1>3. status' = "rejected" \/ status' = status
    BY DEF RejectTransaction
  <1>4. faults' \in 0..MaxFaults
    <2>1. faults \in 0..MaxFaults /\ MaxFaults \in Nat
      BY OutboxAssumption DEF IInv, TypeOK
    <2>2. faults' = faults \/ (faults < MaxFaults /\ faults' = faults + 1)
      BY DEF RejectTransaction
    <2> QED
      BY <2>1, <2>2
  <1>5. rejecting' \in BOOLEAN
    BY <1>2
  <1>6. TypeOK'
    BY <1>1, <1>3, <1>4, <1>5 DEF IInv, TypeOK
  <1>7. StepsFit' /\ Counted' /\ Enqueued' /\ (actor \in [Actors -> Local])'
    BY <1>1 DEF IInv, StepsFit, Counted, Enqueued, Passed
  <1>8. RejectedWhenExhausted'
    BY <1>1 DEF IInv, RejectedWhenExhausted
  <1>9. Documents'
    BY <1>1, <1>3 DEF IInv, Documents, Filled
  <1> QED
    BY <1>6, <1>7, <1>8, <1>9 DEF IInv

LEMMA CrashKeeps == ASSUME IInv, Crash PROVE IInv'
  <1>1. /\ UNCHANGED <<status, rows, events, diskErrors>> /\ rejecting' = FALSE
        /\ faults' = faults + 1 /\ faults < MaxFaults
        /\ TypeOK /\ actor \in [Actors -> Local] /\ Len(rows) \in Nat
    BY Typed DEF Crash
  <1>2. job' \in [Jobs -> Job] /\ \A j \in Jobs : job'[j].row = 0 /\ job'[j].pc = "off"
    BY DEF Crash, NoJob, Job
  <1>3. Nothing \in UNION {[S -> Event] : S \in SUBSET Nat} /\ DOMAIN Nothing = {}
    <2>1. Nothing \in [{} -> Event] /\ DOMAIN Nothing = {}
      BY DEF Nothing
    <2> QED
      BY <2>1
  <1>4. \A a \in Actors :
          \/ actor'[a] = actor[a] /\ actor[a].pc \in {"idle", "done"}
          \/ /\ actor'[a] \in Local /\ actor'[a].hint = 0 /\ actor'[a].seen = Nothing
             /\ actor'[a].pc \in {"idle", "blocked"}
             /\ a \in Requests => actor'[a].pc = "blocked"
    <2> TAKE a \in Actors
    <2>1. CASE a \in Requests /\ actor[a].pc \notin {"idle", "done"}
      <3>1. actor'[a] = [Resting(a) EXCEPT !.pc = "blocked"] /\ a # Worker
        BY <2>1, OutboxAssumption DEF Crash
      <3>2. actor'[a] = [pc |-> "blocked", hint |-> 0, seen |-> Nothing, round |-> "flush"]
        BY <3>1 DEF Resting
      <3>3. actor'[a] \in Local
        <4>1. [pc |-> "blocked", hint |-> 0, seen |-> Nothing, round |-> "flush"] \in Local
          BY <1>3 DEF Local, ActorSteps
        <4> QED
          BY <3>2, <4>1
      <3> QED
        BY <3>2, <3>3
    <2>2. CASE a = Worker
      <3>1. actor'[a] = Resting(a) /\ a \notin Requests
        BY <2>2, OutboxAssumption DEF Crash
      <3>2. /\ Resting(a) = [pc |-> "idle", hint |-> 0, seen |-> Nothing, round |-> "retry"]
            /\ Resting(a).pc = "idle" /\ Resting(a).hint = 0 /\ Resting(a).seen = Nothing
        BY <2>2 DEF Resting
      <3>3. Resting(a) \in Local
        BY <1>3, <3>2 DEF Local, ActorSteps
      <3>4. /\ actor'[a] \in Local /\ actor'[a].hint = 0 /\ actor'[a].seen = Nothing
            /\ actor'[a].pc \in {"idle", "blocked"}
        BY <3>1, <3>2, <3>3
      <3> QED
        BY <3>1, <3>4
    <2>3. CASE a \in Requests /\ actor[a].pc \in {"idle", "done"}
      <3>1. a # Worker
        BY <2>3, OutboxAssumption
      <3> QED
        BY <2>3, <3>1 DEF Crash
    <2> QED
      BY <2>1, <2>2, <2>3 DEF Actors
  <1>5. actor' \in [Actors -> Local]
    <2>1. \A a \in Actors : actor'[a] \in Local
      BY <1>1, <1>4
    <2> QED
      BY <2>1 DEF Crash
  <1>6. TypeOK'
    <2>1. \A a \in Actors :
             /\ actor'[a].pc \in ActorSteps
             /\ actor'[a].hint \in 0..Len(rows)
             /\ actor'[a].round \in {"retry", "pending", "flush"}
             /\ DOMAIN actor'[a].seen \subseteq DOMAIN events
             /\ \A n \in DOMAIN actor'[a].seen :
                  actor'[a].seen[n] \in Event /\ actor'[a].seen[n].hint <= Len(rows)
      <3> TAKE a \in Actors
      <3>1. CASE actor'[a] = actor[a]
        BY <1>1, <3>1 DEF TypeOK
      <3>2. CASE actor'[a].hint = 0 /\ actor'[a].seen = Nothing
        <4>1. actor'[a].pc \in ActorSteps /\ actor'[a].round \in {"retry", "pending", "flush"}
          BY <1>5 DEF Local
        <4> QED
          BY <1>1, <1>3, <3>2, <4>1
      <3> QED
        BY <1>4, <3>1, <3>2
    <2>2. \A j \in Jobs : job'[j].row <= Len(rows)
      BY <1>1, <1>2
    <2>3. faults' \in 0..MaxFaults
      <3>1. faults \in 0..MaxFaults /\ MaxFaults \in Nat
        BY <1>1, OutboxAssumption DEF TypeOK
      <3> QED
        BY <1>1, <3>1
    <2>4. rejecting' \in BOOLEAN
      BY <1>1
    <2> QED
      BY <1>1, <1>2, <2>1, <2>2, <2>3, <2>4 DEF TypeOK
  <1>7. StepsFit'
    BY <1>2, <1>4 DEF StepsFit
  <1>8. Counted'
    BY <1>1, <1>3, <1>4 DEF IInv, Counted
  <1>9. RejectedWhenExhausted'
    BY <1>1 DEF IInv, RejectedWhenExhausted
  <1>10. Enqueued'
    <2>1. Passed \subseteq Passed' /\ Passed' \in SUBSET Requests
      BY <1>4 DEF Passed, BeforeEvent, Actors
    <2>2. IsFiniteSet(Passed') /\ IsFiniteSet(Passed)
      BY <2>1, OutboxAssumption, FS_Subset
    <2>3. /\ Cardinality(Passed) <= Cardinality(Passed')
          /\ Cardinality(Passed) \in Nat /\ Cardinality(Passed') \in Nat /\ Len(events) \in Nat
      BY <2>1, <2>2, FS_Subset, FS_CardinalityType, Typed
    <2> QED
      BY <1>1, <2>3 DEF IInv, Enqueued
  <1>11. Documents'
    BY <1>1, <1>4 DEF IInv, Documents, Filled
  <1> QED
    BY <1>5, <1>6, <1>7, <1>8, <1>9, <1>10, <1>11 DEF IInv

-----------------------------------------------------------------------------
(* The theorems                                                            *)

LEMMA StepKeeps == ASSUME IInv, [Next]_vars PROVE IInv'
  <1>1. ASSUME NEW j \in Jobs, JobStep(j) PROVE IInv'
    BY <1>1, FindKeeps, FillFailsKeeps, CreateKeeps, SaveDocumentKeeps, SaveFailsKeeps
       DEF JobStep
  <1>2. ASSUME NEW a \in Actors, Deliver(a) PROVE IInv'
    BY <1>2, DispatchKeeps, MarkProcessedKeeps, FailEventKeeps DEF Deliver
  <1>3. ASSUME NEW r \in Requests, RequestStep(r) PROVE IInv'
    BY <1>3, AttemptEndsKeeps, TimesOutKeeps, EnqueueKeeps, FlushKeeps, AssessKeeps,
       CompleteKeeps DEF RequestStep
  <1>4. ASSUME NEW r \in Requests, Begin(r) \/ Resume(r) PROVE IInv'
    BY <1>4, BeginKeeps, ResumeKeeps
  <1>5. CASE UNCHANGED vars
    BY <1>5 DEF IInv, TypeOK, StepsFit, Counted, RejectedWhenExhausted, Enqueued, Passed,
       Documents, Filled, vars
  <1> QED
    BY <1>1, <1>2, <1>3, <1>4, <1>5, PollKeeps, RejectTransactionKeeps, CrashKeeps DEF Next

LEMMA Inductive == Spec => []IInv
  BY InitiallyFine, StepKeeps, PTL DEF Spec

(* The rows that jobs, events and requests refer to exist, and a request   *)
(* leaves one event at most.                                               *)
THEOREM TypeCorrect == Spec => []TypeOK
  <1>1. IInv => TypeOK
    BY DEF IInv
  <1> QED
    BY <1>1, Inductive, PTL

(* handleGeneratePdfFailure: a transaction is rejected only when an event  *)
(* has failed the configured number of times, however deliveries overlap   *)
(* and write its count back.                                               *)
THEOREM RejectsWhenExhausted == Spec => []RejectedWhenExhausted
  <1>1. IInv => RejectedWhenExhausted
    BY DEF IInv
  <1> QED
    BY <1>1, Inductive, PTL

(* assertReadyForWorkflowCompletion: a completed transaction has its       *)
(* document, as long as what was filled in could be saved.                 *)
THEOREM CompletedWithDocument == Spec => []CompletedHasDocument
  <1>1. IInv => CompletedHasDocument
    <2> SUFFICES ASSUME IInv, diskErrors = 0, status = "completed" PROVE HasDocument
      BY DEF CompletedHasDocument
    <2>1. /\ Filled /\ DOMAIN rows = 1..Len(rows)
          /\ \A n \in 1..Len(rows) : rows[n] # "gone"
      BY Domains DEF IInv, Documents
    <2> QED
      BY <2>1 DEF HasDocument, Filled, Live
  <1> QED
    BY <1>1, Inductive, PTL
=============================================================================
