--------------------------- MODULE SubmissionProofs ---------------------------
(***************************************************************************)
(* A transaction submitted with one key runs in Camunda at most once and   *)
(* an answer of success holds, for any requests, keys, restarts and        *)
(* failures.                                                               *)
(*                                                                         *)
(* The argument: under one key the guard lets one request at a time to the *)
(* transaction.  A process that runs belongs to that request, or the       *)
(* request has succeeded and the guard replays its answer, or the server   *)
(* was restarted and nobody looks for a transaction that is no draft.      *)
(***************************************************************************)
EXTENDS Submission, FiniteSetTheorems, SequenceTheorems, TLAPS

(* The steps taken under the guard.                                        *)
Guarded == {"check", "store", "start", "record", "auto", "progress", "rollback",
            "read", "reopen", "release"}

Holding(r) == request[r].pc \in Guarded

(* The steps of a request that answers for a process in Camunda.           *)
Owning == {"record", "auto", "progress", "rollback"}

RequestInv(r) ==
    /\ request[r].row = 0 <=> request[r].pc \in {"idle", "find", "create"}
    /\ Holding(r) => GuardKey(r) \in guard.inFlight
    /\ Holding(r) \/ request[r].pc = "answered" => GuardKey(r) \in usedKeys[request[r].row]
    /\ request[r].pc = "start" => request[r].row \in sealed
    /\ request[r].pc \in Owning \ {"rollback"} => request[r].inst # 0
    /\ request[r].pc = "answered" => request[r].ok /\ GuardKey(r) \in guard.replay
    /\ request[r].ok => request[r].pc \in {"release", "answered"}

(* A key that is in flight has one holder. *)
Exclusive ==
    \A p, q \in Requests : Holding(p) /\ Holding(q) /\ GuardKey(p) = GuardKey(q) => p = q

(* Whoever still comes to transaction t is refused by the guard. *)
Refused(t) ==
    \/ usedKeys[t] \subseteq guard.replay
    \/ \E p \in Requests : request[p].row = t /\ Holding(p)

(* Where a request q can be for whose transaction process n runs. *)
At(q, n) ==
    \/ request[q].pc = "guard" /\ Refused(processes[n].row)
    \/ request[q].pc \in Owning /\ request[q].inst = n
    \/ request[q].pc \in {"release", "answered"} /\ request[q].ok

ProcessInv(n) ==
    /\ usedKeys[processes[n].row] # {}
    /\ processes[n].alive = "yes" /\ OneKey(processes[n].row) =>
         /\ status[processes[n].row] # "draft"
         /\ \A q \in Requests : request[q].row = processes[n].row => At(q, n)

(* A success that is or will be answered, and that nobody can undo. *)
AnswerInv(r) ==
    request[r].ok /\ OneKey(request[r].row) =>
        /\ status[request[r].row] \notin {"draft", "submitted"}
        /\ \A q \in Requests : q # r /\ request[q].row = request[r].row => ~Holding(q)

HandlersFit == \A h \in handlers : h.row <= Len(status) /\ h.inst <= Len(processes)

IInv ==
    /\ TypeOK
    /\ HandlersFit
    /\ \A r \in Requests : RequestInv(r) /\ AnswerInv(r)
    /\ \A n \in DOMAIN processes : ProcessInv(n)
    /\ Exclusive
    /\ RunsOnce

-----------------------------------------------------------------------------
(* Sequences and keys                                                      *)

LEMMA Domains ==
    ASSUME TypeOK
    PROVE  /\ Len(status) \in Nat /\ DOMAIN status = 1..Len(status)
           /\ \A t \in 1..Len(status) : status[t] \in Statuses /\ t \in 1..MaxRows
           /\ Len(processes) \in Nat /\ DOMAIN processes = 1..Len(processes)
           /\ \A n \in 1..Len(processes) :
                /\ processes[n] \in Process /\ n \in 1..MaxStarts
                /\ processes[n].row \in sealed /\ processes[n].row \in 1..Len(status)
           /\ MaxRows \in Nat /\ MaxStarts \in Nat /\ MaxFaults \in Nat
  <1>1. MaxRows \in Nat /\ MaxStarts \in Nat /\ MaxFaults \in Nat
    BY SubmissionAssumption
  <1>2. /\ Len(status) \in Nat /\ DOMAIN status = 1..Len(status)
        /\ \A t \in 1..Len(status) : status[t] \in Statuses
    BY LenProperties, ElementOfSeq DEF TypeOK
  <1>3. /\ Len(processes) \in Nat /\ DOMAIN processes = 1..Len(processes)
        /\ \A n \in 1..Len(processes) : processes[n] \in Process
    BY LenProperties, ElementOfSeq DEF TypeOK
  <1>4. \A t \in 1..Len(status) : t \in 1..MaxRows
    BY <1>1, <1>2 DEF TypeOK
  <1>5. \A n \in 1..Len(processes) : n \in 1..MaxStarts
    BY <1>1, <1>3 DEF TypeOK
  <1>6. \A n \in 1..Len(processes) : processes[n].row \in sealed /\ processes[n].row \in 1..Len(status)
    BY <1>2, <1>3 DEF TypeOK, Rows
  <1> QED
    BY <1>1, <1>2, <1>3, <1>4, <1>5, <1>6

(* One element of a sequence is written. *)
LEMMA WriteOne ==
    ASSUME NEW S, NEW s \in Seq(S), NEW i \in 1..Len(s), NEW x \in S
    PROVE  /\ [s EXCEPT ![i] = x] \in Seq(S)
           /\ Len([s EXCEPT ![i] = x]) = Len(s)
           /\ \A j \in 1..Len(s) : [s EXCEPT ![i] = x][j] = IF j = i THEN x ELSE s[j]
  BY ExceptSeq

LEMMA RequestTyped ==
    ASSUME TypeOK, NEW r \in Requests
    PROVE  /\ request[r] \in Local
           /\ request[r].row \in 0..Len(status) /\ request[r].inst \in 0..Len(processes)
           /\ request[r].row \in 0..MaxRows
  <1>1. request[r] \in Local /\ request[r].row <= Len(status) /\ request[r].inst <= Len(processes)
    BY DEF TypeOK
  <1> QED
    BY <1>1, Domains DEF Local

(* Who holds a key holds a transaction. *)
LEMMA HolderHasRow ==
    ASSUME TypeOK, NEW r \in Requests, RequestInv(r),
           request[r].pc \notin {"idle", "find", "create"}
    PROVE  /\ request[r].row \in 1..Len(status) /\ request[r].row \in 1..MaxRows
           /\ GuardKey(r) \in GuardKeys
  <1>1. request[r].row \in 1..Len(status) /\ request[r].row \in 1..MaxRows
    BY RequestTyped, Domains DEF RequestInv
  <1> QED
    BY <1>1, RequestTyped DEF GuardKey, GuardKeys, Local

LEMMA KeysFinite == IsFiniteSet(GuardKeys)
  <1>1. IsFiniteSet(1..MaxRows)
    BY SubmissionAssumption, FS_Interval
  <1> QED
    BY <1>1, SubmissionAssumption, FS_Union DEF GuardKeys

LEMMA AtMostOne ==
    ASSUME NEW S \in SUBSET GuardKeys, Cardinality(S) <= 1, NEW a \in S, NEW b \in S
    PROVE  a = b
  <1>1. IsFiniteSet(S)
    BY KeysFinite, FS_Subset
  <1>2. SUFFICES ASSUME a # b PROVE FALSE
    OBVIOUS
  <1>3. IsFiniteSet({a}) /\ Cardinality({a}) = 1
    BY FS_Singleton
  <1>4. {a} \subseteq S /\ {a} # S
    BY <1>2
  <1>5. Cardinality({a}) < Cardinality(S)
    BY <1>1, <1>3, <1>4, FS_Subset, FS_CardinalityType
  <1> QED
    BY <1>1, <1>3, <1>5, FS_CardinalityType

(* With one key at most, two keys of a transaction are the same. *)
LEMMA KeysAgree ==
    ASSUME TypeOK, NEW t \in 1..MaxRows, OneKey(t),
           NEW a \in usedKeys[t], NEW b \in usedKeys[t]
    PROVE  a = b
  <1>1. usedKeys[t] \in SUBSET GuardKeys
    BY DEF TypeOK
  <1> QED
    BY <1>1, AtMostOne DEF OneKey

(* Keys are only added. *)
LEMMA OneKeyBefore ==
    ASSUME TypeOK, TypeOK', NEW t \in 1..MaxRows, OneKey(t)', usedKeys[t] \subseteq usedKeys'[t]
    PROVE  OneKey(t)
  <1>1. IsFiniteSet(usedKeys'[t])
    BY KeysFinite, FS_Subset DEF TypeOK
  <1>2. /\ Cardinality(usedKeys[t]) <= Cardinality(usedKeys'[t])
        /\ Cardinality(usedKeys[t]) \in Nat /\ Cardinality(usedKeys'[t]) \in Nat
    BY <1>1, FS_Subset, FS_CardinalityType
  <1> QED
    BY <1>2 DEF OneKey

(* A transaction with one key has one holder. *)
LEMMA OneHolder ==
    ASSUME IInv, NEW p \in Requests, NEW q \in Requests, Holding(p), Holding(q),
           request[p].row = request[q].row, OneKey(request[p].row)
    PROVE  p = q
  <1>1. TypeOK /\ RequestInv(p) /\ RequestInv(q) /\ Exclusive
    BY DEF IInv
  <1>2. request[p].row \in 1..MaxRows
    BY <1>1, HolderHasRow DEF Holding, Guarded
  <1>3. GuardKey(p) = GuardKey(q)
    BY <1>1, <1>2, KeysAgree DEF RequestInv
  <1> QED
    BY <1>1, <1>3 DEF Exclusive
-----------------------------------------------------------------------------
(* A request that goes on under the guard, and what it may change          *)

StatusOf(t) ==
    /\ status' \in Seq(Statuses) /\ Len(status') = Len(status)
    /\ \A u \in 1..Len(status) : u # t => status'[u] = status[u]

(* A process changes but does not come back; only a start adds one.        *)
ProcessesOf(r, n) ==
    /\ processes' \in Seq(Process)
    /\ Len(processes') \in Nat /\ Len(processes) <= Len(processes')
    /\ Len(processes') <= MaxStarts
    /\ \A m \in 1..Len(processes) :
         /\ processes'[m].row = processes[m].row
         /\ processes'[m].alive = "yes" => processes[m].alive = "yes"
    /\ \A m \in 1..Len(processes') :
         m \in 1..Len(processes) \/ /\ processes'[m].row = request[r].row
                                    /\ request[r].pc = "start"
                                    /\ \/ m = n.inst /\ n.pc = "record"
                                       \/ processes'[m].alive # "yes"

(* The request's own processes are those it holds, unless it has succeeded. *)
Owns(r, n) ==
    \A m \in 1..Len(processes') :
        processes'[m].alive = "yes" /\ processes'[m].row = request[r].row
        /\ OneKey(request[r].row) =>
            /\ status'[request[r].row] # "draft"
            /\ \/ n.pc \in Owning /\ n.inst = m
               \/ n.pc = "release" /\ n.ok

GoesOn(r, n) ==
    /\ n \in Local /\ request' = [request EXCEPT ![r] = n]
    /\ Holding(r) /\ n.pc \in Guarded
    /\ n.row = request[r].row /\ n.key = request[r].key
    /\ n.inst <= Len(processes')
    /\ n.pc \in Owning \ {"rollback"} => n.inst # 0
    /\ n.ok => n.pc = "release" /\ status'[n.row] \notin {"draft", "submitted"}
    /\ n.pc = "start" => n.row \in sealed'
    /\ UNCHANGED <<guard, usedKeys>>
    /\ faults' \in 0..MaxFaults /\ stranded' \subseteq 1..MaxRows
    /\ StatusOf(request[r].row)
    /\ sealed \subseteq sealed' /\ sealed' \subseteq sealed \cup {request[r].row}
    /\ ProcessesOf(r, n)
    /\ handlers' \subseteq Handler
    /\ \A h \in handlers' : h.row <= Len(status') /\ h.inst <= Len(processes')
    /\ Owns(r, n)

LEMMA GoesOnTyped ==
    ASSUME IInv, NEW r \in Requests, NEW n, GoesOn(r, n)
    PROVE  /\ TypeOK' /\ HandlersFit'
           /\ request'[r] = n
           /\ \A q \in Requests : q # r => request'[q] = request[q]
           /\ DOMAIN processes' = 1..Len(processes')
  <1>1. TypeOK /\ RequestInv(r) /\ request[r].row \in 1..Len(status)
        /\ request[r].row \in 1..MaxRows
    BY HolderHasRow DEF IInv, GoesOn, Holding, Guarded
  <1>2. /\ request'[r] = n /\ request' \in [Requests -> Local]
        /\ \A q \in Requests : q # r => request'[q] = request[q]
    BY <1>1 DEF GoesOn, TypeOK
  <1>3. DOMAIN processes' = 1..Len(processes') /\ DOMAIN status' = 1..Len(status)
    BY LenProperties DEF GoesOn, ProcessesOf, StatusOf
  <1>4. sealed' \subseteq Rows'
    BY <1>1, <1>3, Domains DEF GoesOn, Rows, TypeOK
  <1>5. \A m \in DOMAIN processes' : processes'[m].row \in sealed'
    <2> SUFFICES ASSUME NEW m \in 1..Len(processes') PROVE processes'[m].row \in sealed'
      BY <1>3
    <2>1. CASE m \in 1..Len(processes)
      BY <1>1, <2>1, Domains DEF GoesOn, ProcessesOf
    <2>2. CASE m \notin 1..Len(processes)
      BY <1>1, <2>2 DEF GoesOn, ProcessesOf, IInv, RequestInv
    <2> QED
      BY <2>1, <2>2
  <1>6. \A q \in Requests : /\ request'[q].row <= Len(status')
                            /\ request'[q].inst <= Len(processes')
    <2> TAKE q \in Requests
    <2>1. CASE q = r
      BY <1>1, <1>2, <2>1 DEF GoesOn, StatusOf, TypeOK
    <2>2. CASE q # r
      <3>1. request[q].inst \in 0..Len(processes) /\ request[q].row <= Len(status)
        BY <1>1, RequestTyped DEF TypeOK
      <3> QED
        BY <1>1, <1>2, <2>2, <3>1, Domains DEF GoesOn, StatusOf, ProcessesOf
    <2> QED
      BY <2>1, <2>2
  <1>7. TypeOK'
    BY <1>1, <1>2, <1>4, <1>5, <1>6 DEF GoesOn, StatusOf, ProcessesOf, TypeOK
  <1> QED
    BY <1>2, <1>3, <1>7 DEF GoesOn, HandlersFit

LEMMA GoesOnKeeps ==
    ASSUME IInv, NEW r \in Requests, NEW n, GoesOn(r, n) PROVE IInv'
  <1>1. /\ TypeOK /\ RequestInv(r) /\ request[r].row \in 1..Len(status)
        /\ request[r].row \in 1..MaxRows /\ Exclusive /\ RunsOnce
    BY HolderHasRow DEF IInv, GoesOn, Holding, Guarded
  <1>2. /\ TypeOK' /\ HandlersFit' /\ request'[r] = n
        /\ \A q \in Requests : q # r => request'[q] = request[q]
        /\ DOMAIN processes' = 1..Len(processes')
    BY GoesOnTyped
  <1>3. guard' = guard /\ usedKeys' = usedKeys /\ Holding(r) /\ sealed \subseteq sealed'
    BY DEF GoesOn
  <1>4. \A q \in Requests : /\ Holding(q)' <=> Holding(q)
                            /\ GuardKey(q)' = GuardKey(q)
                            /\ request'[q].row = request[q].row
    BY <1>2, <1>3 DEF GoesOn, Holding, GuardKey
  <1>5. /\ \A q : OneKey(request[q].row)' <=> OneKey(request'[q].row)
        /\ \A m : OneKey(processes[m].row)' <=> OneKey(processes'[m].row)
    BY <1>3 DEF OneKey
  <1>6. \A t : Refused(t)' <=> Refused(t)
    BY <1>3, <1>4 DEF Refused
  <1>7. Exclusive'
    BY <1>1, <1>4 DEF Exclusive
  <1>8. \A q \in Requests : RequestInv(q)'
    <2> TAKE q \in Requests
    <2>1. RequestInv(q)
      BY DEF IInv
    <2>2. CASE q = r
      <3>1. n.row # 0 /\ n.pc \in Guarded
        BY <1>1 DEF GoesOn
      <3>2. GuardKey(r) \in guard.inFlight /\ GuardKey(r) \in usedKeys[request[r].row]
        BY <1>1, <1>3 DEF RequestInv
      <3> QED
        BY <1>2, <1>3, <1>4, <2>2, <3>1, <3>2 DEF GoesOn, RequestInv, Guarded
    <2>3. CASE q # r
      BY <1>2, <1>3, <1>4, <2>1, <2>3 DEF RequestInv
    <2> QED
      BY <2>2, <2>3
  <1>9. \A q \in Requests : AnswerInv(q)'
    <2> SUFFICES ASSUME NEW q \in Requests, request'[q].ok, OneKey(request'[q].row)
                 PROVE  /\ status'[request'[q].row] \notin {"draft", "submitted"}
                        /\ \A p \in Requests : p # q /\ request'[p].row = request'[q].row
                                                => ~Holding(p)'
      BY <1>5 DEF AnswerInv
    <2>1. CASE q = r
      <3>1. OneKey(request[r].row)
        BY <1>4, <1>5, <2>1
      <3>2. \A p \in Requests : p # r /\ request[p].row = request[r].row => ~Holding(p)
        BY <1>3, <3>1, OneHolder
      <3> QED
        BY <1>2, <1>4, <2>1, <3>2 DEF GoesOn
    <2>2. CASE q # r
      <3>1. /\ request[q].ok /\ OneKey(request[q].row) /\ AnswerInv(q) /\ RequestInv(q)
        BY <1>2, <1>4, <1>5, <2>2 DEF IInv
      <3>2. request[q].row # request[r].row
        BY <1>3, <2>2, <3>1 DEF AnswerInv
      <3>3. request[q].row \in 1..Len(status)
        BY <1>1, <3>1, HolderHasRow DEF RequestInv
      <3>4. status'[request[q].row] = status[request[q].row]
        BY <3>2, <3>3 DEF GoesOn, StatusOf
      <3> QED
        BY <1>4, <3>1, <3>4 DEF AnswerInv
    <2> QED
      BY <2>1, <2>2
  <1>10. \A m \in 1..Len(processes) :
            /\ ProcessInv(m) /\ processes[m].row \in 1..Len(status)
            /\ processes'[m].row = processes[m].row
            /\ processes'[m].alive = "yes" => processes[m].alive = "yes"
    BY <1>1, Domains DEF IInv, GoesOn, ProcessesOf
  <1>11. \A m \in 1..Len(processes') : ProcessInv(m)'
    <2> TAKE m \in 1..Len(processes')
    <2>1. usedKeys'[processes'[m].row] # {}
      <3>1. CASE m \in 1..Len(processes)
        BY <1>3, <1>10, <3>1 DEF ProcessInv
      <3>2. CASE m \notin 1..Len(processes)
        BY <1>1, <1>3, <3>2 DEF GoesOn, ProcessesOf, RequestInv
      <3> QED
        BY <3>1, <3>2
    <2>2. ASSUME processes'[m].alive = "yes", OneKey(processes'[m].row),
                 processes'[m].row = request[r].row
          PROVE  /\ status'[processes'[m].row] # "draft"
                 /\ \A q \in Requests : request'[q].row = processes'[m].row => At(q, m)'
      <3>1. OneKey(request[r].row)
        BY <1>5, <2>2
      <3>2. /\ status'[request[r].row] # "draft"
            /\ \/ n.pc \in Owning /\ n.inst = m
               \/ n.pc = "release" /\ n.ok
        BY <2>2, <3>1 DEF GoesOn, Owns
      <3>3. At(r, m)'
        BY <1>2, <3>2 DEF At
      <3>4. \E p \in Requests : request'[p].row = processes'[m].row /\ Holding(p)'
        BY <1>3, <1>4, <2>2
      <3>5. ASSUME NEW q \in Requests, q # r, request'[q].row = processes'[m].row
            PROVE  At(q, m)'
        <4>1. request[q].row = request[r].row /\ ~Holding(q) /\ RequestInv(q)
              /\ request[q] \in Local
          BY <1>1, <1>3, <1>4, <2>2, <3>1, <3>5, OneHolder, RequestTyped DEF IInv
        <4>2. request[q].pc \in {"guard", "answered"}
          BY <1>1, <4>1 DEF RequestInv, Holding, Guarded, Local, Steps
        <4> QED
          BY <1>2, <3>4, <3>5, <4>1, <4>2 DEF At, Refused, RequestInv
      <3> QED
        BY <2>2, <3>2, <3>3, <3>5
    <2>3. ASSUME processes'[m].alive = "yes", OneKey(processes'[m].row),
                 processes'[m].row # request[r].row
          PROVE  /\ status'[processes'[m].row] # "draft"
                 /\ \A q \in Requests : request'[q].row = processes'[m].row => At(q, m)'
      <3>1. m \in 1..Len(processes)
        BY <2>3 DEF GoesOn, ProcessesOf
      <3>2. OneKey(processes[m].row) /\ processes[m].alive = "yes"
        BY <1>5, <1>10, <2>3, <3>1
      <3>3. status'[processes'[m].row] # "draft"
        BY <1>10, <2>3, <3>1, <3>2 DEF ProcessInv, GoesOn, StatusOf
      <3>4. ASSUME NEW q \in Requests, request'[q].row = processes'[m].row PROVE At(q, m)'
        <4>1. q # r /\ request'[q] = request[q] /\ At(q, m)
          BY <1>2, <1>4, <1>10, <2>3, <3>1, <3>2, <3>4 DEF ProcessInv
        <4> QED
          BY <1>6, <1>10, <3>1, <4>1 DEF At
      <3> QED
        BY <3>3, <3>4
    <2> QED
      BY <1>5, <2>1, <2>2, <2>3 DEF ProcessInv
  <1>12. RunsOnce'
    <2> SUFFICES ASSUME NEW m \in 1..Len(processes'), NEW k \in 1..Len(processes'),
                        processes'[m].alive = "yes", processes'[k].alive = "yes",
                        processes'[m].row = processes'[k].row, OneKey(processes'[m].row)
                 PROVE  m = k
      BY <1>2, <1>5 DEF RunsOnce
    <2>1. OneKey(processes'[m].row)
      OBVIOUS
    <2>2. CASE processes'[m].row = request[r].row
      <3>1. \/ n.pc \in Owning /\ n.inst = m /\ n.inst = k
            \/ n.pc = "release" /\ n.ok
        BY <2>1, <2>2 DEF GoesOn, Owns, Owning
      <3>2. CASE n.pc = "release"
        <4>1. m \in 1..Len(processes) /\ k \in 1..Len(processes)
          BY <3>2 DEF GoesOn, ProcessesOf
        <4> QED
          BY <1>1, <1>10, <2>1, <4>1, Domains DEF RunsOnce
      <3> QED
        BY <3>1, <3>2
    <2>3. CASE processes'[m].row # request[r].row
      <3>1. m \in 1..Len(processes) /\ k \in 1..Len(processes)
        BY <2>3 DEF GoesOn, ProcessesOf
      <3> QED
        BY <1>1, <1>10, <2>1, <3>1, Domains DEF RunsOnce
    <2> QED
      BY <2>2, <2>3
  <1> QED
    BY <1>2, <1>7, <1>8, <1>9, <1>11, <1>12 DEF IInv
-----------------------------------------------------------------------------
(* A request on its way to the guard                                       *)

Arrives(r, n) ==
    /\ n \in Local /\ request' = [request EXCEPT ![r] = n]
    /\ ~Holding(r) /\ n.pc \in {"idle", "find", "create", "guard"}
    /\ n.row = 0 <=> n.pc # "guard"
    /\ n.row <= Len(status')
    /\ n.inst <= Len(processes) /\ ~n.ok
    /\ n.pc = "guard" => status'[n.row] = "draft"
    /\ \/ status' = status
       \/ status' = Append(status, "draft") /\ Len(status) < MaxRows
    /\ UNCHANGED <<sealed, processes, guard, handlers, usedKeys, stranded, faults>>

LEMMA ArrivesTyped ==
    ASSUME IInv, NEW r \in Requests, NEW n, Arrives(r, n)
    PROVE  /\ TypeOK' /\ HandlersFit' /\ request'[r] = n
           /\ \A q \in Requests : q # r => request'[q] = request[q]
           /\ \A t \in 1..Len(status) : status'[t] = status[t]
  <1>1. TypeOK
    BY DEF IInv
  <1>2. /\ request'[r] = n /\ request' \in [Requests -> Local]
        /\ \A q \in Requests : q # r => request'[q] = request[q]
    BY <1>1 DEF Arrives, TypeOK
  <1>3. /\ status' \in Seq(Statuses) /\ Len(status') <= MaxRows /\ Len(status) <= Len(status')
        /\ Len(status') \in Nat
        /\ \A t \in 1..Len(status) : status'[t] = status[t]
    <2>1. CASE status' = status
      BY <1>1, <2>1, Domains DEF TypeOK
    <2>2. CASE status' # status
      <3>1. status' = Append(status, "draft") /\ Len(status) < MaxRows /\ "draft" \in Statuses
        BY <2>2 DEF Arrives, Statuses
      <3>2. /\ status' \in Seq(Statuses) /\ Len(status') = Len(status) + 1
            /\ \A t \in 1..Len(status) : status'[t] = status[t]
        BY <1>1, <3>1, AppendProperties DEF TypeOK
      <3> QED
        BY <1>1, <3>1, <3>2, Domains
    <2> QED
      BY <2>1, <2>2
  <1>4. DOMAIN status' = 1..Len(status')
    BY <1>3, LenProperties
  <1>5. sealed' \subseteq Rows'
    <2>1. 1..Len(status) \subseteq 1..Len(status')
      BY <1>1, <1>3, Domains
    <2>2. sealed' = sealed /\ sealed \subseteq 1..Len(status)
      BY <1>1, Domains DEF Arrives, Rows, TypeOK
    <2> QED
      BY <1>4, <2>1, <2>2 DEF Rows
  <1>6. \A q \in Requests : /\ request'[q].row <= Len(status')
                            /\ request'[q].inst <= Len(processes')
    <2> TAKE q \in Requests
    <2>1. CASE q = r
      BY <1>1, <1>2, <2>1, Domains DEF Arrives
    <2>2. CASE q # r
      <3>1. request[q].inst <= Len(processes) /\ request[q].row \in 0..Len(status)
        BY <1>1, RequestTyped DEF TypeOK
      <3> QED
        BY <1>1, <1>2, <1>3, <2>2, <3>1, Domains DEF Arrives
    <2> QED
      BY <2>1, <2>2
  <1>7. TypeOK'
    BY <1>1, <1>2, <1>3, <1>5, <1>6 DEF Arrives, TypeOK
  <1>8. HandlersFit'
    <2> SUFFICES ASSUME NEW h \in handlers PROVE h.row <= Len(status') /\ h.inst <= Len(processes)
      BY DEF Arrives, HandlersFit
    <2>1. h.row <= Len(status) /\ h.inst <= Len(processes) /\ h.row \in 1..MaxRows
      BY <1>1 DEF IInv, HandlersFit, TypeOK, Handler
    <2> QED
      BY <1>1, <1>3, <2>1, Domains
  <1> QED
    BY <1>2, <1>3, <1>7, <1>8

LEMMA ArrivesKeeps ==
    ASSUME IInv, NEW r \in Requests, NEW n, Arrives(r, n) PROVE IInv'
  <1>1. TypeOK /\ Exclusive /\ RunsOnce
    BY DEF IInv
  <1>2. /\ TypeOK' /\ HandlersFit' /\ request'[r] = n
        /\ \A q \in Requests : q # r => request'[q] = request[q]
        /\ \A t \in 1..Len(status) : status'[t] = status[t]
    BY ArrivesTyped
  <1>3. /\ guard' = guard /\ usedKeys' = usedKeys /\ sealed' = sealed
        /\ processes' = processes /\ ~Holding(r)
    BY DEF Arrives
  <1>4. /\ ~Holding(r)'
        /\ \A q \in Requests : /\ Holding(q)' <=> Holding(q)
                               /\ q # r => GuardKey(q)' = GuardKey(q)
    BY <1>2, <1>3 DEF Arrives, Holding, GuardKey, Guarded
  <1>5. /\ \A q : OneKey(request[q].row)' <=> OneKey(request'[q].row)
        /\ \A m : OneKey(processes[m].row)' <=> OneKey(processes[m].row)
    BY <1>3 DEF OneKey
  <1>6. Exclusive'
    BY <1>1, <1>3, <1>4 DEF Exclusive
  <1>7. \A q \in Requests : RequestInv(q)'
    <2> TAKE q \in Requests
    <2>1. CASE q = r
      BY <1>2, <1>4, <2>1 DEF Arrives, RequestInv, Owning
    <2>2. CASE q # r
      BY <1>2, <1>3, <1>4, <2>2 DEF IInv, RequestInv
    <2> QED
      BY <2>1, <2>2
  <1>8. \A q \in Requests : AnswerInv(q)'
    <2> SUFFICES ASSUME NEW q \in Requests, request'[q].ok, OneKey(request'[q].row)
                 PROVE  /\ status'[request'[q].row] \notin {"draft", "submitted"}
                        /\ \A p \in Requests : p # q /\ request'[p].row = request'[q].row
                                                => ~Holding(p)'
      BY <1>5 DEF AnswerInv
    <2>1. q # r /\ request'[q] = request[q] /\ AnswerInv(q) /\ RequestInv(q)
      BY <1>2 DEF Arrives, IInv
    <2>2. request[q].row \in 1..Len(status)
      BY <1>1, <2>1, HolderHasRow DEF RequestInv
    <2> QED
      BY <1>2, <1>4, <2>1, <2>2 DEF AnswerInv
  <1>9. \A m \in DOMAIN processes' : ProcessInv(m)'
    <2> SUFFICES ASSUME NEW m \in 1..Len(processes) PROVE ProcessInv(m)'
      BY <1>1, <1>3, Domains
    <2>1. ProcessInv(m) /\ processes[m].row \in 1..Len(status)
      BY <1>1, Domains DEF IInv
    <2>2. ASSUME processes[m].alive = "yes", OneKey(processes[m].row)
          PROVE  /\ status'[processes[m].row] # "draft"
                 /\ \A q \in Requests : request'[q].row = processes[m].row => At(q, m)'
      <3>1. status'[processes[m].row] # "draft"
        BY <1>2, <2>1, <2>2 DEF ProcessInv
      <3>2. n.row # processes[m].row
        BY <1>1, <2>1, <3>1, Domains DEF Arrives
      <3>3. ASSUME NEW q \in Requests, request'[q].row = processes[m].row PROVE At(q, m)'
        <4>1. q # r /\ request'[q] = request[q] /\ At(q, m)
          BY <1>2, <2>1, <2>2, <3>2, <3>3 DEF ProcessInv
        <4>2. ASSUME Refused(processes[m].row) PROVE Refused(processes[m].row)'
          <5>1. CASE usedKeys[processes[m].row] \subseteq guard.replay
            BY <1>3, <5>1 DEF Refused
          <5>2. ASSUME NEW p \in Requests, request[p].row = processes[m].row, Holding(p)
                PROVE  Refused(processes[m].row)'
            <6>1. p # r
              BY <1>3, <5>2
            <6> QED
              BY <1>2, <1>3, <1>4, <5>2, <6>1 DEF Refused
          <5> QED
            BY <4>2, <5>1, <5>2 DEF Refused
        <4> QED
          BY <1>3, <4>1, <4>2 DEF At
      <3> QED
        BY <3>1, <3>3
    <2> QED
      BY <1>3, <1>5, <2>1, <2>2 DEF ProcessInv
  <1>10. RunsOnce'
    BY <1>1, <1>3, <1>5 DEF RunsOnce
  <1> QED
    BY <1>2, <1>6, <1>7, <1>8, <1>9, <1>10 DEF IInv
-----------------------------------------------------------------------------
(* The guard, the handler and the restart                                  *)

(* Under one key only one request gets to a transaction whose process runs *)
(* or whose submission is answered.                                        *)
LEMMA TakeKeeps ==
    ASSUME IInv, NEW r \in Requests, request[r].pc = "guard",
           GuardKey(r) \notin guard.replay, GuardKey(r) \notin guard.inFlight,
           guard' = [guard EXCEPT !.inFlight = @ \cup {GuardKey(r)}],
           usedKeys' = [usedKeys EXCEPT ![request[r].row] = @ \cup {GuardKey(r)}],
           request' = [request EXCEPT ![r].pc = "check"],
           UNCHANGED <<status, sealed, processes, handlers, stranded, faults>>
    PROVE  IInv'
  <1>1. TypeOK /\ Exclusive /\ RunsOnce /\ RequestInv(r) /\ ~Holding(r) /\ request[r] \in Local
    BY RequestTyped DEF IInv, Holding, Guarded
  <1>2. /\ request[r].row \in 1..Len(status) /\ request[r].row \in 1..MaxRows
        /\ GuardKey(r) \in GuardKeys
    BY <1>1, HolderHasRow
  <1>3. PICK k : k = GuardKey(r)
    OBVIOUS
  <1>4. PICK t : t = request[r].row
    OBVIOUS
  <1>5. PICK n : n = [request[r] EXCEPT !.pc = "check"]
    OBVIOUS
  <1>6. /\ n \in Local /\ n.pc = "check" /\ n.row = t /\ n.key = request[r].key
        /\ n.inst = request[r].inst /\ n.ok = request[r].ok
    BY <1>1, <1>4, <1>5 DEF Local, Steps
  <1>7. /\ request' \in [Requests -> Local] /\ request'[r] = n
        /\ \A q \in Requests : q # r => request'[q] = request[q]
    <2>1. request' = [request EXCEPT ![r] = n]
      BY <1>5
    <2> QED
      BY <1>1, <1>6, <2>1 DEF TypeOK
  <1>8. /\ guard' \in [inFlight : SUBSET GuardKeys, replay : SUBSET GuardKeys]
        /\ guard'.inFlight = guard.inFlight \cup {k} /\ guard'.replay = guard.replay
    BY <1>1, <1>2, <1>3 DEF TypeOK
  <1>9. /\ usedKeys' \in [1..MaxRows -> SUBSET GuardKeys]
        /\ usedKeys'[t] = usedKeys[t] \cup {k}
        /\ \A u \in 1..MaxRows : u # t => usedKeys'[u] = usedKeys[u]
        /\ \A u \in 1..MaxRows : usedKeys[u] \subseteq usedKeys'[u]
    BY <1>1, <1>2, <1>3, <1>4 DEF TypeOK
  <1>10. TypeOK' /\ HandlersFit'
    <2>1. TypeOK'
      BY <1>1, <1>4, <1>6, <1>7, <1>8, <1>9 DEF TypeOK, Rows
    <2> QED
      BY <2>1 DEF IInv, HandlersFit
  <1>11. /\ Holding(r)' /\ GuardKey(r)' = k
         /\ \A q \in Requests : q # r => /\ Holding(q)' <=> Holding(q)
                                         /\ GuardKey(q)' = GuardKey(q)
    BY <1>3, <1>6, <1>7, <1>4 DEF Holding, GuardKey, Guarded
  <1>12. \A u \in 1..MaxRows : Cardinality(usedKeys'[u]) <= 1 => OneKey(u)
    <2> TAKE u \in 1..MaxRows
    <2>1. OneKey(u)' <=> Cardinality(usedKeys'[u]) <= 1
      BY DEF OneKey
    <2> QED
      BY <1>1, <1>9, <1>10, <2>1, OneKeyBefore
  <1>13. ASSUME Cardinality(usedKeys'[t]) <= 1, NEW a \in usedKeys[t] PROVE a = k
    <2>1. usedKeys'[t] \in SUBSET GuardKeys /\ a \in usedKeys'[t] /\ k \in usedKeys'[t]
      BY <1>2, <1>4, <1>9, <1>13
    <2> QED
      BY <1>13, <2>1, AtMostOne
  <1>14. Exclusive'
    <2>1. \A q \in Requests : Holding(q) => GuardKey(q) # k
      BY <1>3 DEF IInv, RequestInv
    <2> QED
      BY <1>1, <1>11, <2>1 DEF Exclusive
  <1>15. \A q \in Requests : RequestInv(q)'
    <2> TAKE q \in Requests
    <2>1. RequestInv(q)
      BY DEF IInv
    <2>2. CASE q = r
      <3>1. n.row # 0 /\ ~n.ok
        BY <1>1, <1>2, <1>4, <1>6 DEF RequestInv
      <3> QED
        BY <1>6, <1>7, <1>8, <1>9, <1>11, <2>2, <3>1 DEF RequestInv, Owning
    <2>3. CASE q # r
      <3>1. Holding(q) \/ request[q].pc = "answered" => request[q].row \in 1..MaxRows
        BY <1>1, <2>1, HolderHasRow DEF Holding, Guarded
      <3> QED
        BY <1>7, <1>8, <1>9, <1>11, <2>1, <2>3, <3>1 DEF RequestInv
    <2> QED
      BY <2>2, <2>3
  <1>16. \A q \in Requests : AnswerInv(q)'
    <2> SUFFICES ASSUME NEW q \in Requests, request'[q].ok,
                        Cardinality(usedKeys'[request'[q].row]) <= 1
                 PROVE  /\ status[request'[q].row] \notin {"draft", "submitted"}
                        /\ \A p \in Requests : p # q /\ request'[p].row = request'[q].row
                                                => ~Holding(p)'
      BY DEF AnswerInv, OneKey
    <2>1. q # r
      BY <1>1, <1>6, <1>7 DEF RequestInv
    <2>2. /\ request[q].ok /\ request'[q] = request[q] /\ AnswerInv(q) /\ RequestInv(q)
          /\ request[q].pc \in {"release", "answered"} /\ request[q].row \in 1..MaxRows
      BY <1>1, <1>7, <2>1, HolderHasRow DEF IInv, RequestInv
    <2>3. OneKey(request[q].row)
      BY <1>12, <2>2
    <2>4. request[q].row # t
      <3> SUFFICES ASSUME request[q].row = t PROVE FALSE
        OBVIOUS
      <3>1. GuardKey(q) \in usedKeys[t] /\ GuardKey(q) \in guard.inFlight \cup guard.replay
        BY <2>2 DEF RequestInv, Holding, Guarded
      <3>2. GuardKey(q) = k
        BY <1>13, <2>2, <3>1
      <3> QED
        BY <1>3, <3>1, <3>2
    <2> QED
      BY <1>4, <1>6, <1>7, <1>11, <2>1, <2>2, <2>3, <2>4 DEF AnswerInv
  <1>17. \A m \in DOMAIN processes' : ProcessInv(m)'
    <2> SUFFICES ASSUME NEW m \in 1..Len(processes) PROVE ProcessInv(m)'
      BY <1>1, Domains
    <2>1. ProcessInv(m) /\ processes[m].row \in 1..Len(status) /\ processes[m].row \in 1..MaxRows
      BY <1>1, Domains DEF IInv
    <2>2. ASSUME processes[m].alive = "yes", Cardinality(usedKeys'[processes[m].row]) <= 1
          PROVE  /\ status[processes[m].row] # "draft"
                 /\ \A q \in Requests : request'[q].row = processes[m].row => At(q, m)'
      <3>1. /\ status[processes[m].row] # "draft"
            /\ \A q \in Requests : request[q].row = processes[m].row => At(q, m)
        BY <1>12, <2>1, <2>2 DEF ProcessInv
      <3>2. t # processes[m].row
        <4> SUFFICES ASSUME t = processes[m].row PROVE FALSE
          OBVIOUS
        <4>1. Refused(t)
          BY <1>4, <3>1 DEF At, Owning
        <4>2. usedKeys[t] # {} /\ \A a \in usedKeys[t] : a = k
          BY <1>13, <2>1, <2>2 DEF ProcessInv
        <4>3. CASE usedKeys[t] \subseteq guard.replay
          BY <1>3, <4>2, <4>3
        <4>4. ASSUME NEW p \in Requests, request[p].row = t, Holding(p) PROVE FALSE
          BY <1>3, <4>2, <4>4 DEF IInv, RequestInv
        <4> QED
          BY <4>1, <4>3, <4>4 DEF Refused
      <3>3. ASSUME NEW q \in Requests, request'[q].row = processes[m].row PROVE At(q, m)'
        <4>1. q # r /\ request'[q] = request[q] /\ At(q, m)
          BY <1>6, <1>7, <3>1, <3>2, <3>3
        <4>2. ASSUME Refused(processes[m].row) PROVE Refused(processes[m].row)'
          BY <1>4, <1>7, <1>8, <1>9, <1>11, <2>1, <3>2, <4>2 DEF Refused
        <4> QED
          BY <4>1, <4>2 DEF At
      <3> QED
        BY <3>1, <3>3
    <2>3. usedKeys'[processes[m].row] # {}
      BY <1>9, <2>1 DEF ProcessInv
    <2> QED
      BY <2>2, <2>3 DEF ProcessInv, OneKey
  <1>18. RunsOnce'
    <2> SUFFICES ASSUME NEW m \in 1..Len(processes), NEW j \in 1..Len(processes),
                        processes[m].alive = "yes", processes[j].alive = "yes",
                        processes[m].row = processes[j].row,
                        Cardinality(usedKeys'[processes[m].row]) <= 1
                 PROVE  m = j
      BY <1>1, Domains DEF RunsOnce, OneKey
    <2>1. OneKey(processes[m].row)
      BY <1>1, <1>12, Domains
    <2> QED
      BY <1>1, <2>1, Domains DEF RunsOnce
  <1> QED
    BY <1>10, <1>14, <1>15, <1>16, <1>17, <1>18 DEF IInv
(* Who gives a key back has failed, and holds no process then, or has      *)
(* succeeded, and its answer is replayed.                                  *)
LEMMA ReleaseKeeps == ASSUME IInv, NEW r \in Requests, Release(r) PROVE IInv'
  <1>1. /\ TypeOK /\ Exclusive /\ RunsOnce /\ RequestInv(r) /\ request[r] \in Local
        /\ request[r].pc = "release" /\ Holding(r)
        /\ UNCHANGED <<status, sealed, processes, handlers, usedKeys, stranded, faults>>
    BY RequestTyped DEF IInv, Holding, Guarded, Release
  <1>2. /\ request[r].row \in 1..Len(status) /\ request[r].row \in 1..MaxRows
        /\ GuardKey(r) \in GuardKeys
    BY <1>1, HolderHasRow
  <1>3. PICK k : k = GuardKey(r)
    OBVIOUS
  <1>4. PICK n : n = IF request[r].ok THEN [request[r] EXCEPT !.pc = "answered"] ELSE Idle
    OBVIOUS
  <1>5. request' = [request EXCEPT ![r] = n]
    BY <1>1, <1>4 DEF Release, TypeOK
  <1>6. /\ request' \in [Requests -> Local] /\ request'[r] = n
        /\ n.row <= Len(status) /\ n.inst <= Len(processes)
        /\ \/ request[r].ok /\ n.pc = "answered" /\ n.row = request[r].row
              /\ n.key = request[r].key /\ n.ok
           \/ ~request[r].ok /\ n = Idle
        /\ \A q \in Requests : q # r => request'[q] = request[q]
    <2>1. Idle \in Local /\ Idle.row = 0 /\ Idle.inst = 0
      BY <1>1, Domains DEF Idle, Local, Steps
    <2>2. n \in Local /\ n.row <= Len(status) /\ n.inst <= Len(processes)
      BY <1>1, <1>2, <1>4, <2>1, Domains, RequestTyped DEF Local, Steps
    <2> QED
      BY <1>1, <1>4, <1>5, <2>2 DEF TypeOK, Local
  <1>7. /\ guard' \in [inFlight : SUBSET GuardKeys, replay : SUBSET GuardKeys]
        /\ guard'.inFlight = guard.inFlight \ {k}
        /\ guard.replay \subseteq guard'.replay
        /\ request[r].ok => k \in guard'.replay
    BY <1>1, <1>2, <1>3 DEF Release, TypeOK
  <1>8. TypeOK' /\ HandlersFit'
    <2>1. \A q \in Requests : /\ request'[q].row <= Len(status)
                              /\ request'[q].inst <= Len(processes)
      BY <1>1, <1>6 DEF TypeOK
    <2>2. TypeOK'
      BY <1>1, <1>6, <1>7, <2>1 DEF TypeOK, Rows
    <2> QED
      BY <1>1, <2>2 DEF IInv, HandlersFit
  <1>9. /\ ~Holding(r)'
        /\ n.pc = "answered" => GuardKey(r)' = k
        /\ \A q \in Requests : q # r => /\ Holding(q)' <=> Holding(q)
                                        /\ GuardKey(q)' = GuardKey(q)
    BY <1>3, <1>6 DEF Holding, GuardKey, Guarded, Idle
  <1>10. Exclusive'
    BY <1>1, <1>9 DEF Exclusive
  <1>11. /\ \A q : OneKey(request[q].row)' <=> OneKey(request'[q].row)
         /\ \A m : OneKey(processes[m].row)' <=> OneKey(processes[m].row)
    BY <1>1 DEF OneKey
  <1>12. \A q \in Requests : RequestInv(q)'
    <2> TAKE q \in Requests
    <2>1. RequestInv(q)
      BY DEF IInv
    <2>2. CASE q = r /\ request[r].ok
      <3>1. n.pc = "answered" /\ n.row = request[r].row /\ n.ok /\ n.row # 0
        BY <1>2, <1>6, <2>2
      <3>2. k \in usedKeys[request[r].row] /\ k \in guard'.replay
        BY <1>1, <1>3, <1>7, <2>2 DEF RequestInv
      <3> QED
        BY <1>1, <1>6, <1>9, <2>2, <3>1, <3>2 DEF RequestInv, Owning
    <2>3. CASE q = r /\ ~request[r].ok
      BY <1>6, <1>9, <2>3 DEF RequestInv, Idle, Owning
    <2>4. CASE q # r
      <3>1. Holding(q) => GuardKey(q) # k
        BY <1>1, <1>3, <2>4 DEF Exclusive
      <3> QED
        BY <1>1, <1>6, <1>7, <1>9, <2>1, <2>4, <3>1 DEF RequestInv
    <2> QED
      BY <2>2, <2>3, <2>4
  <1>13. \A q \in Requests : AnswerInv(q)'
    <2> SUFFICES ASSUME NEW q \in Requests, request'[q].ok, OneKey(request'[q].row)
                 PROVE  /\ status[request'[q].row] \notin {"draft", "submitted"}
                        /\ \A p \in Requests : p # q /\ request'[p].row = request'[q].row
                                                => ~Holding(p)'
      BY <1>1, <1>11 DEF AnswerInv
    <2>1. request[q].ok /\ request'[q].row = request[q].row /\ AnswerInv(q)
      BY <1>6 DEF IInv, Idle
    <2> QED
      BY <1>6, <1>9, <2>1 DEF AnswerInv
  <1>14. \A m \in DOMAIN processes' : ProcessInv(m)'
    <2> SUFFICES ASSUME NEW m \in 1..Len(processes) PROVE ProcessInv(m)'
      BY <1>1, Domains
    <2>1. ProcessInv(m) /\ processes[m].row \in 1..Len(status) /\ processes[m].row \in 1..MaxRows
      BY <1>1, Domains DEF IInv
    <2>2. ASSUME processes[m].alive = "yes", OneKey(processes[m].row)
          PROVE  /\ status[processes[m].row] # "draft"
                 /\ \A q \in Requests : request'[q].row = processes[m].row => At(q, m)'
      <3>1. /\ status[processes[m].row] # "draft"
            /\ \A q \in Requests : request[q].row = processes[m].row => At(q, m)
        BY <2>1, <2>2 DEF ProcessInv
      <3>2. request[r].row = processes[m].row => request[r].ok
        BY <1>1, <3>1 DEF At, Owning
      <3>3. ASSUME Refused(processes[m].row) PROVE Refused(processes[m].row)'
        <4>1. CASE usedKeys[processes[m].row] \subseteq guard.replay
          BY <1>1, <1>7, <4>1 DEF Refused
        <4>2. ASSUME NEW p \in Requests, request[p].row = processes[m].row, Holding(p)
              PROVE  Refused(processes[m].row)'
          <5>1. CASE p # r
            BY <1>1, <1>6, <1>9, <4>2, <5>1 DEF Refused
          <5>2. CASE p = r
            <6>1. \A a \in usedKeys[processes[m].row] : a = k
              BY <1>1, <1>3, <2>1, <2>2, <4>2, <5>2, KeysAgree DEF RequestInv
            <6> QED
              BY <1>1, <1>7, <3>2, <4>2, <5>2, <6>1 DEF Refused
          <5> QED
            BY <5>1, <5>2
        <4> QED
          BY <3>3, <4>1, <4>2 DEF Refused
      <3>4. ASSUME NEW q \in Requests, request'[q].row = processes[m].row PROVE At(q, m)'
        <4>1. CASE q = r
          <5>1. processes[m].row # 0
            BY <2>1
          <5>2. n.pc = "answered" /\ n.ok
            BY <1>6, <3>4, <4>1, <5>1 DEF Idle
          <5> QED
            BY <1>6, <4>1, <5>2 DEF At
        <4>2. CASE q # r
          <5>1. At(q, m) /\ request'[q] = request[q]
            BY <1>6, <3>1, <3>4, <4>2
          <5> QED
            BY <1>1, <3>3, <5>1 DEF At
        <4> QED
          BY <4>1, <4>2
      <3> QED
        BY <3>1, <3>4
    <2> QED
      BY <1>1, <1>11, <2>1, <2>2 DEF ProcessInv
  <1>15. RunsOnce'
    BY <1>1, <1>11 DEF RunsOnce
  <1> QED
    BY <1>8, <1>10, <1>12, <1>13, <1>14, <1>15 DEF IInv

(* The handler ends transactions and processes, and begins none.           *)
HandlerGoesOn ==
    /\ status' \in Seq(Statuses) /\ Len(status') = Len(status)
    /\ \A u \in 1..Len(status) : status'[u] \in {status[u], "rejected"}
    /\ processes' \in Seq(Process) /\ Len(processes') = Len(processes)
    /\ \A m \in 1..Len(processes) :
         /\ processes'[m].row = processes[m].row
         /\ processes'[m].alive = "yes" => processes[m].alive = "yes"
    /\ handlers' \subseteq Handler
    /\ \A h \in handlers' : h.row <= Len(status) /\ h.inst <= Len(processes)
    /\ UNCHANGED <<sealed, guard, request, usedKeys, stranded, faults>>

LEMMA HandlerKeeps == ASSUME IInv, HandlerGoesOn PROVE IInv'
  <1>1. /\ TypeOK /\ Exclusive /\ RunsOnce
        /\ UNCHANGED <<sealed, guard, request, usedKeys, stranded, faults>>
    BY DEF IInv, HandlerGoesOn
  <1>2. DOMAIN processes' = 1..Len(processes) /\ DOMAIN status' = 1..Len(status)
    BY LenProperties DEF HandlerGoesOn
  <1>3. TypeOK' /\ HandlersFit'
    <2>1. \A m \in DOMAIN processes' : processes'[m].row \in sealed'
      BY <1>1, <1>2, Domains DEF HandlerGoesOn
    <2>2. sealed' \subseteq Rows'
      BY <1>1, <1>2, Domains DEF TypeOK, Rows
    <2>3. TypeOK'
      BY <1>1, <2>1, <2>2 DEF HandlerGoesOn, TypeOK
    <2> QED
      BY <2>3 DEF HandlerGoesOn, HandlersFit
  <1>4. \A q \in Requests : (Holding(q)' <=> Holding(q)) /\ GuardKey(q)' = GuardKey(q)
    BY <1>1 DEF Holding, GuardKey
  <1>5. \A m \in 1..Len(processes) :
            /\ ProcessInv(m) /\ processes[m].row \in 1..Len(status)
            /\ processes'[m].row = processes[m].row
            /\ processes'[m].alive = "yes" => processes[m].alive = "yes"
    BY <1>1, Domains DEF IInv, HandlerGoesOn
  <1>6. \A q \in Requests : RequestInv(q)' /\ AnswerInv(q)'
    <2> TAKE q \in Requests
    <2>1. RequestInv(q) /\ AnswerInv(q)
      BY DEF IInv
    <2>2. RequestInv(q)'
      BY <1>1, <1>4, <2>1 DEF RequestInv
    <2>3. request[q].ok => request[q].row \in 1..Len(status)
      BY <1>1, <2>1, HolderHasRow DEF RequestInv
    <2>4. AnswerInv(q)'
      BY <1>1, <1>4, <2>1, <2>3 DEF AnswerInv, OneKey, HandlerGoesOn
    <2> QED
      BY <2>2, <2>4
  <1>7. \A m \in DOMAIN processes' : ProcessInv(m)'
    <2> SUFFICES ASSUME NEW m \in 1..Len(processes) PROVE ProcessInv(m)'
      BY <1>2
    <2>1. status[processes[m].row] # "draft" => status'[processes[m].row] # "draft"
      BY <1>5 DEF HandlerGoesOn
    <2>2. \A q \in Requests : At(q, m)' <=> At(q, m)
      BY <1>1, <1>4, <1>5 DEF At, Refused
    <2> QED
      BY <1>1, <1>5, <2>1, <2>2 DEF ProcessInv, OneKey
  <1>8. RunsOnce'
    BY <1>1, <1>2, <1>5, Domains DEF RunsOnce, OneKey
  <1>9. Exclusive'
    BY <1>1, <1>4 DEF Exclusive
  <1> QED
    BY <1>3, <1>6, <1>7, <1>8, <1>9 DEF IInv

(* After a restart nobody is on the way to a transaction that runs.        *)
LEMMA CrashKeeps == ASSUME IInv, Crash PROVE IInv'
  <1>1. TypeOK /\ RunsOnce /\ UNCHANGED <<status, sealed, processes, usedKeys>>
    BY DEF IInv, Crash
  <1>2. /\ Idle \in Local /\ Idle.row = 0 /\ Idle.inst = 0 /\ ~Idle.ok /\ Idle.pc = "idle"
    BY <1>1, Domains DEF Idle, Local, Steps
  <1>3. request' \in [Requests -> Local] /\ \A r \in Requests : request'[r] = Idle
    BY <1>2 DEF Crash
  <1>4. TypeOK' /\ HandlersFit'
    <2>1. \A q \in Requests : /\ request'[q].row <= Len(status)
                              /\ request'[q].inst <= Len(processes)
      BY <1>1, <1>2, <1>3, Domains
    <2>2. faults' \in 0..MaxFaults
      BY <1>1, Domains DEF Crash, Fault, TypeOK
    <2>3. stranded' \subseteq 1..MaxRows
      <3>1. \A r \in Requests : request[r].row # 0 => request[r].row \in 1..MaxRows
        BY <1>1, RequestTyped, Domains
      <3> QED
        BY <1>1, <3>1 DEF Crash, TypeOK
    <2>4. TypeOK'
      BY <1>1, <1>3, <2>1, <2>2, <2>3 DEF Crash, TypeOK, Rows
    <2> QED
      BY <2>4 DEF Crash, HandlersFit
  <1>5. \A q \in Requests : ~Holding(q)' /\ request'[q].row = 0 /\ ~request'[q].ok
    BY <1>2, <1>3 DEF Holding, Guarded
  <1>6. \A q \in Requests : RequestInv(q)' /\ AnswerInv(q)'
    BY <1>2, <1>3, <1>5 DEF RequestInv, AnswerInv, Owning
  <1>7. \A m \in DOMAIN processes' : ProcessInv(m)'
    <2> SUFFICES ASSUME NEW m \in 1..Len(processes) PROVE ProcessInv(m)'
      BY <1>1, Domains
    <2>1. ProcessInv(m) /\ processes[m].row # 0
      BY <1>1, Domains DEF IInv
    <2> QED
      BY <1>1, <1>5, <2>1 DEF ProcessInv, OneKey
  <1>8. RunsOnce' /\ Exclusive'
    BY <1>1, <1>5 DEF RunsOnce, OneKey, Exclusive
  <1> QED
    BY <1>4, <1>6, <1>7, <1>8 DEF IInv
-----------------------------------------------------------------------------
(* The actions, one by one                                                 *)

(* What request r knows of its transaction under the guard.                *)
LEMMA AtWork ==
    ASSUME IInv, NEW r \in Requests, Holding(r)
    PROVE  /\ TypeOK /\ RequestInv(r) /\ request[r] \in Local
           /\ request[r].row \in 1..Len(status) /\ request[r].row \in 1..MaxRows
           /\ request[r].inst \in 0..Len(processes) /\ request[r].inst \in 0..MaxStarts
           /\ request[r].pc # "release" => ~request[r].ok
           /\ \A m \in 1..Len(processes) :
                processes[m].alive = "yes" /\ processes[m].row = request[r].row
                /\ OneKey(request[r].row) =>
                    /\ status[request[r].row] # "draft"
                    /\ \/ request[r].pc \in Owning /\ request[r].inst = m
                       \/ request[r].pc = "release"
  <1>1. TypeOK /\ RequestInv(r) /\ request[r] \in Local
    BY RequestTyped DEF IInv
  <1>2. request[r].row \in 1..Len(status) /\ request[r].row \in 1..MaxRows
    BY <1>1, HolderHasRow DEF Holding, Guarded
  <1>3. request[r].inst \in 0..Len(processes) /\ request[r].inst \in 0..MaxStarts
    BY <1>1, RequestTyped DEF Local
  <1>4. request[r].pc # "release" => ~request[r].ok
    BY <1>1 DEF RequestInv, Holding, Guarded
  <1>5. ASSUME NEW m \in 1..Len(processes), processes[m].alive = "yes",
               processes[m].row = request[r].row, OneKey(request[r].row)
        PROVE  /\ status[request[r].row] # "draft"
               /\ \/ request[r].pc \in Owning /\ request[r].inst = m
                  \/ request[r].pc = "release"
    <2>1. ProcessInv(m)
      BY <1>1, Domains DEF IInv
    <2>2. At(r, m) /\ status[request[r].row] # "draft"
      BY <1>5, <2>1 DEF ProcessInv
    <2> QED
      BY <2>2 DEF At, Holding, Guarded
  <1> QED
    BY <1>1, <1>2, <1>3, <1>4, <1>5

LEMMA Frames ==
    ASSUME IInv, NEW t
    PROVE  /\ status' = status => StatusOf(t)
           /\ HandlersFit /\ handlers \subseteq Handler
           /\ faults \in 0..MaxFaults /\ stranded \subseteq 1..MaxRows
           /\ sealed \subseteq sealed \cup {t}
  BY DEF IInv, TypeOK, StatusOf

LEMMA ProcessesStay ==
    ASSUME IInv, NEW r, NEW n, processes' = processes PROVE ProcessesOf(r, n)
  <1>1. TypeOK
    BY DEF IInv
  <1> QED
    BY <1>1, Domains DEF ProcessesOf, TypeOK

(* At most a process is added that the server does not know of. *)
NothingKnown(r) ==
    /\ processes' \in Seq(Process)
    /\ Len(processes') \in Nat /\ Len(processes) <= Len(processes')
    /\ Len(processes') <= MaxStarts
    /\ \A m \in 1..Len(processes) : processes'[m] = processes[m]
    /\ \A m \in 1..Len(processes') :
         m \in 1..Len(processes) \/ /\ processes'[m].row = request[r].row
                                    /\ request[r].pc = "start"
                                    /\ processes'[m].alive # "yes"

LEMMA NothingAdded ==
    ASSUME IInv, NEW r, processes' = processes PROVE NothingKnown(r)
  <1>1. TypeOK
    BY DEF IInv
  <1> QED
    BY <1>1, Domains DEF NothingKnown, TypeOK

(* A step after which there is nothing to say of the request's processes:  *)
(* there was none before.                                                  *)
LEMMA QuietKeeps ==
    ASSUME IInv, NEW r \in Requests, Holding(r),
           request[r].pc \in Guarded \ (Owning \cup {"release"}),
           NEW pc \in Guarded \ (Owning \ {"rollback"}),
           request' = [request EXCEPT ![r].pc = pc],
           pc = "start" => request[r].row \in sealed',
           StatusOf(request[r].row),
           sealed \subseteq sealed', sealed' \subseteq sealed \cup {request[r].row},
           faults' \in 0..MaxFaults, stranded' \subseteq 1..MaxRows,
           handlers' \subseteq Handler,
           \A h \in handlers' : h.row <= Len(status) /\ h.inst <= Len(processes),
           NothingKnown(r), UNCHANGED <<guard, usedKeys>>
    PROVE  IInv'
  <1>1. /\ TypeOK /\ request[r] \in Local /\ ~request[r].ok
        /\ request[r].inst \in 0..Len(processes) /\ request[r].inst \in 0..MaxStarts
        /\ \A m \in 1..Len(processes) :
             ~(processes[m].alive = "yes" /\ processes[m].row = request[r].row
               /\ OneKey(request[r].row))
    BY AtWork, Zenon DEF Owning
  <1>2. PICK n : n = [request[r] EXCEPT !.pc = pc, !.inst = request[r].inst]
    OBVIOUS
  <1>3. /\ n \in Local /\ n.pc = pc /\ n.inst = request[r].inst
        /\ n.row = request[r].row /\ n.key = request[r].key /\ ~n.ok
    <2>1. pc \in Guarded
      OBVIOUS
    <2> QED
      BY <1>1, <1>2, <2>1 DEF Local, Steps, Guarded
  <1>4. request' = [request EXCEPT ![r] = n]
    <2>1. n = [request[r] EXCEPT !.pc = pc]
      BY <1>1, <1>2 DEF Local
    <2> QED
      BY <2>1, Zenon
  <1>5. ProcessesOf(r, n) /\ Owns(r, n)
    BY <1>1 DEF Owns, ProcessesOf, NothingKnown
  <1>6. n.inst <= Len(processes')
    BY <1>1, <1>3, Domains DEF NothingKnown
  <1>7. \A h \in handlers' : h.row <= Len(status') /\ h.inst <= Len(processes')
    <2> TAKE h \in handlers'
    <2>1. h.row <= Len(status) /\ h.inst <= Len(processes) /\ h.inst \in 0..MaxStarts
      BY DEF Handler
    <2> QED
      BY <1>1, <2>1, Domains DEF StatusOf, NothingKnown
  <1>8. GoesOn(r, n)
    BY <1>3, <1>4, <1>5, <1>6, <1>7 DEF GoesOn
  <1> QED
    BY <1>8, GoesOnKeeps

LEMMA CheckKeeps == ASSUME IInv, NEW r \in Requests, Check(r) PROVE IInv'
  <1>1. /\ Holding(r) /\ request[r].pc = "check"
        /\ UNCHANGED <<status, sealed, processes, guard, handlers, usedKeys, stranded, faults>>
    BY DEF Check, Holding, Guarded
  <1>2. PICK pc \in {"store", "release"} : request' = [request EXCEPT ![r].pc = pc]
    BY DEF Check
  <1>3. TypeOK /\ HandlersFit /\ StatusOf(request[r].row) /\ NothingKnown(r)
        /\ handlers \subseteq Handler /\ faults \in 0..MaxFaults /\ stranded \subseteq 1..MaxRows
    BY <1>1, Frames, NothingAdded DEF IInv
  <1>4. /\ request[r].pc \in Guarded \ (Owning \cup {"release"})
        /\ pc \in Guarded \ (Owning \ {"rollback"}) /\ pc # "start"
    BY <1>1, <1>2 DEF Guarded, Owning
  <1> QED
    BY <1>1, <1>2, <1>3, <1>4, QuietKeeps DEF HandlersFit

LEMMA StoreKeeps == ASSUME IInv, NEW r \in Requests, Store(r) PROVE IInv'
  <1>1. /\ Holding(r) /\ request[r].pc = "store"
        /\ request' = [request EXCEPT ![r].pc = "start"]
        /\ sealed' = sealed \cup {request[r].row}
        /\ status' = [status EXCEPT ![request[r].row] = "submitted"]
        /\ UNCHANGED <<processes, guard, handlers, usedKeys, stranded, faults>>
    BY DEF Store, Holding, Guarded, Seal
  <1>2. TypeOK /\ HandlersFit /\ request[r].row \in 1..Len(status) /\ NothingKnown(r)
        /\ handlers \subseteq Handler /\ faults \in 0..MaxFaults /\ stranded \subseteq 1..MaxRows
    BY <1>1, Frames, AtWork, NothingAdded DEF IInv
  <1>3. StatusOf(request[r].row)
    BY <1>1, <1>2, WriteOne DEF TypeOK, StatusOf, Statuses
  <1>4. /\ request[r].pc \in Guarded \ (Owning \cup {"release"})
        /\ "start" \in Guarded \ (Owning \ {"rollback"})
    BY <1>1 DEF Guarded, Owning
  <1> QED
    BY <1>1, <1>2, <1>3, <1>4, QuietKeeps DEF HandlersFit

(* What a failed step leaves: the request rolls back, a handler may begin. *)
LEMMA AbortTyped ==
    ASSUME IInv, NEW r \in Requests, Holding(r), NEW i \in {0, request[r].inst}, Abort(r, i)
    PROVE  /\ request' = [request EXCEPT ![r].pc = "rollback"]
           /\ handlers' \subseteq Handler
           /\ \A h \in handlers' : h.row <= Len(status) /\ h.inst <= Len(processes)
  <1>1. /\ TypeOK /\ HandlersFit /\ request[r].row \in 1..Len(status)
        /\ request[r].row \in 1..MaxRows /\ request[r].inst \in 0..Len(processes)
        /\ request[r].inst \in 0..MaxStarts /\ handlers \subseteq Handler
    BY AtWork, Frames
  <1>2. PICK new : new = [row |-> request[r].row, inst |-> i, pc |-> "delete"]
    OBVIOUS
  <1>3. i \in 0..Len(processes) /\ i \in 0..MaxStarts
    BY <1>1, Domains
  <1>4. new \in Handler /\ new.row <= Len(status) /\ new.inst <= Len(processes)
    BY <1>1, <1>2, <1>3, Domains DEF Handler
  <1>5. handlers' \subseteq handlers \cup {new}
    BY <1>2 DEF Abort
  <1> QED
    BY <1>1, <1>4, <1>5 DEF Abort, HandlersFit

LEMMA FailTyped ==
    ASSUME IInv, NEW r \in Requests, Holding(r), NEW i \in {0, request[r].inst}, Fail(r, i)
    PROVE  /\ faults' \in 0..MaxFaults
           /\ request' = [request EXCEPT ![r].pc = "rollback"]
           /\ handlers' \subseteq Handler
           /\ \A h \in handlers' : h.row <= Len(status) /\ h.inst <= Len(processes)
  <1>1. faults' \in 0..MaxFaults
    BY Frames, SubmissionAssumption DEF Fail, Fault
  <1> QED
    BY <1>1, AbortTyped DEF Fail

LEMMA StartKeeps == ASSUME IInv, NEW r \in Requests, Start(r) PROVE IInv'
  <1>1. /\ Holding(r) /\ request[r].pc = "start" /\ request[r].pc \in Guarded \ (Owning \cup {"release"})
        /\ UNCHANGED <<status, sealed, guard, usedKeys, stranded>>
    BY DEF Start, Holding, Guarded, Owning
  <1>2. /\ TypeOK /\ HandlersFit /\ StatusOf(request[r].row) /\ RequestInv(r)
        /\ handlers \subseteq Handler /\ faults \in 0..MaxFaults /\ stranded \subseteq 1..MaxRows
    BY <1>1, Frames, AtWork
  <1>3. CASE request' = [request EXCEPT ![r].pc = "read"] /\ UNCHANGED <<processes, handlers, faults>>
    <2>1. "read" \in Guarded \ (Owning \ {"rollback"}) /\ NothingKnown(r)
      BY <1>3, NothingAdded DEF Guarded, Owning
    <2> QED
      BY <1>1, <1>2, <1>3, <2>1, QuietKeeps DEF HandlersFit
  <1>4. CASE /\ status[request[r].row] = "submitted" /\ Len(processes) < MaxStarts
             /\ processes' = Append(processes, [row |-> request[r].row, alive |-> "yes", record |-> "none"])
             /\ request' = [request EXCEPT ![r].pc = "record", ![r].inst = Len(processes) + 1]
             /\ UNCHANGED <<handlers, faults>>
    <2>1. /\ request[r] \in Local /\ ~request[r].ok /\ request[r].row \in 1..MaxRows
          /\ request[r].row \in 1..Len(status)
          /\ \A m \in 1..Len(processes) :
             ~(processes[m].alive = "yes" /\ processes[m].row = request[r].row
               /\ OneKey(request[r].row))
      BY <1>1, AtWork, Zenon DEF Owning
    <2>2. PICK new : new = [row |-> request[r].row, alive |-> "yes", record |-> "none"]
      OBVIOUS
    <2>3. new \in Process /\ new.row = request[r].row
      BY <2>1, <2>2 DEF Process
    <2>4. PICK i : i = Len(processes) + 1
      OBVIOUS
    <2>5. i \in 0..MaxStarts /\ i # 0 /\ Len(processes) \in Nat /\ i \notin 1..Len(processes)
      BY <1>2, <1>4, <2>4, Domains
    <2>6. /\ processes' \in Seq(Process) /\ Len(processes') = i
          /\ \A m \in 1..Len(processes) : processes'[m] = processes[m]
          /\ processes'[i] = new
      BY <1>2, <1>4, <2>2, <2>3, <2>4, AppendProperties DEF TypeOK
    <2>7. PICK n : n = [request[r] EXCEPT !.pc = "record", !.inst = i]
      OBVIOUS
    <2>8. /\ n \in Local /\ n.pc = "record" /\ n.inst = i
          /\ n.row = request[r].row /\ n.key = request[r].key /\ ~n.ok
      BY <2>1, <2>5, <2>7 DEF Local, Steps
    <2>9. request' = [request EXCEPT ![r] = n]
      BY <1>2, <1>4, <2>4, <2>7, Zenon DEF TypeOK
    <2>10. \A m \in 1..i : m \in 1..Len(processes) \/ m = i
      BY <2>4, <2>5
    <2>11. ProcessesOf(r, n)
      BY <1>1, <1>4, <2>3, <2>4, <2>5, <2>6, <2>8, <2>10, Domains DEF ProcessesOf
    <2>12. Owns(r, n)
      BY <1>1, <1>4, <2>1, <2>6, <2>8, <2>10 DEF Owns, Owning
    <2>13. \A h \in handlers' : h.row <= Len(status') /\ h.inst <= Len(processes')
      <3> SUFFICES ASSUME NEW h \in handlers PROVE h.row <= Len(status) /\ h.inst <= i
        BY <1>1, <1>4, <2>6
      <3>1. h.inst \in Nat /\ h.row <= Len(status) /\ h.inst <= Len(processes)
        BY <1>2 DEF HandlersFit, Handler
      <3> QED
        BY <2>4, <2>5, <3>1
    <2>14. n.inst <= Len(processes')
      BY <2>5, <2>6, <2>8
    <2>15. GoesOn(r, n)
      BY <1>1, <1>2, <1>4, <2>5, <2>8, <2>9, <2>11, <2>12, <2>13, <2>14 DEF GoesOn, Guarded
    <2> QED
      BY <2>15, GoesOnKeeps
  <1>5. CASE /\ Fail(r, 0)
             /\ \/ UNCHANGED processes
                \/ /\ Len(processes) < MaxStarts
                   /\ processes' = Append(processes, [row |-> request[r].row, alive |-> "lost",
                                                      record |-> "none"])
    <2>1. "rollback" \in Guarded \ (Owning \ {"rollback"})
      BY DEF Guarded, Owning
    <2>2. /\ faults' \in 0..MaxFaults
          /\ request' = [request EXCEPT ![r].pc = "rollback"]
          /\ handlers' \subseteq Handler
          /\ \A h \in handlers' : h.row <= Len(status) /\ h.inst <= Len(processes)
      BY <1>1, <1>5, FailTyped
    <2>3. ASSUME ~UNCHANGED processes PROVE NothingKnown(r)
      <3>1. PICK new : new = [row |-> request[r].row, alive |-> "lost", record |-> "none"]
        OBVIOUS
      <3>2. new \in Process /\ new.row = request[r].row /\ new.alive # "yes"
        BY <1>1, <3>1, AtWork DEF Process
      <3>3. Len(processes) \in Nat /\ MaxStarts \in Nat /\ Len(processes) < MaxStarts
        BY <1>2, <1>5, <2>3, Domains
      <3>4. /\ processes' \in Seq(Process) /\ Len(processes') = Len(processes) + 1
            /\ \A m \in 1..Len(processes) : processes'[m] = processes[m]
            /\ processes'[Len(processes) + 1] = new
        <4>1. processes' = Append(processes, new)
          BY <1>5, <2>3, <3>1
        <4> QED
          BY <1>2, <3>2, <4>1, AppendProperties DEF TypeOK
      <3>5. \A m \in 1..Len(processes') : m \in 1..Len(processes) \/ m = Len(processes) + 1
        BY <3>3, <3>4
      <3> QED
        BY <1>1, <3>2, <3>3, <3>4, <3>5 DEF NothingKnown
    <2>4. NothingKnown(r)
      BY <2>3, NothingAdded
    <2> QED
      BY <1>1, <1>2, <2>1, <2>2, <2>4, QuietKeeps
  <1> QED
    BY <1>3, <1>4, <1>5 DEF Start

(* A step of a request that holds process inst, or gives it up with a      *)
(* rollback that is still to come.                                         *)
LEMMA OwnerKeeps ==
    ASSUME IInv, NEW r \in Requests, Holding(r), request[r].pc \in Owning,
           NEW pc \in Owning, request' = [request EXCEPT ![r].pc = pc],
           pc # "rollback" => request[r].inst # 0,
           StatusOf(request[r].row),
           status' = status \/ status'[request[r].row] # "draft",
           processes' \in Seq(Process), Len(processes') = Len(processes),
           \A m \in 1..Len(processes) :
              /\ processes'[m].row = processes[m].row
              /\ processes'[m].alive = "yes" => processes[m].alive = "yes",
           faults' \in 0..MaxFaults, handlers' \subseteq Handler,
           \A h \in handlers' : h.row <= Len(status) /\ h.inst <= Len(processes),
           UNCHANGED <<sealed, guard, usedKeys, stranded>>
    PROVE  IInv'
  <1>1. /\ TypeOK /\ request[r] \in Local /\ ~request[r].ok
        /\ request[r].inst \in 0..Len(processes) /\ request[r].inst \in 0..MaxStarts
        /\ \A m \in 1..Len(processes) :
             processes[m].alive = "yes" /\ processes[m].row = request[r].row
             /\ OneKey(request[r].row) =>
                /\ status[request[r].row] # "draft" /\ request[r].inst = m
    BY AtWork, Zenon DEF Owning
  <1>2. PICK n : n = [request[r] EXCEPT !.pc = pc, !.inst = request[r].inst]
    OBVIOUS
  <1>3. /\ n \in Local /\ n.pc = pc /\ n.inst = request[r].inst /\ pc \in Guarded
        /\ n.row = request[r].row /\ n.key = request[r].key /\ ~n.ok
    <2>1. pc \in Guarded
      BY DEF Owning, Guarded
    <2> QED
      BY <1>1, <1>2, <2>1 DEF Local, Steps, Guarded
  <1>4. request' = [request EXCEPT ![r] = n]
    <2>1. n = [request[r] EXCEPT !.pc = pc]
      BY <1>1, <1>2 DEF Local
    <2> QED
      BY <2>1, Zenon
  <1>5. ProcessesOf(r, n)
    BY <1>1, Domains DEF ProcessesOf, TypeOK
  <1>6. Owns(r, n)
    <2> SUFFICES ASSUME NEW m \in 1..Len(processes), processes'[m].alive = "yes",
                        processes'[m].row = request[r].row, OneKey(request[r].row)
                 PROVE  status'[request[r].row] # "draft" /\ n.pc \in Owning /\ n.inst = m
      BY DEF Owns
    <2>1. status[request[r].row] # "draft" /\ request[r].inst = m
      BY <1>1
    <2> QED
      BY <1>3, <2>1
  <1>7. n.inst <= Len(processes')
    BY <1>1, <1>3, Domains
  <1>8. \A h \in handlers' : h.row <= Len(status') /\ h.inst <= Len(processes')
    BY DEF StatusOf
  <1>9. n.pc # "start" /\ sealed' = sealed /\ (n.pc \in Owning \ {"rollback"} => n.inst # 0)
    BY <1>3 DEF Owning
  <1>10. stranded' \subseteq 1..MaxRows
    BY Frames
  <1>11. GoesOn(r, n)
    BY <1>3, <1>4, <1>5, <1>6, <1>7, <1>8, <1>9, <1>10 DEF GoesOn
  <1> QED
    BY <1>11, GoesOnKeeps
(* One process changes, and does not come back. *)
LEMMA ProcessWritten ==
    ASSUME TypeOK, NEW k \in 1..Len(processes), NEW p \in Process,
           p.row = processes[k].row, p.alive = "yes" => processes[k].alive = "yes",
           processes' = [processes EXCEPT ![k] = p]
    PROVE  /\ processes' \in Seq(Process) /\ Len(processes') = Len(processes)
           /\ processes'[k] = p
           /\ \A m \in 1..Len(processes) :
                /\ processes'[m].row = processes[m].row
                /\ processes'[m].alive = "yes" => processes[m].alive = "yes"
  <1>1. /\ processes' \in Seq(Process) /\ Len(processes') = Len(processes)
        /\ \A m \in 1..Len(processes) : processes'[m] = IF m = k THEN p ELSE processes[m]
    BY WriteOne DEF TypeOK
  <1> QED
    BY <1>1

LEMMA EndTyped ==
    ASSUME TypeOK, NEW k \in 1..Len(processes),
           \/ processes' = [processes EXCEPT ![k].alive = "no"]
           \/ Delete(k)
    PROVE  /\ processes' \in Seq(Process) /\ Len(processes') = Len(processes)
           /\ processes'[k].alive # "yes"
           /\ \A m \in 1..Len(processes) :
                /\ processes'[m].row = processes[m].row
                /\ processes'[m].alive = "yes" => processes[m].alive = "yes"
  <1>1. processes[k] \in Process /\ DOMAIN processes = 1..Len(processes)
    BY Domains
  <1>2. CASE processes' = [processes EXCEPT ![k].alive = "no"]
    <2>1. PICK p : p = [processes[k] EXCEPT !.alive = "no"]
      OBVIOUS
    <2>2. p \in Process /\ p.row = processes[k].row /\ p.alive = "no"
      BY <1>1, <2>1 DEF Process
    <2>3. processes' = [processes EXCEPT ![k] = p]
      BY <1>2, <2>1
    <2> QED
      BY <2>2, <2>3, ProcessWritten
  <1>3. CASE Delete(k) /\ processes' # [processes EXCEPT ![k].alive = "no"]
    <2>1. PICK p : p = [processes[k] EXCEPT
                            !.alive = IF processes[k].alive = "yes" THEN "leaked" ELSE processes[k].alive]
      OBVIOUS
    <2>2. p \in Process /\ p.row = processes[k].row /\ p.alive # "yes"
      BY <1>1, <2>1 DEF Process
    <2>3. processes' = [processes EXCEPT ![k] = p]
      BY <1>1, <1>3, <2>1 DEF Delete
    <2> QED
      BY <2>2, <2>3, ProcessWritten
  <1> QED
    BY <1>2, <1>3

LEMMA RecordKeeps == ASSUME IInv, NEW r \in Requests, Record(r) PROVE IInv'
  <1>1. /\ Holding(r) /\ request[r].pc = "record" /\ request[r].pc \in Owning
        /\ "auto" \in Owning /\ "rollback" \in Owning
        /\ UNCHANGED <<status, sealed, guard, usedKeys, stranded>>
    BY DEF Record, Holding, Guarded, Owning
  <1>2. /\ TypeOK /\ HandlersFit /\ StatusOf(request[r].row) /\ RequestInv(r)
        /\ handlers \subseteq Handler /\ faults \in 0..MaxFaults /\ stranded \subseteq 1..MaxRows
    BY <1>1, Frames, AtWork
  <1>3. CASE /\ processes' = [processes EXCEPT ![request[r].inst].record = "running"]
             /\ request' = [request EXCEPT ![r].pc = "auto"]
             /\ UNCHANGED <<handlers, faults>>
    <2>1. PICK k : k = request[r].inst
      OBVIOUS
    <2>2. k # 0 /\ k \in 1..Len(processes)
      BY <1>1, <1>2, <2>1, AtWork, Domains DEF RequestInv
    <2>3. PICK p : p = [processes[k] EXCEPT !.record = "running"]
      OBVIOUS
    <2>4. p \in Process /\ p.row = processes[k].row /\ p.alive = processes[k].alive
      BY <1>2, <2>2, <2>3, Domains DEF Process
    <2>5. processes' = [processes EXCEPT ![k] = p]
      BY <1>3, <2>1, <2>3
    <2>6. /\ processes' \in Seq(Process) /\ Len(processes') = Len(processes)
          /\ \A m \in 1..Len(processes) :
              /\ processes'[m].row = processes[m].row
              /\ processes'[m].alive = "yes" => processes[m].alive = "yes"
      BY <1>2, <2>2, <2>4, <2>5, ProcessWritten
    <2> QED
      BY <1>1, <1>2, <1>3, <2>1, <2>2, <2>6, OwnerKeeps DEF HandlersFit
  <1>4. CASE Fail(r, 0) /\ UNCHANGED processes
    <2>1. /\ faults' \in 0..MaxFaults
          /\ request' = [request EXCEPT ![r].pc = "rollback"]
          /\ handlers' \subseteq Handler
          /\ \A h \in handlers' : h.row <= Len(status) /\ h.inst <= Len(processes)
      BY <1>1, <1>4, FailTyped
    <2>2. processes' \in Seq(Process) /\ processes' = processes
      BY <1>2, <1>4 DEF TypeOK
    <2> QED
      BY <1>1, <1>2, <2>1, <2>2, OwnerKeeps
  <1> QED
    BY <1>3, <1>4 DEF Record

LEMMA AutoCompleteKeeps == ASSUME IInv, NEW r \in Requests, AutoComplete(r) PROVE IInv'
  <1>1. /\ Holding(r) /\ request[r].pc = "auto" /\ request[r].pc \in Owning
        /\ "progress" \in Owning /\ "rollback" \in Owning
        /\ UNCHANGED <<sealed, guard, usedKeys, stranded>>
    BY DEF AutoComplete, Holding, Guarded, Owning
  <1>2. /\ TypeOK /\ HandlersFit /\ RequestInv(r) /\ request[r].row \in 1..Len(status)
        /\ status' = status => StatusOf(request[r].row)
        /\ handlers \subseteq Handler /\ faults \in 0..MaxFaults /\ processes \in Seq(Process)
    BY <1>1, Frames, AtWork DEF TypeOK
  <1>3. request[r].inst # 0 /\ request[r].inst \in 1..Len(processes)
    BY <1>1, <1>2, AtWork, Domains DEF RequestInv
  <1>4. CASE /\ request' = [request EXCEPT ![r].pc = "progress"]
             /\ UNCHANGED <<status, processes, handlers, faults>>
    BY <1>1, <1>2, <1>3, <1>4, OwnerKeeps DEF HandlersFit
  <1>5. CASE /\ request' = [request EXCEPT ![r].pc = "progress"]
             /\ status' = [status EXCEPT ![request[r].row] = "completed"]
             /\ processes' = [processes EXCEPT ![request[r].inst].alive = "no"]
             /\ UNCHANGED <<handlers, faults>>
    <2>1. StatusOf(request[r].row) /\ status'[request[r].row] # "draft"
      BY <1>2, <1>5, WriteOne DEF TypeOK, StatusOf, Statuses
    <2>2. /\ processes' \in Seq(Process) /\ Len(processes') = Len(processes)
          /\ \A m \in 1..Len(processes) :
              /\ processes'[m].row = processes[m].row
              /\ processes'[m].alive = "yes" => processes[m].alive = "yes"
      BY <1>2, <1>3, <1>5, EndTyped
    <2> QED
      BY <1>1, <1>2, <1>3, <1>5, <2>1, <2>2, OwnerKeeps DEF HandlersFit
  <1>6. CASE Fail(r, request[r].inst) /\ UNCHANGED <<status, processes>>
    <2>1. /\ faults' \in 0..MaxFaults
          /\ request' = [request EXCEPT ![r].pc = "rollback"]
          /\ handlers' \subseteq Handler
          /\ \A h \in handlers' : h.row <= Len(status) /\ h.inst <= Len(processes)
      BY <1>1, <1>6, FailTyped
    <2> QED
      BY <1>1, <1>2, <1>6, <2>1, OwnerKeeps
  <1>7. CASE Abort(r, request[r].inst) /\ UNCHANGED <<status, processes, faults>>
    <2>1. /\ request' = [request EXCEPT ![r].pc = "rollback"]
          /\ handlers' \subseteq Handler
          /\ \A h \in handlers' : h.row <= Len(status) /\ h.inst <= Len(processes)
      BY <1>1, <1>7, AbortTyped
    <2> QED
      BY <1>1, <1>2, <1>7, <2>1, OwnerKeeps
  <1> QED
    BY <1>4, <1>5, <1>6, <1>7 DEF AutoComplete

LEMMA ProgressKeeps == ASSUME IInv, NEW r \in Requests, Progress(r) PROVE IInv'
  <1>1. /\ Holding(r) /\ request[r].pc = "progress" /\ request[r].pc \in Owning
        /\ UNCHANGED <<sealed, processes, guard, usedKeys, stranded>>
    BY DEF Progress, Holding, Guarded, Owning
  <1>2. /\ TypeOK /\ HandlersFit /\ request[r] \in Local /\ request[r].row \in 1..Len(status)
        /\ request[r].inst \in 0..Len(processes) /\ processes \in Seq(Process)
        /\ handlers \subseteq Handler /\ faults \in 0..MaxFaults /\ stranded \subseteq 1..MaxRows
    BY <1>1, Frames, AtWork DEF TypeOK
  <1>3. CASE /\ request' = [request EXCEPT ![r].pc = "release", ![r].ok = TRUE]
             /\ status' = [status EXCEPT ![request[r].row] = "in_progress"]
             /\ UNCHANGED <<handlers, faults>>
    <2>1. PICK n : n = [request[r] EXCEPT !.pc = "release", !.ok = TRUE]
      OBVIOUS
    <2>2. /\ n \in Local /\ n.pc = "release" /\ n.inst = request[r].inst
          /\ n.row = request[r].row /\ n.key = request[r].key /\ n.ok
      BY <1>2, <2>1 DEF Local, Steps
    <2>3. request' = [request EXCEPT ![r] = n]
      BY <1>2, <1>3, <2>1, Zenon DEF TypeOK
    <2>4. StatusOf(request[r].row) /\ status'[request[r].row] = "in_progress"
      BY <1>2, <1>3, WriteOne DEF TypeOK, StatusOf, Statuses
    <2>5. ProcessesOf(r, n) /\ Owns(r, n)
      BY <1>1, <2>2, <2>4, ProcessesStay DEF Owns
    <2>6. n.inst <= Len(processes')
      BY <1>1, <1>2, <2>2, Domains
    <2>7. GoesOn(r, n)
      BY <1>1, <1>2, <1>3, <2>2, <2>3, <2>4, <2>5, <2>6
      DEF GoesOn, HandlersFit, StatusOf, Guarded, Owning
    <2> QED
      BY <2>7, GoesOnKeeps
  <1>4. CASE Fail(r, request[r].inst) /\ UNCHANGED status
    <2>1. /\ faults' \in 0..MaxFaults
          /\ request' = [request EXCEPT ![r].pc = "rollback"]
          /\ handlers' \subseteq Handler
          /\ \A h \in handlers' : h.row <= Len(status) /\ h.inst <= Len(processes)
      BY <1>1, <1>4, FailTyped
    <2>2. StatusOf(request[r].row) /\ "rollback" \in Owning
      BY <1>4, Frames DEF Owning
    <2> QED
      BY <1>1, <1>2, <1>4, <2>1, <2>2, OwnerKeeps
  <1> QED
    BY <1>3, <1>4 DEF Progress

(* The process is ended before the request forgets it. *)
LEMMA RollbackKeeps == ASSUME IInv, NEW r \in Requests, Rollback(r) PROVE IInv'
  <1>1. /\ Holding(r) /\ request[r].pc = "rollback"
        /\ request' = [request EXCEPT ![r].pc = "read"]
        /\ IF request[r].inst = 0 THEN UNCHANGED processes ELSE Delete(request[r].inst)
        /\ UNCHANGED <<status, sealed, guard, handlers, usedKeys, stranded, faults>>
    BY DEF Rollback, Holding, Guarded
  <1>2. /\ TypeOK /\ HandlersFit /\ request[r] \in Local /\ StatusOf(request[r].row)
        /\ request[r].inst \in 0..Len(processes) /\ ~request[r].ok
        /\ handlers \subseteq Handler /\ faults \in 0..MaxFaults /\ stranded \subseteq 1..MaxRows
        /\ \A m \in 1..Len(processes) :
             processes[m].alive = "yes" /\ processes[m].row = request[r].row
             /\ OneKey(request[r].row) => request[r].inst = m
    BY <1>1, Frames, AtWork
  <1>3. PICK n : n = [request[r] EXCEPT !.pc = "read"]
    OBVIOUS
  <1>4. /\ n \in Local /\ n.pc = "read" /\ n.inst = request[r].inst
        /\ n.row = request[r].row /\ n.key = request[r].key /\ ~n.ok
    BY <1>2, <1>3 DEF Local, Steps
  <1>5. request' = [request EXCEPT ![r] = n]
    BY <1>1, <1>3, Zenon
  <1>6. /\ processes' \in Seq(Process) /\ Len(processes') = Len(processes)
        /\ request[r].inst # 0 => processes'[request[r].inst].alive # "yes"
        /\ \A m \in 1..Len(processes) :
            /\ processes'[m].row = processes[m].row
            /\ processes'[m].alive = "yes" => processes[m].alive = "yes"
    <2>1. CASE request[r].inst = 0
      BY <1>1, <1>2, <2>1 DEF TypeOK
    <2>2. CASE request[r].inst # 0
      <3>1. request[r].inst \in 1..Len(processes)
        BY <1>2, <2>2, Domains
      <3> QED
        BY <1>1, <1>2, <2>2, <3>1, EndTyped
    <2> QED
      BY <2>1, <2>2
  <1>7. ProcessesOf(r, n)
    BY <1>2, <1>6, Domains DEF ProcessesOf, TypeOK
  <1>8. Owns(r, n)
    BY <1>2, <1>6 DEF Owns
  <1>9. n.inst <= Len(processes')
    BY <1>2, <1>4, <1>6, Domains
  <1>10. GoesOn(r, n)
    BY <1>1, <1>2, <1>4, <1>5, <1>6, <1>7, <1>8, <1>9
    DEF GoesOn, HandlersFit, StatusOf, Guarded, Owning
  <1> QED
    BY <1>10, GoesOnKeeps

LEMMA StrandKeeps ==
    ASSUME IInv, NEW r \in Requests, Holding(r), request[r].pc \in {"read", "reopen"}, Strand(r),
           UNCHANGED <<sealed, processes, guard, handlers, usedKeys>>
    PROVE  IInv'
  <1>1. /\ HandlersFit /\ StatusOf(request[r].row) /\ NothingKnown(r)
        /\ handlers \subseteq Handler /\ request[r].row \in 1..MaxRows
        /\ faults \in 0..MaxFaults /\ stranded \subseteq 1..MaxRows
    BY Frames, NothingAdded, AtWork DEF Strand
  <1>2. faults' \in 0..MaxFaults /\ stranded' \subseteq 1..MaxRows
    BY <1>1, SubmissionAssumption DEF Strand, Fault
  <1>3. /\ request[r].pc \in Guarded \ (Owning \cup {"release"})
        /\ "release" \in Guarded \ (Owning \ {"rollback"})
    BY DEF Guarded, Owning
  <1> QED
    BY <1>1, <1>2, <1>3, QuietKeeps DEF Strand, HandlersFit

LEMMA ReadStatusKeeps == ASSUME IInv, NEW r \in Requests, ReadStatus(r) PROVE IInv'
  <1>1. /\ Holding(r) /\ request[r].pc = "read"
        /\ UNCHANGED <<sealed, processes, guard, handlers, usedKeys>>
    BY DEF ReadStatus, Holding, Guarded
  <1>2. ASSUME NEW pc \in {"reopen", "release"}, request' = [request EXCEPT ![r].pc = pc],
               UNCHANGED <<status, stranded, faults>>
        PROVE  IInv'
    <2>1. HandlersFit /\ StatusOf(request[r].row) /\ NothingKnown(r)
          /\ handlers \subseteq Handler /\ faults \in 0..MaxFaults /\ stranded \subseteq 1..MaxRows
      BY <1>1, <1>2, Frames, NothingAdded
    <2>2. /\ request[r].pc \in Guarded \ (Owning \cup {"release"})
          /\ pc \in Guarded \ (Owning \ {"rollback"}) /\ pc # "start"
      BY <1>1, <1>2 DEF Guarded, Owning
    <2> QED
      BY <1>1, <1>2, <2>1, <2>2, QuietKeeps DEF HandlersFit
  <1> QED
    BY <1>1, <1>2, StrandKeeps DEF ReadStatus

LEMMA ReopenKeeps == ASSUME IInv, NEW r \in Requests, Reopen(r) PROVE IInv'
  <1>1. /\ Holding(r) /\ request[r].pc = "reopen"
        /\ UNCHANGED <<sealed, processes, guard, handlers, usedKeys>>
    BY DEF Reopen, Holding, Guarded
  <1>2. CASE /\ request' = [request EXCEPT ![r].pc = "release"]
             /\ status' = [status EXCEPT ![request[r].row] = "draft"]
             /\ UNCHANGED <<stranded, faults>>
    <2>1. TypeOK /\ HandlersFit /\ request[r].row \in 1..Len(status) /\ NothingKnown(r)
          /\ handlers \subseteq Handler /\ faults \in 0..MaxFaults /\ stranded \subseteq 1..MaxRows
      BY <1>1, Frames, AtWork, NothingAdded DEF IInv
    <2>2. StatusOf(request[r].row)
      BY <1>2, <2>1, WriteOne DEF TypeOK, StatusOf, Statuses
    <2>3. /\ request[r].pc \in Guarded \ (Owning \cup {"release"})
          /\ "release" \in Guarded \ (Owning \ {"rollback"})
      BY <1>1 DEF Guarded, Owning
    <2> QED
      BY <1>1, <1>2, <2>1, <2>2, <2>3, QuietKeeps DEF HandlersFit
  <1> QED
    BY <1>1, <1>2, StrandKeeps DEF Reopen

(* A finite set of numbers that is not empty has a greatest one: of its    *)
(* subsets without one a smallest would have one without an element.       *)
LEMMA FiniteMax ==
    ASSUME NEW S \in SUBSET Nat, IsFiniteSet(S), S # {}
    PROVE  \E m \in S : \A x \in S : x <= m
  <1> DEFINE Bad == {U \in SUBSET S : U # {} /\ ~ \E m \in U : \A x \in U : x <= m}
  <1>1. SUFFICES ASSUME S \in Bad PROVE FALSE
    OBVIOUS
  <1>2. Bad \subseteq FiniteSubsetsOf(S)
    BY FS_FiniteSubsetsOfFinite
  <1>3. PICK U \in Bad : \A V \in Bad : <<V, U>> \notin StrictSubsetOrdering(S)
    BY <1>1, <1>2, WFMin, FS_StrictSubsetOrderingWellFounded
  <1>4. PICK x \in U : TRUE
    BY <1>3
  <1>5. <<U \ {x}, U>> \in StrictSubsetOrdering(S)
    BY <1>3, <1>4 DEF StrictSubsetOrdering
  <1>6. U \ {x} \notin Bad
    BY <1>3, <1>5
  <1>7. CASE U \ {x} = {}
    BY <1>3, <1>4, <1>7
  <1>8. CASE U \ {x} # {}
    <2>1. PICK m \in U \ {x} : \A y \in U \ {x} : y <= m
      BY <1>3, <1>6, <1>8
    <2>2. x \in Nat /\ m \in Nat /\ U \subseteq Nat
      BY <1>3, <1>4, <2>1
    <2>3. CASE x <= m
      BY <1>3, <2>1, <2>2, <2>3
    <2>4. CASE m < x
      <3>1. \A y \in U : y <= x
        BY <2>1, <2>2, <2>4
      <3> QED
        BY <1>3, <1>4, <3>1
    <2> QED
      BY <2>2, <2>3, <2>4
  <1> QED
    BY <1>7, <1>8

(* A draft that is found is one. *)
LEMMA LatestFound ==
    ASSUME TypeOK, Drafts # {}
    PROVE  Latest(Drafts) \in 1..Len(status) /\ status[Latest(Drafts)] = "draft"
  <1>1. Drafts \subseteq 1..Len(status) /\ Len(status) \in Nat
    BY Domains DEF Drafts, Rows
  <1>2. Drafts \in SUBSET Nat /\ IsFiniteSet(Drafts)
    <2>1. IsFiniteSet(1..Len(status))
      BY <1>1, FS_Interval
    <2>2. IsFiniteSet(Drafts)
      BY <1>1, <2>1, FS_Subset
    <2> QED
      BY <1>1, <2>2
  <1>3. PICK m \in Drafts : \A u \in Drafts : u <= m
    BY <1>2, FiniteMax
  <1>4. Latest(Drafts) \in Drafts
    BY <1>3 DEF Latest
  <1> QED
    BY <1>1, <1>4 DEF Drafts

LEMMA BeginKeeps == ASSUME IInv, NEW r \in Requests, Begin(r) PROVE IInv'
  <1>1. TypeOK /\ request[r].pc = "idle"
    BY DEF IInv, Begin
  <1>2. PICK k \in Keys \cup {NoKey} :
            request' = [request EXCEPT ![r] = [Idle EXCEPT !.pc = "find", !.key = k]]
    BY DEF Begin
  <1>3. PICK n : n = [Idle EXCEPT !.pc = "find", !.key = k]
    OBVIOUS
  <1>4. n \in Local /\ n.pc = "find" /\ n.row = 0 /\ n.inst = 0 /\ ~n.ok
    <2>1. n = [pc |-> "find", key |-> k, row |-> 0, inst |-> 0, ok |-> FALSE]
      BY <1>3 DEF Idle
    <2>2. 0 \in 0..MaxRows /\ 0 \in 0..MaxStarts
      BY <1>1, Domains
    <2> QED
      BY <2>1, <2>2 DEF Local, Steps
  <1>5. Arrives(r, n)
    <2>1. request' = [request EXCEPT ![r] = n]
      BY <1>2, <1>3
    <2>2. n.row <= Len(status) /\ n.inst <= Len(processes)
      BY <1>1, <1>4, Domains
    <2> QED
      BY <1>1, <1>4, <2>1, <2>2 DEF Begin, Arrives, Holding, Guarded
  <1> QED
    BY <1>5, ArrivesKeeps

LEMMA FindDraftKeeps == ASSUME IInv, NEW r \in Requests, FindDraft(r) PROVE IInv'
  <1>1. /\ TypeOK /\ request[r].pc = "find" /\ request[r] \in Local
        /\ request[r].row = 0 /\ request[r].inst <= Len(processes) /\ ~request[r].ok
    BY DEF IInv, TypeOK, FindDraft, RequestInv
  <1>2. UNCHANGED <<status, sealed, processes, guard, handlers, usedKeys, stranded, faults>>
    BY DEF FindDraft
  <1>3. CASE Drafts = {}
    <2>1. PICK n : n = [request[r] EXCEPT !.pc = "create"]
      OBVIOUS
    <2>2. n \in Local /\ n.pc = "create" /\ n.row = 0 /\ n.inst = request[r].inst /\ ~n.ok
      BY <1>1, <2>1 DEF Local, Steps
    <2>3. request' = [request EXCEPT ![r] = n]
      BY <1>3, <2>1, Zenon DEF FindDraft
    <2>4. Arrives(r, n)
      BY <1>1, <1>2, <2>2, <2>3, Domains DEF Arrives, Holding, Guarded
    <2> QED
      BY <2>4, ArrivesKeeps
  <1>4. CASE Drafts # {}
    <2>1. PICK t : t = Latest(Drafts)
      OBVIOUS
    <2>2. t \in 1..Len(status) /\ status[t] = "draft" /\ t \in 1..MaxRows
      BY <1>1, <1>4, <2>1, LatestFound, Domains
    <2>3. PICK n : n = [request[r] EXCEPT !.pc = "guard", !.row = t]
      OBVIOUS
    <2>4. n \in Local /\ n.pc = "guard" /\ n.row = t /\ n.inst = request[r].inst /\ ~n.ok
      <3>1. t \in 0..MaxRows
        BY <2>2
      <3> QED
        BY <1>1, <2>3, <3>1 DEF Local, Steps
    <2>5. request' = [request EXCEPT ![r] = n]
      BY <1>1, <1>4, <2>1, <2>3, Zenon DEF FindDraft, TypeOK
    <2>6. Arrives(r, n)
      BY <1>1, <1>2, <2>2, <2>4, <2>5, Domains DEF Arrives, Holding, Guarded
    <2> QED
      BY <2>6, ArrivesKeeps
  <1> QED
    BY <1>3, <1>4

LEMMA IdleArrives ==
    ASSUME IInv, NEW r \in Requests, ~Holding(r), request' = [request EXCEPT ![r] = Idle],
           UNCHANGED <<status, sealed, processes, guard, handlers, usedKeys, stranded, faults>>
    PROVE  IInv'
  <1>1. TypeOK
    BY DEF IInv
  <1>2. PICK n : n = Idle
    OBVIOUS
  <1>3. n \in Local /\ n.pc = "idle" /\ n.row = 0 /\ n.inst = 0 /\ ~n.ok
    BY <1>1, <1>2, Domains DEF Idle, Local, Steps
  <1>4. Arrives(r, n)
    BY <1>1, <1>2, <1>3, Domains DEF Arrives
  <1> QED
    BY <1>4, ArrivesKeeps

LEMMA CreateDraftKeeps == ASSUME IInv, NEW r \in Requests, CreateDraft(r) PROVE IInv'
  <1>1. /\ TypeOK /\ request[r].pc = "create" /\ request[r] \in Local
        /\ request[r].row = 0 /\ request[r].inst <= Len(processes) /\ ~request[r].ok
        /\ UNCHANGED <<sealed, processes, guard, handlers, usedKeys, stranded, faults>>
    BY DEF IInv, TypeOK, CreateDraft, RequestInv
  <1>2. CASE Len(status) < MaxRows
    <2>1. PICK t : t = Len(status) + 1
      OBVIOUS
    <2>2. PICK n : n = [request[r] EXCEPT !.pc = "guard", !.row = t]
      OBVIOUS
    <2>3. t \in 1..MaxRows
      BY <1>1, <1>2, <2>1, Domains
    <2>4. n \in Local /\ n.pc = "guard" /\ n.row = t /\ n.inst = request[r].inst /\ ~n.ok
      <3>1. t \in 0..MaxRows
        BY <2>3
      <3> QED
        BY <1>1, <2>2, <3>1 DEF Local, Steps
    <2>5. request' = [request EXCEPT ![r] = n] /\ status' = Append(status, "draft")
      BY <1>1, <1>2, <2>1, <2>2, Zenon DEF CreateDraft, TypeOK
    <2>6. status'[t] = "draft" /\ Len(status') = t
      BY <1>1, <2>1, <2>5, AppendProperties DEF TypeOK, Statuses
    <2>7. Arrives(r, n)
      BY <1>1, <1>2, <2>3, <2>4, <2>5, <2>6 DEF Arrives, Holding, Guarded
    <2> QED
      BY <2>7, ArrivesKeeps
  <1>3. CASE ~(Len(status) < MaxRows)
    BY <1>1, <1>3, IdleArrives DEF CreateDraft, Holding, Guarded
  <1> QED
    BY <1>2, <1>3

LEMMA TakeGuardKeeps == ASSUME IInv, NEW r \in Requests, TakeGuard(r) PROVE IInv'
  <1>1. CASE GuardKey(r) \notin guard.replay /\ GuardFree(r)
    BY <1>1, TakeKeeps DEF TakeGuard, GuardFree
  <1>2. CASE ~(GuardKey(r) \notin guard.replay /\ GuardFree(r))
    BY <1>2, IdleArrives DEF TakeGuard, Holding, Guarded
  <1> QED
    BY <1>1, <1>2

LEMMA HandleKeeps == ASSUME IInv, NEW h \in handlers, Handle(h) PROVE IInv'
  <1>1. /\ TypeOK /\ h \in Handler /\ h.row \in 1..Len(status)
        /\ h.inst \in 0..Len(processes) /\ h.inst \in 0..MaxStarts
        /\ handlers \subseteq Handler /\ HandlersFit
    <2>1. TypeOK /\ HandlersFit /\ h \in Handler
      BY DEF IInv, TypeOK
    <2> QED
      BY <2>1, Domains DEF HandlersFit, Handler, TypeOK
  <1>2. /\ status \in Seq(Statuses) /\ processes \in Seq(Process)
        /\ UNCHANGED <<sealed, guard, request, usedKeys, stranded, faults>>
    BY <1>1 DEF TypeOK, Handle, HandlerDeletes, HandlerReads, HandlerRejects
  <1>3. ASSUME NEW g \in Handler, g.row = h.row, g.inst \in 0..Len(processes),
               handlers' \subseteq handlers \cup {g}
        PROVE  /\ handlers' \subseteq Handler
               /\ \A x \in handlers' : x.row <= Len(status) /\ x.inst <= Len(processes)
    BY <1>1, <1>3, Domains DEF HandlersFit
  <1>4. CASE HandlerDeletes(h)
    <2>1. CASE Move(h, "read") /\ UNCHANGED processes
      <3>1. PICK g : g = [h EXCEPT !.pc = "read"]
        OBVIOUS
      <3>2. g \in Handler /\ g.row = h.row /\ g.inst = h.inst
        BY <1>1, <3>1 DEF Handler
      <3>3. handlers' \subseteq handlers \cup {g}
        BY <2>1, <3>1 DEF Move
      <3>4. HandlerGoesOn
        BY <1>1, <1>2, <1>3, <1>4, <2>1, <3>2, <3>3 DEF HandlerGoesOn, HandlerDeletes
      <3> QED
        BY <3>4, HandlerKeeps
    <2>2. ASSUME NEW k \in Instances(h),
                 IF processes[k].record = "cancelled" THEN UNCHANGED processes ELSE Delete(k),
                 handlers' = (handlers \ {h}) \cup {[h EXCEPT !.inst = k, !.pc = "read"]}
          PROVE  IInv'
      <3>1. k \in 1..Len(processes) /\ k \in 0..Len(processes) /\ k \in 0..MaxStarts
        BY <1>1, Domains DEF Instances
      <3>2. PICK g : g = [h EXCEPT !.inst = k, !.pc = "read"]
        OBVIOUS
      <3>3. g \in Handler /\ g.row = h.row /\ g.inst = k
        BY <1>1, <3>1, <3>2 DEF Handler
      <3>4. handlers' \subseteq handlers \cup {g}
        BY <2>2, <3>2
      <3>5. /\ processes' \in Seq(Process) /\ Len(processes') = Len(processes)
            /\ \A m \in 1..Len(processes) :
                 /\ processes'[m].row = processes[m].row
                 /\ processes'[m].alive = "yes" => processes[m].alive = "yes"
        <4>1. CASE UNCHANGED processes
          BY <1>2, <4>1
        <4>2. CASE Delete(k)
          BY <1>1, <3>1, <4>2, EndTyped
        <4> QED
          BY <2>2, <4>1, <4>2
      <3>6. HandlerGoesOn
        BY <1>1, <1>2, <1>3, <1>4, <3>1, <3>3, <3>4, <3>5 DEF HandlerGoesOn, HandlerDeletes
      <3> QED
        BY <3>6, HandlerKeeps
    <2> QED
      BY <1>4, <2>1, <2>2 DEF HandlerDeletes
  <1>5. CASE HandlerReads(h)
    <2>1. PICK g : g = [h EXCEPT !.pc = "write"]
      OBVIOUS
    <2>2. g \in Handler /\ g.row = h.row /\ g.inst = h.inst
      BY <1>1, <2>1 DEF Handler
    <2>3. handlers' \subseteq handlers \cup {g} /\ UNCHANGED <<status, processes>>
      BY <1>5, <2>1 DEF HandlerReads, Move
    <2>4. HandlerGoesOn
      BY <1>1, <1>2, <1>3, <2>2, <2>3 DEF HandlerGoesOn
    <2> QED
      BY <2>4, HandlerKeeps
  <1>6. CASE HandlerRejects(h)
    <2>1. /\ status' \in Seq(Statuses) /\ Len(status') = Len(status)
          /\ \A u \in 1..Len(status) : status'[u] \in {status[u], "rejected"}
      BY <1>1, <1>2, <1>6, WriteOne DEF HandlerRejects, Statuses
    <2>2. /\ processes' \in Seq(Process) /\ Len(processes') = Len(processes)
          /\ \A m \in 1..Len(processes) :
               /\ processes'[m].row = processes[m].row
               /\ processes'[m].alive = "yes" => processes[m].alive = "yes"
      <3>1. CASE h.inst = 0
        BY <1>2, <1>6, <3>1 DEF HandlerRejects
      <3>2. CASE h.inst # 0
        <4>1. PICK k : k = h.inst
          OBVIOUS
        <4>2. k \in 1..Len(processes)
          BY <1>1, <3>2, <4>1, Domains
        <4>3. PICK p : p = [processes[k] EXCEPT !.record = "cancelled"]
          OBVIOUS
        <4>4. p \in Process /\ p.row = processes[k].row /\ p.alive = processes[k].alive
          BY <1>1, <4>2, <4>3, Domains DEF Process
        <4>5. processes' = [processes EXCEPT ![k] = p]
          BY <1>6, <3>2, <4>1, <4>3 DEF HandlerRejects
        <4> QED
          BY <1>1, <4>2, <4>4, <4>5, ProcessWritten
      <3> QED
        BY <3>1, <3>2
    <2>3. handlers' \subseteq handlers
      BY <1>6 DEF HandlerRejects
    <2>4. HandlerGoesOn
      BY <1>1, <1>2, <2>1, <2>2, <2>3 DEF HandlerGoesOn, HandlersFit
    <2> QED
      BY <2>4, HandlerKeeps
  <1> QED
    BY <1>4, <1>5, <1>6 DEF Handle

-----------------------------------------------------------------------------

LEMMA InitInvariant == Init => IInv
  <1> SUFFICES ASSUME Init PROVE IInv
    OBVIOUS
  <1> USE DEF Init
  <1>1. MaxRows \in Nat /\ MaxStarts \in Nat /\ MaxFaults \in Nat
    BY SubmissionAssumption
  <1>2. /\ status \in Seq(Statuses) /\ processes \in Seq(Process)
        /\ Len(status) = 0 /\ Len(processes) = 0 /\ DOMAIN processes = {}
    <2>1. /\ status \in Seq(Statuses) /\ processes \in Seq(Process)
          /\ Len(status) = 0 /\ Len(processes) = 0
      BY EmptySeq
    <2>2. DOMAIN processes = 1..0
      BY <2>1, LenProperties
    <2> QED
      BY <2>1, <2>2
  <1>3. Idle \in Local /\ Idle.row = 0 /\ Idle.inst = 0 /\ ~Idle.ok /\ Idle.pc = "idle"
    BY <1>1 DEF Idle, Local, Steps
  <1>4. \A r \in Requests : request[r] = Idle
    OBVIOUS
  <1>5. TypeOK
    <2>1. /\ request \in [Requests -> Local] /\ usedKeys \in [1..MaxRows -> SUBSET GuardKeys]
          /\ guard \in [inFlight : SUBSET GuardKeys, replay : SUBSET GuardKeys]
      BY <1>3
    <2>2. Len(status) <= MaxRows /\ Len(processes) <= MaxStarts /\ faults \in 0..MaxFaults
          /\ stranded \subseteq 1..MaxRows
      BY <1>1, <1>2
    <2>3. \A r \in Requests : request[r].row <= Len(status) /\ request[r].inst <= Len(processes)
      BY <1>2, <1>3, <1>4
    <2> QED
      BY <1>2, <2>1, <2>2, <2>3 DEF TypeOK
  <1>6. \A r \in Requests : RequestInv(r) /\ AnswerInv(r) /\ ~Holding(r)
    BY <1>3, <1>4 DEF RequestInv, AnswerInv, Holding, Guarded, Owning
  <1> QED
    BY <1>2, <1>5, <1>6 DEF IInv, HandlersFit, Exclusive, RunsOnce

LEMMA NextInvariant == IInv /\ [Next]_vars => IInv'
  <1> SUFFICES ASSUME IInv, [Next]_vars PROVE IInv'
    OBVIOUS
  <1>1. ASSUME NEW r \in Requests, Begin(r) PROVE IInv'
    BY <1>1, BeginKeeps
  <1>2. ASSUME NEW r \in Requests, Step(r) PROVE IInv'
    BY <1>2, FindDraftKeeps, CreateDraftKeeps, TakeGuardKeeps, CheckKeeps, StoreKeeps,
       StartKeeps, RecordKeeps, AutoCompleteKeeps, ProgressKeeps, RollbackKeeps,
       ReadStatusKeeps, ReopenKeeps, ReleaseKeeps DEF Step
  <1>3. ASSUME NEW h \in handlers, Handle(h) PROVE IInv'
    BY <1>3, HandleKeeps
  <1>4. CASE Crash
    BY <1>4, CrashKeeps
  <1>5. CASE UNCHANGED vars
    <2> USE <1>5 DEF vars, Holding, GuardKey, OneKey
    <2>1. TypeOK' /\ HandlersFit'
      BY DEF IInv, TypeOK, HandlersFit, Rows
    <2>2. \A r \in Requests : RequestInv(r)' /\ AnswerInv(r)'
      BY DEF IInv, RequestInv, AnswerInv
    <2>3. \A n \in DOMAIN processes' : ProcessInv(n)'
      BY DEF IInv, ProcessInv, At, Refused
    <2>4. Exclusive' /\ RunsOnce'
      BY DEF IInv, Exclusive, RunsOnce
    <2> QED
      BY <2>1, <2>2, <2>3, <2>4 DEF IInv
  <1> QED
    BY <1>1, <1>2, <1>3, <1>4, <1>5 DEF Next

LEMMA Invariant == Spec => []IInv
  <1> QED
    BY InitInvariant, NextInvariant, PTL DEF Spec

-----------------------------------------------------------------------------
(***************************************************************************)
(* Every state is of its type: no request, process or handler refers to a  *)
(* transaction or process that is not there, under any schedule.           *)
(***************************************************************************)
THEOREM TypeCorrect == Spec => []TypeOK
  <1>1. IInv => TypeOK
    BY DEF IInv
  <1> QED
    BY <1>1, Invariant, PTL

(***************************************************************************)
(* A transaction submitted with one key runs in Camunda at most once, for  *)
(* any number of requests, transactions, starts, failures and restarts     *)
(* (submitTransaction under its guard, startWorkflow, its compensation),   *)
(* but for processes whose start was never answered or whose deletion has  *)
(* failed.                                                                 *)
(***************************************************************************)
THEOREM RunsAtMostOnce == Spec => []RunsOnce
  <1>1. IInv => RunsOnce
    BY DEF IInv
  <1> QED
    BY <1>1, Invariant, PTL

(***************************************************************************)
(* Whoever was told that a submission under one key has succeeded does not *)
(* find it as a draft or submitted again.                                  *)
(***************************************************************************)
THEOREM AnswersHold == Spec => []AnswerHolds
  <1>1. IInv => AnswerHolds
    BY DEF IInv, AnswerInv, AnswerHolds, RequestInv
  <1> QED
    BY <1>1, Invariant, PTL
=============================================================================
