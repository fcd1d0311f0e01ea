-------------------------- MODULE ServiceTasksProofs --------------------------
(***************************************************************************)
(* Service tasks are claimed before they are run, and no process runs one  *)
(* twice while nothing fails, for any instances, requests and restarts.    *)
(*                                                                         *)
(* The argument: who holds the present version of the row works on data    *)
(* with all of its claims, but those a request missed between its reading  *)
(* and its first write, and anybody else merges.  So the other claims      *)
(* stay, and what a process finds pending among them it has not run.       *)
(***************************************************************************)
EXTENDS ServiceTasks, FiniteSetTheorems, TLAPS

(* Who is up to date has all of the row's claims but the missed ones.      *)
Holder(p) ==
    /\ proc[p].pc \notin {"idle", "done"}
    /\ p = Job => proc[p].pc # "loaded"
    /\ proc[p].pc # "leaving" => row.claimed \subseteq proc[p].data.claimed \cup missed

(* The steps at which a process has data from the row and no claims yet.   *)
Reading(p) ==
    \/ proc[p].pc \in {"saved", "marking", "history"}
    \/ proc[p].pc = "loaded" /\ p # Job

LocalInv(p) ==
    /\ p \in current => Holder(p)
    /\ proc[p].pc = "claiming" => proc[p].pending \subseteq proc[p].data.claimed
    /\ failures = 0 =>
         /\ proc[p].pc = "running" => proc[p].pending \subseteq row.claimed \cup missed
         /\ proc[p].pc \in {"reread", "claiming", "running"} =>
                \A i \in proc[p].pending \ missed : ran[p][i] = 0
         /\ Reading(p) =>
                \A i \in Items \ missed : ran[p][i] > 0 => i \in proc[p].data.claimed

IInv ==
    /\ TypeOK
    /\ \A p \in Procs : LocalInv(p)
    /\ RunIsClaimed
    /\ OncePerProcess

(* What ClaimsKept says of a step.                                         *)
Kept == failures' = failures => row.claimed \ row'.claimed \subseteq missed

-----------------------------------------------------------------------------
(* The operators of the runner                                             *)

(* Among instances there is one that ended last: of the sets without one a *)
(* smallest would have one without an instance.                            *)
LEMMA LatestEnd ==
    ASSUME TypeOK, NEW S \in SUBSET Items, S # {}
    PROVE  \E i \in S : \A j \in S : ended[j] <= ended[i]
  <1> DEFINE Bad == {U \in SUBSET S : U # {} /\ ~ \E i \in U : \A j \in U : ended[j] <= ended[i]}
  <1>1. SUFFICES ASSUME S \in Bad PROVE FALSE
    OBVIOUS
  <1>2. IsFiniteSet(S)
    BY FS_Subset, ServiceTasksAssumption
  <1>3. Bad \subseteq FiniteSubsetsOf(S)
    BY <1>2, FS_FiniteSubsetsOfFinite
  <1>4. PICK U \in Bad : \A V \in Bad : <<V, U>> \notin StrictSubsetOrdering(S)
    BY <1>1, <1>3, WFMin, FS_StrictSubsetOrderingWellFounded
  <1>5. PICK x \in U : TRUE
    BY <1>4
  <1>6. <<U \ {x}, U>> \in StrictSubsetOrdering(S)
    BY <1>4, <1>5 DEF StrictSubsetOrdering
  <1>7. U \ {x} \notin Bad
    BY <1>4, <1>6
  <1>8. \A i \in U : ended[i] \in Nat
    BY <1>4, ServiceTasksAssumption DEF TypeOK
  <1>9. CASE U \ {x} = {}
    BY <1>4, <1>5, <1>8, <1>9
  <1>10. CASE U \ {x} # {}
    <2>1. PICK m \in U \ {x} : \A j \in U \ {x} : ended[j] <= ended[m]
      BY <1>4, <1>7, <1>10
    <2>2. CASE ended[x] <= ended[m]
      BY <1>4, <1>5, <1>8, <2>1, <2>2
    <2>3. CASE ended[m] < ended[x]
      <3>1. \A j \in U : ended[j] <= ended[x]
        BY <1>5, <1>8, <2>1, <2>3
      <3> QED
        BY <1>4, <1>5, <3>1
    <2> QED
      BY <1>5, <1>8, <2>1, <2>2, <2>3
  <1> QED
    BY <1>9, <1>10

LEMMA Bounds == Horizon \in Nat /\ LastEnd \in Nat /\ LastEnd < Horizon
  BY ServiceTasksAssumption DEF Horizon

LEMMA WatermarkType ==
    ASSUME TypeOK, NEW mark \in 0..Horizon, NEW S \in SUBSET Items
    PROVE  Watermark(mark, S) \in 0..Horizon
  <1>1. CASE S = {}
    BY <1>1, Bounds DEF Watermark, TypeOK
  <1>2. CASE S # {}
    <2>1. PICK T : T = {ended[i] : i \in S}
      OBVIOUS
    <2>2. \E t \in T : \A i \in S : ended[i] <= t
      BY <1>2, <2>1, LatestEnd
    <2>3. PICK t : t = CHOOSE u \in T : \A i \in S : ended[i] <= u
      OBVIOUS
    <2>4. t \in T
      BY <2>2, <2>3
    <2>5. t \in 0..Horizon
      BY <2>1, <2>4, Bounds DEF TypeOK
    <2>6. Watermark(mark, S) = Later(mark, t)
      BY <1>2, <2>1, <2>3 DEF Watermark
    <2> QED
      BY <2>5, <2>6 DEF Later
  <1> QED
    BY <1>1, <1>2

LEMMA ClaimedType ==
    ASSUME TypeOK, NEW d \in Data, NEW S \in SUBSET Items
    PROVE  /\ Claimed(d, S) \in Data
           /\ Claimed(d, S).claimed = d.claimed \cup S
  <1>1. Watermark(d.mark, S) \in 0..Horizon
    BY WatermarkType DEF Data
  <1>2. PICK m : m = Watermark(d.mark, S)
    OBVIOUS
  <1>3. Claimed(d, S) = [d EXCEPT !.claimed = d.claimed \cup S, !.mark = m]
    BY <1>2 DEF Claimed, Data
  <1> QED
    BY <1>1, <1>2, <1>3 DEF Data

(* Preparing and claiming forget no claim.                                 *)
LEMMA PreparedType ==
    ASSUME TypeOK, NEW d \in Data
    PROVE  /\ Prepared(d, "sync") \in Data
           /\ d.claimed \subseteq Prepared(d, "sync").claimed
  <1>1. Finished \in SUBSET Items
    BY DEF Finished
  <1>2. Watermark(0, Finished) \in 0..Horizon
    BY <1>1, WatermarkType, Bounds
  <1>3. PICK m : m = Watermark(0, Finished)
    OBVIOUS
  <1>4. Bootstrap(d) \in Data /\ d.claimed \subseteq Bootstrap(d).claimed
    <2>1. Bootstrap(d) = IF d.mark > 0 THEN d
                         ELSE [d EXCEPT !.claimed = d.claimed \cup Finished, !.mark = m]
      BY <1>3 DEF Bootstrap, Data
    <2> QED
      BY <1>1, <1>2, <1>3, <2>1 DEF Data
  <1>5. PICK b : b = Bootstrap(d)
    OBVIOUS
  <1>6. PICK S : S = {i \in Finished : now - ended[i] > Stale}
    OBVIOUS
  <1>7. SkipStale(b) = [b EXCEPT !.claimed = b.claimed \cup S]
    BY <1>4, <1>5, <1>6 DEF SkipStale, Data
  <1>8. S \subseteq Items
    BY <1>1, <1>6
  <1> QED
    BY <1>4, <1>5, <1>7, <1>8 DEF Prepared, Data

LEMMA MergeType ==
    ASSUME NEW fresh \in Data, NEW d \in Data
    PROVE  /\ MergeTracking(fresh, d) \in Data /\ MergeComplete(fresh, d) \in Data
           /\ MergeTracking(fresh, d).claimed = fresh.claimed \cup d.claimed
           /\ MergeComplete(fresh, d).claimed = fresh.claimed \cup d.claimed
  <1>1. PICK m : m = Later(fresh.mark, d.mark)
    OBVIOUS
  <1>2. m \in 0..Horizon
    BY <1>1 DEF Later, Data
  <1>3. PICK t : t = MergeTracking(fresh, d)
    OBVIOUS
  <1>4. t = [fresh EXCEPT !.claimed = fresh.claimed \cup d.claimed, !.mark = m]
    BY <1>1, <1>3 DEF MergeTracking, Data
  <1>5. t \in Data /\ t.claimed = fresh.claimed \cup d.claimed
    BY <1>2, <1>4 DEF Data
  <1>6. MergeComplete(fresh, d) =
            [t EXCEPT !.recorded = t.recorded \/ d.recorded, !.served = t.served \/ d.served]
    BY <1>3, <1>5 DEF MergeComplete, Data
  <1> QED
    BY <1>3, <1>5, <1>6 DEF Data

(* What is stored has the writer's claims and those of the row that were   *)
(* not missed.                                                             *)
LEMMA StoredClaims ==
    ASSUME IInv, NEW p \in Procs, NEW d \in Data, NEW merged \in Data,
           p \in current => row.claimed \subseteq d.claimed \cup missed,
           merged.claimed = row.claimed \cup d.claimed
    PROVE  /\ StoredRow(p, d, merged) \in Data
           /\ d.claimed \subseteq StoredRow(p, d, merged).claimed
           /\ row.claimed \subseteq StoredRow(p, d, merged).claimed \cup missed
  BY DEF StoredRow

LEMMA RestType == \A p : Rest(p) \in Local
  BY Bounds DEF Rest, Local, Steps, Blank, Data
LEMMA InitInvariant == Init => IInv
  <1> SUFFICES ASSUME Init PROVE IInv
    OBVIOUS
  <1> USE DEF Init
  <1>1. TypeOK
    <2>1. Blank \in Data /\ 1 \in 1..Horizon
      BY Bounds DEF Blank, Data
    <2>2. proc \in [Procs -> Local]
      BY RestType
    <2> QED
      BY <2>1, <2>2, Bounds, ServiceTasksAssumption DEF TypeOK
  <1>2. \A p \in Procs : LocalInv(p)
    BY DEF LocalInv, Reading, Rest
  <1> QED
    BY <1>1, <1>2 DEF IInv, RunIsClaimed, OncePerProcess

-----------------------------------------------------------------------------
(* Steps of a process and of the rest of the world                         *)

WorldTyped ==
    /\ row' \in Data /\ current' \subseteq Procs
    /\ open' \in BOOLEAN /\ ended' \in [Items -> 0..LastEnd]
    /\ completed' \subseteq Requests /\ now' \in 1..Horizon
    /\ crashes' \in 0..MaxCrashes
    /\ failures' \in 0..MaxFailures /\ failures <= failures'
    /\ missed' \subseteq Items /\ missed \subseteq missed'

(* Whoever writes is the only one who is up to date afterwards.            *)
WriterAlone(p) ==
    \/ row' = row /\ current' \subseteq current \cup {p}
    \/ current' \subseteq {p}

LEMMA OthersKeep ==
    ASSUME IInv, Kept, NEW p, NEW q \in Procs, q # p, proc'[q] = proc[q], ran'[q] = ran[q],
           WriterAlone(p), missed \subseteq missed', failures \in Nat, failures' \in Nat, failures <= failures'
    PROVE  LocalInv(q)'
  <1>1. LocalInv(q)
    BY DEF IInv
  <1>2. (q \in current => Holder(q))'
    BY <1>1 DEF LocalInv, WriterAlone, Holder
  <1>3. failures' = 0 => failures = 0 /\ failures' = failures
    OBVIOUS
  <1> QED
    BY <1>1, <1>2, <1>3 DEF LocalInv, Reading, Kept

(* Process p goes on as n and runs nothing.                                *)
LEMMA StepKeeps ==
    ASSUME IInv, NEW p \in Procs, NEW n \in Local, proc' = [proc EXCEPT ![p] = n],
           ran' = ran, WorldTyped, Kept, WriterAlone(p), LocalInv(p)'
    PROVE  IInv'
  <1>1. TypeOK /\ RunIsClaimed /\ OncePerProcess
    BY DEF IInv
  <1>2. TypeOK'
    BY <1>1 DEF TypeOK, WorldTyped
  <1>3. \A q \in Procs : q # p => proc'[q] = proc[q] /\ ran'[q] = ran[q]
    BY <1>1 DEF TypeOK
  <1>4. failures \in Nat /\ failures' \in Nat /\ failures <= failures' /\ missed \subseteq missed'
    BY <1>1, ServiceTasksAssumption DEF TypeOK, WorldTyped
  <1>5. \A q \in Procs : LocalInv(q)'
    BY <1>3, <1>4, OthersKeep
  <1>6. RunIsClaimed' /\ OncePerProcess'
    <2>1. failures' = 0 => failures = 0 /\ row.claimed \ row'.claimed \subseteq missed
      BY <1>4 DEF Kept
    <2> QED
      BY <1>1, <1>4, <2>1 DEF RunIsClaimed, OncePerProcess
  <1> QED
    BY <1>2, <1>5, <1>6 DEF IInv

(* The processes stay as they are and nobody writes.                       *)
LEMMA WorldKeeps ==
    ASSUME IInv, UNCHANGED <<row, current, proc, ran, missed, failures>>, WorldTyped
    PROVE  IInv' /\ Kept
  <1>1. TypeOK /\ RunIsClaimed /\ OncePerProcess
    BY DEF IInv
  <1>2. TypeOK'
    BY <1>1 DEF TypeOK, WorldTyped
  <1>3. \A q \in Procs : LocalInv(q)'
    BY DEF IInv, LocalInv, Holder, Reading
  <1> QED
    BY <1>1, <1>2, <1>3 DEF IInv, RunIsClaimed, OncePerProcess, Kept

LEMMA Unmoved ==
    ASSUME IInv, UNCHANGED <<row, open, ended, completed, now, missed, failures, crashes>>,
           current' \subseteq Procs
    PROVE  WorldTyped /\ Kept
  <1>1. TypeOK
    BY DEF IInv
  <1> QED
    BY <1>1, ServiceTasksAssumption DEF TypeOK, WorldTyped, Kept

(* Process p is through: it has nothing more to write.                     *)
LEMMA RestKeeps ==
    ASSUME IInv, NEW p \in Procs, NEW n \in Local, proc' = [proc EXCEPT ![p] = n],
           n.pc \in {"idle", "done"} \/ (p = Job /\ n.pc = "loaded"),
           p \notin current', ran' = ran, WorldTyped, Kept, WriterAlone(p)
    PROVE  IInv'
  <1>1. proc'[p] = n
    BY DEF IInv, TypeOK
  <1>2. LocalInv(p)'
    BY <1>1 DEF LocalInv, Reading
  <1> QED
    BY <1>2, StepKeeps

-----------------------------------------------------------------------------
(* The actions, one by one                                                 *)

LEMMA TaskCompletedType ==
    ASSUME TypeOK, NEW r \in Requests, TaskCompleted(r)
    PROVE  completed' \subseteq Requests /\ ended' \in [Items -> 0..LastEnd]
  BY ServiceTasksAssumption DEF TaskCompleted, TypeOK

LEMMA CompleteKeeps ==
    ASSUME IInv, NEW r \in Requests, CompleteInCamunda(r) PROVE IInv' /\ Kept
  <1>1. TypeOK /\ LocalInv(r) /\ r \in Procs /\ r # Job /\ proc[r] \in Local
        /\ proc[r].data \in Data
    BY ServiceTasksAssumption DEF IInv, TypeOK, Procs, Local
  <1>2. PICK d : d = [proc[r].data EXCEPT !.recorded = TRUE, !.served = FALSE]
    OBVIOUS
  <1>3. d \in Data /\ d.claimed = proc[r].data.claimed
    BY <1>1, <1>2 DEF Data
  <1>4. PICK n : n = [proc[r] EXCEPT !.pc = "marking", !.data = d, !.kept = d]
    OBVIOUS
  <1>5. /\ n \in Local /\ n.pc = "marking" /\ n.data = d
    BY <1>1, <1>3, <1>4 DEF Local, Steps
  <1>6. proc' = [proc EXCEPT ![r] = n] /\ proc'[r] = n
    <2>1. proc' = [proc EXCEPT ![r] = n]
      BY <1>1, <1>2, <1>4, Zenon DEF CompleteInCamunda, TypeOK
    <2> QED
      BY <1>1, <2>1 DEF TypeOK
  <1>7. WorldTyped /\ Kept
    <2>1. completed' \subseteq Requests /\ ended' \in [Items -> 0..LastEnd]
      BY <1>1, TaskCompletedType DEF CompleteInCamunda
    <2> QED
      BY <1>1, <2>1, ServiceTasksAssumption DEF CompleteInCamunda, TypeOK, WorldTyped, Kept
  <1>8. LocalInv(r)'
    <2>1. proc[r].pc = "saved"
      BY DEF CompleteInCamunda, TaskCompleted
    <2> QED
      BY <1>1, <1>3, <1>5, <1>6, <2>1 DEF CompleteInCamunda, LocalInv, Holder, Reading
  <1>9. WriterAlone(r) /\ ran' = ran
    BY DEF CompleteInCamunda, WriterAlone
  <1> QED
    BY <1>1, <1>5, <1>6, <1>7, <1>8, <1>9, StepKeeps

(* A request that ends without an answer of Camunda writes nothing.        *)
LEMMA CamundaFailsKeeps ==
    ASSUME IInv, NEW r \in Requests, CamundaFails(r) PROVE IInv' /\ Kept
  <1>1. TypeOK /\ r \in Procs
    BY DEF IInv, Procs
  <1>2. PICK n : n = [Rest(r) EXCEPT !.pc = "done"]
    OBVIOUS
  <1>3. n \in Local /\ n.pc = "done" /\ proc' = [proc EXCEPT ![r] = n]
    BY <1>2, RestType DEF CamundaFails, Local, Steps
  <1>4. completed' \subseteq Requests /\ ended' \in [Items -> 0..LastEnd]
    BY <1>1, TaskCompletedType DEF CamundaFails, TypeOK
  <1>5. failures' \in 0..MaxFailures /\ failures <= failures'
    BY <1>1, ServiceTasksAssumption DEF CamundaFails, TypeOK
  <1>6. r \notin current' /\ current' \subseteq Procs /\ WriterAlone(r) /\ ran' = ran
    BY <1>1 DEF CamundaFails, Quit, TypeOK, WriterAlone
  <1>7. WorldTyped /\ Kept
    BY <1>1, <1>4, <1>5, <1>6 DEF CamundaFails, TypeOK, WorldTyped, Kept
  <1> QED
    BY <1>1, <1>3, <1>6, <1>7, RestKeeps

(* The first write of a request: afterwards its version is the row's, and  *)
(* what the row has beyond its data is missed.                             *)
LEMMA SaveLocalKeeps == ASSUME IInv, NEW r \in Requests, SaveLocal(r) PROVE IInv' /\ Kept
  <1>1. /\ TypeOK /\ LocalInv(r) /\ r \in Procs /\ r # Job /\ proc[r] \in Local
        /\ proc[r].data \in Data /\ row \in Data
        /\ UNCHANGED <<open, ended, completed, now, ran, failures, crashes>>
    BY ServiceTasksAssumption DEF IInv, TypeOK, Procs, Local, SaveLocal
  <1>2. PICK d : d = [proc[r].data EXCEPT !.recorded = FALSE, !.served = FALSE]
    OBVIOUS
  <1>3. d \in Data /\ d.claimed = proc[r].data.claimed
    BY <1>1, <1>2 DEF Data
  <1>4. PICK merged : merged = MergeComplete(row, d)
    OBVIOUS
  <1>5. merged \in Data /\ merged.claimed = row.claimed \cup d.claimed
    BY <1>1, <1>3, <1>4, MergeType
  <1>6. /\ Store(r, d, merged) /\ missed' = missed \cup (row.claimed \ d.claimed)
        /\ proc' = [proc EXCEPT ![r].pc = "saved"] /\ proc[r].pc = "loaded"
    BY <1>2, <1>4 DEF SaveLocal
  <1>7. row' \in Data /\ row.claimed \subseteq row'.claimed \cup missed
    BY <1>1, <1>3, <1>5, <1>6, StoredClaims DEF Store, LocalInv, Holder
  <1>8. PICK n : n = [proc[r] EXCEPT !.pc = "saved"]
    OBVIOUS
  <1>9. n \in Local /\ n.pc = "saved" /\ n.data = proc[r].data
    BY <1>1, <1>8 DEF Local, Steps
  <1>10. proc' = [proc EXCEPT ![r] = n] /\ proc'[r] = n
    BY <1>1, <1>6, <1>8 DEF TypeOK
  <1>11. WorldTyped /\ Kept
    <2>1. missed' \subseteq Items
      BY <1>1, <1>6 DEF TypeOK, Data
    <2> QED
      BY <1>1, <1>6, <1>7, <2>1, ServiceTasksAssumption DEF Store, TypeOK, WorldTyped, Kept
  <1>12. LocalInv(r)'
    <2>1. row'.claimed \subseteq d.claimed \cup missed'
      BY <1>5, <1>6 DEF Store, StoredRow
    <2> QED
      BY <1>1, <1>3, <1>6, <1>9, <1>10, <2>1 DEF LocalInv, Holder, Reading
  <1>13. WriterAlone(r)
    BY <1>6 DEF Store, WriterAlone
  <1> QED
    BY <1>1, <1>9, <1>10, <1>11, <1>12, <1>13, StepKeeps

LEMMA LoadKeeps == ASSUME IInv, NEW r \in Requests, Load(r) PROVE IInv' /\ Kept
  <1>1. /\ TypeOK /\ LocalInv(r) /\ r \in Procs /\ r # Job /\ proc[r] \in Local
        /\ RunIsClaimed /\ row \in Data
    BY ServiceTasksAssumption DEF IInv, TypeOK, Procs
  <1>2. PICK n : n = [proc[r] EXCEPT !.pc = "loaded", !.data = row]
    OBVIOUS
  <1>3. n \in Local /\ n.pc = "loaded" /\ n.data = row
    BY <1>1, <1>2 DEF Local, Steps
  <1>4. proc' = [proc EXCEPT ![r] = n] /\ proc'[r] = n
    <2>1. proc' = [proc EXCEPT ![r] = n]
      BY <1>1, <1>2, Zenon DEF Load, TypeOK
    <2> QED
      BY <1>1, <2>1 DEF TypeOK
  <1>5. WorldTyped /\ Kept
    BY <1>1, Unmoved DEF Load, Read, TypeOK
  <1>6. LocalInv(r)'
    BY <1>1, <1>3, <1>4 DEF Load, LocalInv, Holder, RunIsClaimed
  <1>7. WriterAlone(r) /\ ran' = ran
    BY DEF Load, Read, WriterAlone
  <1> QED
    BY <1>1, <1>3, <1>4, <1>5, <1>6, <1>7, StepKeeps

(* A process stores what it has, merged or not, and keeps what the row     *)
(* has then.                                                               *)
LEMMA StoreKeeps ==
    ASSUME IInv, NEW p \in Procs, NEW merged \in Data,
           merged.claimed = row.claimed \cup proc[p].data.claimed,
           Store(p, proc[p].data, merged), proc[p].pc # "leaving",
           NEW n \in Local, proc' = [proc EXCEPT ![p] = n],
           n.data = row' \/ n.pc = "leaving", n.pending = proc[p].pending,
           \/ n.pc \in {"leaving", "saving"}
           \/ n.pc = "history" /\ proc[p].pc = "marking"
           \/ n.pc = "running" /\ proc[p].pc = "claiming",
           UNCHANGED <<open, ended, completed, now, ran, missed, failures, crashes>>
    PROVE  IInv' /\ Kept
  <1>1. TypeOK /\ LocalInv(p) /\ proc[p] \in Local /\ proc[p].data \in Data /\ RunIsClaimed
    BY DEF IInv, TypeOK, Local
  <1>2. row' \in Data /\ proc[p].data.claimed \subseteq row'.claimed
        /\ row.claimed \subseteq row'.claimed \cup missed
    BY <1>1, StoredClaims DEF Store, LocalInv, Holder
  <1>3. WorldTyped /\ Kept
    BY <1>1, <1>2, ServiceTasksAssumption DEF Store, TypeOK, WorldTyped, Kept
  <1>4. proc'[p] = n
    BY <1>1 DEF TypeOK
  <1>5. LocalInv(p)'
    BY <1>1, <1>2, <1>4 DEF LocalInv, Holder, Reading
  <1>6. WriterAlone(p)
    BY DEF Store, WriterAlone
  <1> QED
    BY <1>3, <1>5, <1>6, StepKeeps

LEMMA MarkKeeps == ASSUME IInv, NEW r \in Requests, MarkCamundaDone(r) PROVE IInv' /\ Kept
  <1>1. TypeOK /\ r \in Procs /\ proc[r] \in Local /\ proc[r].data \in Data /\ row \in Data
    BY DEF IInv, TypeOK, Procs, Local
  <1>2. PICK merged : merged = MergeComplete(row, proc[r].data)
    OBVIOUS
  <1>3. merged \in Data /\ merged.claimed = row.claimed \cup proc[r].data.claimed
    BY <1>1, <1>2, MergeType
  <1>4. PICK d : d = row'
    OBVIOUS
  <1>5. d \in Data
    BY <1>1, <1>2, <1>3, <1>4 DEF MarkCamundaDone, Store, StoredRow
  <1>6. PICK n : n = [proc[r] EXCEPT !.pc = "history", !.data = d, !.kept = d]
    OBVIOUS
  <1>7. n \in Local /\ n.pc = "history" /\ n.data = d /\ n.pending = proc[r].pending
    BY <1>1, <1>5, <1>6 DEF Local, Steps
  <1>8. proc' = [proc EXCEPT ![r] = n]
    BY <1>1, <1>4, <1>6, Zenon DEF MarkCamundaDone, TypeOK
  <1>9. /\ Store(r, proc[r].data, merged) /\ proc[r].pc = "marking"
        /\ UNCHANGED <<open, ended, completed, now, ran, missed, failures, crashes>>
    BY <1>2 DEF MarkCamundaDone
  <1> QED
    BY <1>1, <1>3, <1>4, <1>7, <1>8, <1>9, StoreKeeps

LEMMA ClaimKeeps == ASSUME IInv, NEW p \in Procs, Claim(p) PROVE IInv' /\ Kept
  <1>1. TypeOK /\ proc[p] \in Local /\ proc[p].data \in Data /\ row \in Data
    BY DEF IInv, TypeOK, Local
  <1>2. PICK merged : merged = MergeComplete(row, proc[p].data)
    OBVIOUS
  <1>3. merged \in Data /\ merged.claimed = row.claimed \cup proc[p].data.claimed
    BY <1>1, <1>2, MergeType
  <1>4. PICK d : d = row'
    OBVIOUS
  <1>5. d \in Data
    BY <1>1, <1>2, <1>3, <1>4 DEF Claim, Store, StoredRow
  <1>6. PICK n : n = [proc[p] EXCEPT !.pc = "running", !.data = d]
    OBVIOUS
  <1>7. n \in Local /\ n.pc = "running" /\ n.data = d /\ n.pending = proc[p].pending
    BY <1>1, <1>5, <1>6 DEF Local, Steps
  <1>8. proc' = [proc EXCEPT ![p] = n]
    BY <1>1, <1>4, <1>6, Zenon DEF Claim, TypeOK
  <1>9. /\ Store(p, proc[p].data, merged) /\ proc[p].pc = "claiming"
        /\ UNCHANGED <<open, ended, completed, now, ran, missed, failures, crashes>>
    BY <1>2 DEF Claim
  <1> QED
    BY <1>1, <1>3, <1>4, <1>7, <1>8, <1>9, StoreKeeps

LEMMA SaveKeeps == ASSUME IInv, NEW p \in Procs, Save(p) PROVE IInv' /\ Kept
  <1>1. TypeOK /\ proc[p] \in Local /\ proc[p].data \in Data /\ row \in Data
    BY DEF IInv, TypeOK, Local
  <1>2. PICK merged : merged = MergeComplete(row, proc[p].data)
    OBVIOUS
  <1>3. merged \in Data /\ merged.claimed = row.claimed \cup proc[p].data.claimed
    BY <1>1, <1>2, MergeType
  <1>4. PICK d : d = row'
    OBVIOUS
  <1>5. d \in Data
    BY <1>1, <1>2, <1>3, <1>4 DEF Save, Store, StoredRow
  <1>6. PICK n : n = [proc[p] EXCEPT !.pc = "leaving", !.kept = d]
    OBVIOUS
  <1>7. n \in Local /\ n.pc = "leaving" /\ n.pending = proc[p].pending
    BY <1>1, <1>5, <1>6 DEF Local, Steps
  <1>8. proc' = [proc EXCEPT ![p] = n]
    BY <1>1, <1>4, <1>6, Zenon DEF Save, TypeOK
  <1>9. /\ Store(p, proc[p].data, merged) /\ proc[p].pc = "saving"
        /\ UNCHANGED <<open, ended, completed, now, ran, missed, failures, crashes>>
    BY <1>2 DEF Save
  <1> QED
    BY <1>1, <1>3, <1>7, <1>8, <1>9, StoreKeeps
(* The result is saved next, with all claims and maybe one flag more.      *)
LEMMA ToSaveType ==
    ASSUME NEW l \in Local
    PROVE  /\ ToSave(l) \in Local /\ ToSave(l).pc = "saving"
           /\ ToSave(l).data.claimed = l.data.claimed
  <1>1. PICK d : d = IF l.source = "sync" THEN l.data ELSE [l.data EXCEPT !.served = TRUE]
    OBVIOUS
  <1>2. d \in Data /\ d.claimed = l.data.claimed
    BY <1>1 DEF Local, Data
  <1>3. ToSave(l) = [l EXCEPT !.pc = "saving", !.data = d, !.kept = d, !.pending = {}]
    BY <1>1 DEF ToSave
  <1> QED
    BY <1>2, <1>3 DEF Local, Steps

LEMMA ReadHistoryKeeps == ASSUME IInv, NEW p \in Procs, ReadHistory(p) PROVE IInv' /\ Kept
  <1>1. /\ TypeOK /\ LocalInv(p) /\ proc[p] \in Local /\ proc[p].data \in Data
        /\ proc[p].pc = "history"
    BY DEF IInv, TypeOK, Local, ReadHistory
  <1>2. PICK S : S = Pending(proc[p].data, proc[p].source)
    OBVIOUS
  <1>3. S \in SUBSET Items /\ \A i \in S : i \notin proc[p].data.claimed
    BY <1>2 DEF Pending, Finished
  <1>4. PICK d : d = Claimed(proc[p].data, S)
    OBVIOUS
  <1>5. d \in Data /\ d.claimed = proc[p].data.claimed \cup S
    BY <1>1, <1>3, <1>4, ClaimedType
  <1>6. PICK n : n = IF S = {} THEN ToSave(proc[p])
                     ELSE [proc[p] EXCEPT !.pc = "claiming", !.data = d, !.kept = d, !.pending = S]
    OBVIOUS
  <1>7. proc' = [proc EXCEPT ![p] = n] /\ proc'[p] = n
    <2>1. proc' = [proc EXCEPT ![p] = n]
      BY <1>1, <1>2, <1>4, <1>6, Zenon DEF ReadHistory, TypeOK
    <2> QED
      BY <1>1, <2>1 DEF TypeOK
  <1>8. /\ n \in Local /\ proc[p].data.claimed \subseteq n.data.claimed
        /\ \/ n.pc = "saving"
           \/ n.pc = "claiming" /\ n.pending = S /\ n.data = d
    <2>1. CASE S = {}
      BY <1>1, <1>6, <2>1, ToSaveType
    <2>2. CASE S # {}
      BY <1>1, <1>3, <1>5, <1>6, <2>2 DEF Local, Steps
    <2> QED
      BY <2>1, <2>2
  <1>9. /\ UNCHANGED <<row, current, open, ended, completed, now, missed, failures, crashes>>
        /\ ran' = ran /\ WriterAlone(p)
    BY DEF ReadHistory, WriterAlone
  <1>10. WorldTyped /\ Kept
    BY <1>1, <1>9, Unmoved DEF TypeOK
  <1>11. failures = 0 => \A i \in S \ missed : ran[p][i] = 0
    <2>1. ran[p] \in [Items -> Nat]
      BY <1>1 DEF TypeOK
    <2>2. failures = 0 => \A i \in Items \ missed : ran[p][i] > 0 => i \in proc[p].data.claimed
      BY <1>1 DEF LocalInv, Reading
    <2> QED
      BY <1>3, <2>1, <2>2
  <1>12. LocalInv(p)'
    <2>1. p \in current => row.claimed \subseteq proc[p].data.claimed \cup missed
      BY <1>1 DEF LocalInv, Holder
    <2> QED
      BY <1>5, <1>7, <1>8, <1>9, <1>11, <2>1 DEF LocalInv, Holder, Reading
  <1> QED
    BY <1>7, <1>8, <1>9, <1>10, <1>12, StepKeeps

(* What runs is claimed and was not run before.                            *)
LEMMA RunActionsKeeps == ASSUME IInv, NEW p \in Procs, RunActions(p) PROVE IInv' /\ Kept
  <1>1. /\ TypeOK /\ LocalInv(p) /\ proc[p] \in Local /\ RunIsClaimed /\ OncePerProcess
        /\ proc[p].pc = "running"
    BY DEF IInv, TypeOK, RunActions
  <1>2. PICK i \in proc[p].pending :
            /\ ran' = [ran EXCEPT ![p][i] = ran[p][i] + 1]
            /\ proc' = [proc EXCEPT ![p] =
                   IF proc[p].pending = {i} THEN ToSave(proc[p])
                   ELSE [proc[p] EXCEPT !.pending = proc[p].pending \ {i}]]
    <2>1. PICK i \in proc[p].pending :
              /\ ran' = [ran EXCEPT ![p][i] = @ + 1]
              /\ proc' = [proc EXCEPT ![p] =
                     IF proc[p].pending = {i} THEN ToSave(proc[p])
                     ELSE [proc[p] EXCEPT !.pending = @ \ {i}]]
      BY DEF RunActions
    <2>2. ran' = [ran EXCEPT ![p][i] = ran[p][i] + 1]
      BY <1>1, <2>1 DEF TypeOK
    <2>3. proc' = [proc EXCEPT ![p] =
                   IF proc[p].pending = {i} THEN ToSave(proc[p])
                   ELSE [proc[p] EXCEPT !.pending = proc[p].pending \ {i}]]
      BY <1>1, <2>1 DEF TypeOK, Local
    <2> QED
      BY <2>2, <2>3
  <1>3. i \in Items
    BY <1>1 DEF Local
  <1>4. PICK n : n = IF proc[p].pending = {i} THEN ToSave(proc[p])
                     ELSE [proc[p] EXCEPT !.pending = proc[p].pending \ {i}]
    OBVIOUS
  <1>5. proc' = [proc EXCEPT ![p] = n] /\ proc'[p] = n
    <2>1. proc' = [proc EXCEPT ![p] = n]
      BY <1>1, <1>2, <1>4, Zenon DEF TypeOK
    <2> QED
      BY <1>1, <2>1 DEF TypeOK
  <1>6. /\ n \in Local /\ n.data.claimed = proc[p].data.claimed
        /\ \/ n.pc = "saving"
           \/ n.pc = "running" /\ n.pending = proc[p].pending \ {i}
    <2>1. CASE proc[p].pending = {i}
      BY <1>1, <1>4, <2>1, ToSaveType
    <2>2. CASE proc[p].pending # {i}
      BY <1>1, <1>4, <2>2 DEF Local
    <2> QED
      BY <2>1, <2>2
  <1>7. /\ UNCHANGED <<row, current, open, ended, completed, now, missed, failures, crashes>>
        /\ WriterAlone(p)
    BY DEF RunActions, WriterAlone
  <1>8. WorldTyped /\ Kept
    BY <1>1, <1>7, Unmoved DEF TypeOK
  <1>9. /\ ran' \in [Procs -> [Items -> Nat]] /\ ran'[p][i] = ran[p][i] + 1
        /\ \A q \in Procs, j \in Items : q # p \/ j # i => ran'[q][j] = ran[q][j]
        /\ \A q \in Procs : q # p => ran'[q] = ran[q]
    BY <1>1, <1>2, <1>3 DEF TypeOK
  <1>10. failures = 0 => i \in missed \/ (i \in row.claimed /\ ran[p][i] = 0)
    BY <1>1 DEF LocalInv
  <1>11. LocalInv(p)'
    <2>1. failures = 0 => proc[p].pending \subseteq row.claimed \cup missed
      BY <1>1 DEF LocalInv
    <2>2. failures = 0 => \A j \in (proc[p].pending \ {i}) \ missed : ran'[p][j] = 0
      BY <1>1, <1>9 DEF LocalInv, Local
    <2>3. p \in current => row.claimed \subseteq proc[p].data.claimed \cup missed
      BY <1>1 DEF LocalInv, Holder
    <2> QED
      BY <1>5, <1>6, <1>7, <2>1, <2>2, <2>3 DEF LocalInv, Holder, Reading
  <1>12. \A q \in Procs : LocalInv(q)'
    <2> SUFFICES ASSUME NEW q \in Procs, q # p PROVE LocalInv(q)'
      BY <1>11
    <2>1. proc'[q] = proc[q] /\ ran'[q] = ran[q]
      BY <1>1, <1>5, <1>9 DEF TypeOK
    <2>2. failures \in Nat /\ failures' = failures
      BY <1>1, <1>7, ServiceTasksAssumption DEF TypeOK
    <2> QED
      BY <1>7, <1>8, <2>1, <2>2, OthersKeep
  <1>13. TypeOK'
    BY <1>1, <1>5, <1>6, <1>8, <1>9 DEF TypeOK, WorldTyped
  <1>14. RunIsClaimed'
    <2> SUFFICES ASSUME failures' = 0, NEW q \in Procs, NEW j \in Items \ missed, ran'[q][j] > 0
                 PROVE  j \in row'.claimed
      BY <1>7 DEF RunIsClaimed
    <2>1. CASE q = p /\ j = i
      BY <1>7, <1>10, <2>1
    <2>2. CASE q # p \/ j # i
      BY <1>1, <1>7, <1>9, <2>2 DEF RunIsClaimed
    <2> QED
      BY <2>1, <2>2
  <1>15. OncePerProcess'
    <2> SUFFICES ASSUME failures' = 0, NEW q \in Procs, NEW j \in Items \ missed
                 PROVE  ran'[q][j] <= 1
      BY <1>7 DEF OncePerProcess
    <2>1. CASE q = p /\ j = i
      BY <1>7, <1>9, <1>10, <2>1
    <2>2. CASE q # p \/ j # i
      BY <1>1, <1>7, <1>9, <2>2 DEF OncePerProcess
    <2> QED
      BY <2>1, <2>2
  <1> QED
    BY <1>8, <1>12, <1>13, <1>14, <1>15 DEF IInv

(* Where a process stops: the job stays loaded or idles, a request is done. *)
LEMMA StopType ==
    ASSUME NEW p \in Procs,
           NEW n, n \in {Rest(p), [Rest(p) EXCEPT !.pc = "loaded"], [Rest(p) EXCEPT !.pc = "done"]}
    PROVE  /\ n \in Local
           /\ n.pc \in {"idle", "loaded", "done"}
           /\ n = Rest(p) => n.pc = "idle"
           /\ n = [Rest(p) EXCEPT !.pc = "loaded"] => n.pc = "loaded"
           /\ n = [Rest(p) EXCEPT !.pc = "done"] => n.pc = "done"
  <1>1. Rest(p) \in Local /\ Rest(p).pc = "idle"
    BY RestType DEF Rest
  <1> QED
    BY <1>1 DEF Local, Steps

LEMMA LeaveKeeps == ASSUME IInv, NEW p \in Procs, Leave(p) PROVE IInv' /\ Kept
  <1>1. TypeOK
    BY DEF IInv
  <1>2. PICK n : n = IF p = Job THEN [Rest(Job) EXCEPT !.pc = "loaded"]
                     ELSE [Rest(p) EXCEPT !.pc = "done"]
    OBVIOUS
  <1>3. n \in Local /\ (n.pc = "done" \/ (p = Job /\ n.pc = "loaded"))
    <2>1. CASE p = Job
      BY <1>2, <2>1, StopType
    <2>2. CASE p # Job
      BY <1>2, <2>2, StopType
    <2> QED
      BY <2>1, <2>2
  <1>4. proc' = [proc EXCEPT ![p] = n]
    BY <1>2, Zenon DEF Leave
  <1>5. WorldTyped /\ Kept
    BY <1>1, ServiceTasksAssumption DEF Leave, Quit, TypeOK, WorldTyped, Kept
  <1>6. p \notin current' /\ ran' = ran /\ WriterAlone(p)
    BY DEF Leave, Quit, WriterAlone
  <1> QED
    BY <1>3, <1>4, <1>5, <1>6, RestKeeps
(* The job is at its data, fresh from the row.                             *)
LEMMA FreshKeeps ==
    ASSUME IInv, NEW n \in Local, proc' = [proc EXCEPT ![Job] = n],
           n.pc = "history", n.data = row, Read(Job),
           UNCHANGED <<row, open, ended, completed, now, ran, missed, failures, crashes>>
    PROVE  IInv' /\ Kept
  <1>1. TypeOK /\ RunIsClaimed /\ Job \in Procs
    BY DEF IInv, Procs
  <1>2. proc'[Job] = n
    BY <1>1 DEF TypeOK
  <1>3. WorldTyped /\ Kept /\ WriterAlone(Job)
    BY <1>1, Unmoved DEF Read, TypeOK, WriterAlone
  <1>4. LocalInv(Job)'
    BY <1>1, <1>2 DEF LocalInv, Holder, RunIsClaimed
  <1> QED
    BY <1>1, <1>3, <1>4, StepKeeps

(* The job rests or waits to load again, and writes nothing.               *)
LEMMA JobStops ==
    ASSUME IInv, NEW n \in {Rest(Job), [Rest(Job) EXCEPT !.pc = "loaded"]},
           proc' = [proc EXCEPT ![Job] = n], Job \notin current', current' \subseteq current,
           UNCHANGED <<row, open, ended, completed, now, ran, missed, failures, crashes>>
    PROVE  IInv' /\ Kept
  <1>1. TypeOK /\ Job \in Procs
    BY DEF IInv, Procs
  <1>2. n \in Local /\ n.pc \in {"idle", "loaded"}
    BY <1>1, StopType
  <1>3. WorldTyped /\ Kept /\ WriterAlone(Job)
    BY <1>1, Unmoved DEF TypeOK, WriterAlone
  <1> QED
    BY <1>1, <1>2, <1>3, RestKeeps

LEMMA TickKeeps == ASSUME IInv, Tick PROVE IInv' /\ Kept
  <1>1. /\ TypeOK /\ LocalInv(Job) /\ proc[Job] \in Local /\ row \in Data
        /\ UNCHANGED <<row, open, ended, completed, now, ran, missed, failures, crashes>>
    BY DEF IInv, TypeOK, Procs, Tick
  <1>2. CASE Unserved
    <2>1. PICK n : n = [proc[Job] EXCEPT !.pc = "history", !.source = "recovery",
                                         !.data = row, !.kept = row]
      OBVIOUS
    <2>2. n \in Local /\ n.pc = "history" /\ n.data = row
      BY <1>1, <2>1 DEF Local, Steps
    <2>3. proc' = [proc EXCEPT ![Job] = n] /\ Read(Job)
      BY <1>2, <2>1, Zenon DEF Tick
    <2> QED
      BY <1>1, <2>2, <2>3, FreshKeeps
  <1>3. CASE ~Unserved
    <2>1. PICK n : n = [Rest(Job) EXCEPT !.pc = "loaded"]
      OBVIOUS
    <2>2. proc' = [proc EXCEPT ![Job] = n] /\ current' = current
      BY <1>3, <2>1, Zenon DEF Tick
    <2>3. Job \notin current
      BY <1>1 DEF Tick, LocalInv, Holder
    <2> QED
      BY <1>1, <2>1, <2>2, <2>3, JobStops
  <1> QED
    BY <1>2, <1>3

LEMMA SyncLoadKeeps == ASSUME IInv, SyncLoad PROVE IInv' /\ Kept
  <1>1. /\ TypeOK /\ LocalInv(Job) /\ proc[Job] \in Local /\ row \in Data
        /\ UNCHANGED <<row, open, ended, completed, now, ran, missed, failures, crashes>>
    BY DEF IInv, TypeOK, Procs, SyncLoad
  <1>2. CASE open
    <2>1. PICK n : n = [proc[Job] EXCEPT !.pc = "history", !.source = "sync",
                                         !.data = row, !.kept = row]
      OBVIOUS
    <2>2. n \in Local /\ n.pc = "history" /\ n.data = row
      BY <1>1, <2>1 DEF Local, Steps
    <2>3. proc' = [proc EXCEPT ![Job] = n] /\ Read(Job)
      BY <1>1, <1>2, <2>1, Zenon DEF SyncLoad, TypeOK
    <2> QED
      BY <1>1, <2>2, <2>3, FreshKeeps
  <1>3. CASE ~open
    <2>1. PICK n : n = Rest(Job)
      OBVIOUS
    <2>2. proc' = [proc EXCEPT ![Job] = n] /\ current' = current
      BY <1>3, <2>1, Zenon DEF SyncLoad
    <2>3. Job \notin current
      BY <1>1 DEF SyncLoad, LocalInv, Holder
    <2> QED
      BY <1>1, <2>1, <2>2, <2>3, JobStops
  <1> QED
    BY <1>2, <1>3

LEMMA SyncHistoryKeeps == ASSUME IInv, SyncHistory PROVE IInv' /\ Kept
  <1>1. /\ TypeOK /\ LocalInv(Job) /\ proc[Job] \in Local /\ proc[Job].data \in Data
        /\ Job \in Procs /\ proc[Job].pc = "history"
        /\ UNCHANGED <<row, open, ended, completed, now, ran, missed, failures, crashes>>
    BY DEF IInv, TypeOK, Local, Procs, SyncHistory
  <1>2. PICK d : d = Prepared(proc[Job].data, "sync")
    OBVIOUS
  <1>3. d \in Data /\ proc[Job].data.claimed \subseteq d.claimed
    BY <1>1, <1>2, PreparedType
  <1>4. PICK S : S = Pending(d, "sync")
    OBVIOUS
  <1>5. S \in SUBSET Items /\ \A i \in S : i \notin d.claimed
    BY <1>4 DEF Pending, Finished
  <1>6. PICK c : c = Claimed(d, S)
    OBVIOUS
  <1>7. c \in Data /\ c.claimed = d.claimed \cup S
    BY <1>1, <1>3, <1>5, <1>6, ClaimedType
  <1>8. PICK n : n = IF S # {} THEN [proc[Job] EXCEPT !.pc = "reread", !.data = c, !.pending = S]
                     ELSE IF d = proc[Job].data THEN Rest(Job)
                     ELSE [proc[Job] EXCEPT !.pc = "saving", !.data = d]
    OBVIOUS
  <1>9. proc' = [proc EXCEPT ![Job] = n]
    BY <1>1, <1>2, <1>4, <1>6, <1>8, Zenon DEF SyncHistory, TypeOK
  <1>10. IF S = {} /\ d = proc[Job].data THEN Quit(Job) ELSE UNCHANGED current
    BY <1>2, <1>4 DEF SyncHistory
  <1>11. CASE S = {} /\ d = proc[Job].data
    <2>1. n = Rest(Job)
      BY <1>8, <1>11
    <2> QED
      BY <1>1, <1>9, <1>10, <1>11, <2>1, JobStops DEF Quit
  <1>12. CASE ~(S = {} /\ d = proc[Job].data)
    <2>1. /\ n \in Local /\ proc[Job].data.claimed \subseteq n.data.claimed
          /\ \/ n.pc = "reread" /\ n.pending = S
             \/ n.pc = "saving"
      BY <1>1, <1>3, <1>5, <1>7, <1>8, <1>12 DEF Local, Steps
    <2>2. proc'[Job] = n /\ current' = current
      BY <1>1, <1>9, <1>10, <1>12 DEF TypeOK
    <2>3. WorldTyped /\ Kept /\ WriterAlone(Job)
      BY <1>1, <2>2, Unmoved DEF TypeOK, WriterAlone
    <2>4. failures = 0 => \A i \in S \ missed : ran[Job][i] = 0
      <3>1. ran[Job] \in [Items -> Nat]
        BY <1>1 DEF TypeOK
      <3>2. failures = 0 => \A i \in Items \ missed : ran[Job][i] > 0 => i \in proc[Job].data.claimed
        BY <1>1 DEF LocalInv, Reading
      <3> QED
        BY <1>3, <1>5, <3>1, <3>2
    <2>5. LocalInv(Job)'
      <3>1. Job \in current => row.claimed \subseteq proc[Job].data.claimed \cup missed
        BY <1>1 DEF LocalInv, Holder
      <3> QED
        BY <1>1, <2>1, <2>2, <2>4, <3>1 DEF LocalInv, Holder, Reading
    <2> QED
      BY <1>1, <1>9, <2>1, <2>3, <2>5, StepKeeps
  <1> QED
    BY <1>11, <1>12

LEMMA SyncRereadKeeps == ASSUME IInv, SyncReread PROVE IInv' /\ Kept
  <1>1. /\ TypeOK /\ LocalInv(Job) /\ proc[Job] \in Local /\ proc[Job].data \in Data
        /\ row \in Data /\ Job \in Procs /\ proc[Job].pc = "reread" /\ Read(Job)
        /\ UNCHANGED <<row, open, ended, completed, now, ran, missed, failures, crashes>>
    BY DEF IInv, TypeOK, Local, Procs, SyncReread
  <1>2. PICK mine : mine = (proc[Job].data.claimed \ proc[Job].kept.claimed) \ row.claimed
    OBVIOUS
  <1>3. PICK d : d = MergeTracking(row, proc[Job].data)
    OBVIOUS
  <1>4. d \in Data /\ d.claimed = row.claimed \cup proc[Job].data.claimed
    BY <1>1, <1>3, MergeType
  <1>5. PICK n : n = IF mine = {}
                     THEN [proc[Job] EXCEPT !.pc = "saving", !.data = row, !.pending = {}]
                     ELSE [proc[Job] EXCEPT !.pc = "claiming", !.data = d,
                                            !.pending = proc[Job].pending \cap mine]
    OBVIOUS
  <1>6. proc' = [proc EXCEPT ![Job] = n] /\ proc'[Job] = n
    <2>1. CASE mine = {}
      BY <1>1, <1>2, <1>5, <2>1 DEF SyncReread, TypeOK
    <2>2. CASE mine # {}
      BY <1>1, <1>2, <1>3, <1>5, <2>2 DEF SyncReread, TypeOK
    <2> QED
      BY <2>1, <2>2
  <1>7. /\ n \in Local /\ row.claimed \subseteq n.data.claimed
        /\ \/ n.pc = "saving"
           \/ /\ n.pc = "claiming" /\ n.pending \subseteq proc[Job].pending
              /\ n.pending \subseteq n.data.claimed
    BY <1>1, <1>2, <1>4, <1>5 DEF Local, Steps
  <1>8. WorldTyped /\ Kept /\ WriterAlone(Job)
    BY <1>1, Unmoved DEF Read, TypeOK, WriterAlone
  <1>9. LocalInv(Job)'
    <2>1. failures = 0 => \A i \in proc[Job].pending \ missed : ran[Job][i] = 0
      BY <1>1 DEF LocalInv
    <2> QED
      BY <1>1, <1>6, <1>7, <2>1 DEF LocalInv, Holder, Reading
  <1> QED
    BY <1>1, <1>6, <1>7, <1>8, <1>9, StepKeeps

(* A claim or a save given up changes nothing but the job's own state.     *)
LEMMA GiveUpKeeps ==
    ASSUME IInv, GiveUp, UNCHANGED <<open, ended, completed, now, ran, missed, failures, crashes>>
    PROVE  IInv' /\ Kept
  <1>1. PICK n : n = Rest(Job)
    OBVIOUS
  <1> QED
    BY <1>1, JobStops DEF GiveUp

LEMMA SyncClaimKeeps == ASSUME IInv, SyncClaim PROVE IInv' /\ Kept
  <1>1. /\ TypeOK /\ proc[Job] \in Local /\ proc[Job].data \in Data /\ row \in Data
        /\ Job \in Procs /\ proc[Job].pc = "claiming"
        /\ UNCHANGED <<open, ended, completed, now, ran, missed, failures, crashes>>
    BY DEF IInv, TypeOK, Local, Procs, SyncClaim
  <1>2. CASE GiveUp
    BY <1>1, <1>2, GiveUpKeeps
  <1>3. CASE ~GiveUp
    <2>1. PICK merged : merged = MergeTracking(row, proc[Job].data)
      OBVIOUS
    <2>2. merged \in Data /\ merged.claimed = row.claimed \cup proc[Job].data.claimed
      BY <1>1, <2>1, MergeType
    <2>3. PICK d : d = row'
      OBVIOUS
    <2>4. Store(Job, proc[Job].data, merged)
      BY <1>3, <2>1 DEF SyncClaim
    <2>5. d \in Data
      BY <1>1, <2>2, <2>3, <2>4 DEF Store, StoredRow
    <2>6. PICK n : n = [proc[Job] EXCEPT
                !.pc = IF proc[Job].pending = {} THEN "saving" ELSE "running", !.data = d]
      OBVIOUS
    <2>7. /\ n \in Local /\ n.pc \in {"saving", "running"} /\ n.data = d
          /\ n.pending = proc[Job].pending
      BY <1>1, <2>5, <2>6 DEF Local, Steps
    <2>8. proc' = [proc EXCEPT ![Job] = n]
      BY <1>1, <1>3, <2>3, <2>6, Zenon DEF SyncClaim, TypeOK
    <2> QED
      BY <1>1, <2>2, <2>3, <2>4, <2>7, <2>8, StoreKeeps
  <1> QED
    BY <1>2, <1>3

LEMMA SyncSaveKeeps == ASSUME IInv, SyncSave PROVE IInv' /\ Kept
  <1>1. /\ TypeOK /\ LocalInv(Job) /\ proc[Job] \in Local /\ proc[Job].data \in Data
        /\ row \in Data /\ Job \in Procs /\ proc[Job].pc = "saving"
        /\ UNCHANGED <<open, ended, completed, now, ran, missed, failures, crashes>>
    BY DEF IInv, TypeOK, Local, Procs, SyncSave
  <1>2. CASE GiveUp
    BY <1>1, <1>2, GiveUpKeeps
  <1>3. CASE ~GiveUp
    <2>1. PICK merged : merged = MergeTracking(row, proc[Job].data)
      OBVIOUS
    <2>2. merged \in Data /\ merged.claimed = row.claimed \cup proc[Job].data.claimed
      BY <1>1, <2>1, MergeType
    <2>3. row' = StoredRow(Job, proc[Job].data, merged) /\ current' = {}
      BY <1>3, <2>1 DEF SyncSave
    <2>4. row' \in Data /\ row.claimed \subseteq row'.claimed \cup missed
      BY <1>1, <2>2, <2>3, StoredClaims DEF LocalInv, Holder
    <2>5. WorldTyped /\ Kept /\ WriterAlone(Job)
      BY <1>1, <2>3, <2>4, ServiceTasksAssumption
      DEF TypeOK, WorldTyped, Kept, WriterAlone
    <2>6. PICK n : n = Rest(Job)
      OBVIOUS
    <2>7. proc' = [proc EXCEPT ![Job] = n]
      BY <1>3, <2>6, Zenon DEF SyncSave
    <2>8. n \in Local /\ n.pc = "idle"
      BY <1>1, <2>6, StopType
    <2> QED
      BY <1>1, <2>3, <2>5, <2>7, <2>8, RestKeeps
  <1> QED
    BY <1>2, <1>3

(* A failed step may lose claims, which are then not promised any more.    *)
LEMMA FailKeeps == ASSUME IInv, NEW p \in Procs, Fail(p) PROVE IInv' /\ Kept
  <1>1. /\ TypeOK /\ proc[p] \in Local /\ proc[p].kept \in Data /\ row \in Data
        /\ UNCHANGED <<open, ended, completed, now, ran, missed, crashes>>
    BY DEF IInv, TypeOK, Local, Fail
  <1>2. /\ failures' \in 0..MaxFailures /\ failures < failures' /\ failures' # failures
    BY <1>1, ServiceTasksAssumption DEF Fail, TypeOK
  <1>3. PICK n : n = IF proc[p].source = "sync" THEN Rest(p)
                     ELSE IF p = Job THEN [Rest(Job) EXCEPT !.pc = "loaded"]
                     ELSE [Rest(p) EXCEPT !.pc = "done"]
    OBVIOUS
  <1>4. n \in Local /\ (n.pc \in {"idle", "done"} \/ (p = Job /\ n.pc = "loaded"))
    <2>1. CASE p = Job
      BY <1>3, <2>1, StopType
    <2>2. CASE p # Job
      BY <1>3, <2>2, StopType
    <2> QED
      BY <2>1, <2>2
  <1>5. proc' = [proc EXCEPT ![p] = n]
    BY <1>3, Zenon DEF Fail
  <1>6. row' \in Data
    <2>1. MergeComplete(row, proc[p].kept) \in Data
      BY <1>1, MergeType
    <2> QED
      BY <1>1, <2>1 DEF Fail, StoredRow
  <1>7. p \notin current' /\ current' \subseteq Procs /\ WriterAlone(p)
    BY <1>1 DEF Fail, Quit, TypeOK, WriterAlone
  <1>8. WorldTyped /\ Kept
    BY <1>1, <1>2, <1>6, <1>7, ServiceTasksAssumption DEF TypeOK, WorldTyped, Kept
  <1> QED
    BY <1>1, <1>4, <1>5, <1>7, <1>8, RestKeeps DEF Fail

LEMMA CrashKeeps == ASSUME IInv, Crash PROVE IInv' /\ Kept
  <1>1. /\ TypeOK /\ RunIsClaimed /\ OncePerProcess
        /\ UNCHANGED <<row, open, ended, completed, now, ran, missed, failures>>
    BY DEF IInv, Crash
  <1>2. \A p \in Procs : /\ proc'[p] \in Local /\ proc'[p].pc \in {"idle", "done"}
                         /\ p = Job => proc'[p].pc = "idle"
    <2> TAKE p \in Procs
    <2>1. PICK n : n = proc'[p]
      OBVIOUS
    <2>2. n = Rest(p) \/ n = [Rest(p) EXCEPT !.pc = "done"]
      BY <2>1 DEF Crash
    <2>3. p = Job => n = Rest(p)
      BY <2>1 DEF Crash
    <2> QED
      BY <2>1, <2>2, <2>3, StopType
  <1>3. TypeOK'
    <2>1. proc' \in [Procs -> Local]
      BY <1>2 DEF Crash
    <2> QED
      BY <1>1, <2>1, ServiceTasksAssumption DEF Crash, TypeOK
  <1>4. \A p \in Procs : LocalInv(p)'
    BY <1>2 DEF Crash, LocalInv, Reading
  <1> QED
    BY <1>1, <1>3, <1>4 DEF IInv, RunIsClaimed, OncePerProcess, Kept

LEMMA NextInvariant == IInv /\ [Next]_vars => IInv' /\ Kept
  <1> SUFFICES ASSUME IInv, [Next]_vars PROVE IInv' /\ Kept
    OBVIOUS
  <1>1. ASSUME NEW r \in Requests, RequestStep(r) PROVE IInv' /\ Kept
    BY <1>1, LoadKeeps, SaveLocalKeeps, CompleteKeeps, MarkKeeps, CamundaFailsKeeps
    DEF RequestStep
  <1>2. ASSUME NEW p \in Procs, RunnerStep(p) PROVE IInv' /\ Kept
    BY <1>2, ReadHistoryKeeps, ClaimKeeps, RunActionsKeeps, SaveKeeps, LeaveKeeps
    DEF RunnerStep
  <1>3. ASSUME NEW p \in Procs, Fail(p) PROVE IInv' /\ Kept
    BY <1>3, FailKeeps
  <1>4. CASE JobStep
    BY <1>4, TickKeeps, SyncLoadKeeps, SyncHistoryKeeps, SyncRereadKeeps, SyncClaimKeeps,
       SyncSaveKeeps DEF JobStep
  <1>5. ASSUME NEW i \in Items, TimerFires(i) PROVE IInv' /\ Kept
    <2>1. TypeOK
      BY DEF IInv
    <2>2. ended' \in [Items -> 0..LastEnd]
      BY <1>5, <2>1, ServiceTasksAssumption DEF TimerFires, TypeOK
    <2>3. WorldTyped
      BY <1>5, <2>1, <2>2, ServiceTasksAssumption DEF TimerFires, TypeOK, WorldTyped
    <2> QED
      BY <1>5, <2>3, WorldKeeps DEF TimerFires
  <1>6. CASE TimePasses
    <2>1. TypeOK
      BY DEF IInv
    <2>2. now' \in 1..Horizon
      BY <1>6, <2>1, Bounds DEF TimePasses, TypeOK
    <2>3. WorldTyped
      BY <1>6, <2>1, <2>2, ServiceTasksAssumption DEF TimePasses, TypeOK, WorldTyped
    <2> QED
      BY <1>6, <2>3, WorldKeeps DEF TimePasses
  <1>7. CASE Crash
    BY <1>7, CrashKeeps
  <1>8. CASE UNCHANGED vars
    <2>1. WorldTyped
      BY <1>8, ServiceTasksAssumption DEF IInv, TypeOK, WorldTyped, vars
    <2> QED
      BY <1>8, <2>1, WorldKeeps DEF vars
  <1> QED
    BY <1>1, <1>2, <1>3, <1>4, <1>5, <1>6, <1>7, <1>8 DEF Next

LEMMA Invariant == Spec => []IInv
  <1> QED
    BY InitInvariant, NextInvariant, PTL DEF Spec

-----------------------------------------------------------------------------
(***************************************************************************)
(* Every state is of its type, under any schedule, failures and crashes of *)
(* the three writers of the row.                                           *)
(***************************************************************************)
THEOREM TypeCorrect == Spec => []TypeOK
  <1>1. IInv => TypeOK
    BY DEF IInv
  <1> QED
    BY <1>1, Invariant, PTL

(***************************************************************************)
(* As long as nothing failed, what was run is claimed in the row, for any  *)
(* number of requests next to the background job, unless a request missed  *)
(* the claim before its first write.                                       *)
(***************************************************************************)
THEOREM RunsClaimed == Spec => []RunIsClaimed
  <1>1. IInv => RunIsClaimed
    BY DEF IInv
  <1> QED
    BY <1>1, Invariant, PTL

(***************************************************************************)
(* As long as nothing failed, no process runs an instance twice, however   *)
(* often the job passes, recovers and is restarted, but instances whose    *)
(* claim a request missed.                                                 *)
(***************************************************************************)
THEOREM RunsOnce == Spec => []OncePerProcess
  <1>1. IInv => OncePerProcess
    BY DEF IInv
  <1> QED
    BY <1>1, Invariant, PTL

(***************************************************************************)
(* A write, versioned or merged, takes no claim out of the row but those   *)
(* a request missed before its first write, unless a step fails.           *)
(***************************************************************************)
THEOREM ClaimsStay == Spec => ClaimsKept
  <1>1. IInv /\ [Next]_vars => [failures' = failures => row.claimed \ row'.claimed \subseteq missed]_vars
    BY NextInvariant DEF Kept
  <1> QED
    BY <1>1, Invariant, PTL DEF Spec, ClaimsKept
=============================================================================
