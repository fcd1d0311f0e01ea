---------------------------- MODULE SigningProofs ----------------------------
(***************************************************************************)
(* The integrity chain verifies at every moment, for any stages, contents, *)
(* challenges, requests and failures, and implements the ledger.           *)
(*                                                                         *)
(* The argument: only the writer of the row comes between the check of the *)
(* sealed stages and the commit, so what it found there is still so when   *)
(* it commits; and a sealed stage has a link with the contents of the row, *)
(* so that a stage signed again is signed with the same contents.          *)
(***************************************************************************)
EXTENDS Signing, SequenceTheorems, TLAPS

(* The steps of a completion that is being signed, with the challenge it   *)
(* presented; those after the signature is stored; those that hold the row *)
Presenting == {"guard", "sign", "save", "link", "commit"}
Signed == {"save", "link", "commit"}
Writing == {"link", "commit"}

LocalInv(l) ==
    /\ l.pc # "idle" => l.stage \in Stages
    /\ l.pc \in Presenting =>
         /\ l.challenge \in DOMAIN challenges
         /\ challenges[l.challenge].stage = l.stage
         /\ challenges[l.challenge].content = l.content
    /\ l.pc \in Signed =>
         /\ l.signature \in DOMAIN signatures
         /\ signatures[l.signature] = l.challenge
         /\ l.data[l.stage] = l.content
    /\ l.pc \in Writing => \A s \in Stages : seals[s] # Nothing => l.data[s] = live[s]
    /\ l.pc = "commit" => l.link = Link(l.signature, <<l.stage, l.content>>)
    /\ l.pc \in {"camunda", "checkpoint"} => seals[l.stage] # Nothing

(* Whoever writes holds the row. *)
OneWriter ==
    /\ \A r \in Requests : request[r].pc \in Writing => writer = r
    /\ writer \in Requests => request[writer].pc \in Writing

(* A challenge that has been signed is closed. *)
SignedOnce ==
    /\ ChallengeSignsOnce
    /\ \A i \in DOMAIN signatures : ~challenges[signatures[i]].open

(* The sealed stages are those with a link, and a link has what the row    *)
(* has.                                                                    *)
SealsLinked ==
    /\ \A s \in Stages : seals[s] # Nothing =>
         /\ seals[s] = live[s]
         /\ \E k \in DOMAIN links : links[k].hash = <<s, live[s]>>
    /\ \A k \in DOMAIN links : seals[links[k].hash[1]] # Nothing

IInv ==
    /\ TypeOK
    /\ \A r \in Requests : LocalInv(request[r])
    /\ OneWriter
    /\ SignedOnce
    /\ SealsLinked
    /\ ChainVerifies

-----------------------------------------------------------------------------
(* The tables: what the steps do to them                                   *)

(* Challenges are added and closed, signatures are added. *)
Appended ==
    /\ challenges' \in Seq(Challenge) /\ signatures' \in Seq(DOMAIN challenges')
    /\ Len(challenges) <= Len(challenges') /\ Len(challenges') <= MaxChallenges
    /\ \A n \in 1..Len(challenges) :
         /\ challenges'[n].stage = challenges[n].stage
         /\ challenges'[n].content = challenges[n].content
         /\ challenges'[n].open => challenges[n].open
    /\ Len(signatures) <= Len(signatures')
    /\ \A i \in 1..Len(signatures) : signatures'[i] = signatures[i]

LEMMA Domains ==
    ASSUME TypeOK
    PROVE  /\ Len(challenges) \in Nat /\ DOMAIN challenges = 1..Len(challenges)
           /\ Len(signatures) \in Nat /\ DOMAIN signatures = 1..Len(signatures)
           /\ Len(links) \in Nat /\ DOMAIN links = 1..Len(links)
           /\ \A n \in 1..Len(challenges) : challenges[n] \in Challenge
           /\ \A i \in 1..Len(signatures) : signatures[i] \in 1..Len(challenges)
           /\ \A k \in 1..Len(links) : /\ links[k] \in Links
                                       /\ links[k].signature \in 1..Len(signatures)
  BY LenProperties, ElementOfSeq DEF TypeOK

LEMMA IdleType == TypeOK => Idle \in Locals
  <1>1. [s \in Stages |-> Nothing] \in Data
    BY DEF Data
  <1> QED
    BY <1>1, Domains DEF Idle, Locals, Steps, TypeOK

LEMMA InitInvariant == Init => IInv
  <1> SUFFICES ASSUME Init PROVE IInv
    OBVIOUS
  <1> USE DEF Init
  <1>1. TypeOK
    <2>1. [s \in Stages |-> Nothing] \in Data
      BY DEF Data
    <2>2. Idle \in Locals
      BY <2>1 DEF Idle, Locals, Steps
    <2> QED
      BY <2>1, <2>2, EmptySeq, SigningAssumption DEF TypeOK
  <1>2. DOMAIN signatures = {} /\ DOMAIN links = {}
    OBVIOUS
  <1>3. \A r \in Requests : LocalInv(request[r])
    BY DEF LocalInv, Idle, Presenting, Signed, Writing
  <1> QED
    BY <1>1, <1>2, <1>3, SigningAssumption
    DEF IInv, OneWriter, SignedOnce, SealsLinked, ChainVerifies, ChallengeSignsOnce,
        Idle, Writing, Data

LEMMA LocalsStay ==
    ASSUME TypeOK, Appended, version' \in Nat, version <= version', NEW l \in Locals
    PROVE  l \in Locals'
  BY Domains DEF Appended, Locals, TypeOK

(* What has been signed stays signed by the same challenge. *)
LEMMA SignaturesStay ==
    ASSUME IInv, Appended
    PROVE  /\ DOMAIN challenges \subseteq DOMAIN challenges'
           /\ DOMAIN signatures \subseteq DOMAIN signatures'
           /\ \A i \in DOMAIN signatures :
                /\ signatures'[i] = signatures[i]
                /\ challenges'[signatures[i]].stage = challenges[signatures[i]].stage
                /\ challenges'[signatures[i]].content = challenges[signatures[i]].content
                /\ ~challenges'[signatures[i]].open
  <1>1. TypeOK /\ SignedOnce
    BY DEF IInv
  <1>2. /\ Len(challenges') \in Nat /\ DOMAIN challenges' = 1..Len(challenges')
        /\ Len(signatures') \in Nat /\ DOMAIN signatures' = 1..Len(signatures')
    BY LenProperties DEF Appended
  <1>3. 1..Len(challenges) \subseteq 1..Len(challenges') /\ 1..Len(signatures) \subseteq 1..Len(signatures')
    BY <1>1, <1>2, Domains DEF Appended
  <1>4. ASSUME NEW i \in 1..Len(signatures)
        PROVE  /\ signatures'[i] = signatures[i] /\ signatures[i] \in 1..Len(challenges)
               /\ ~challenges[signatures[i]].open
    BY <1>1, Domains DEF SignedOnce, Appended
  <1>5. ASSUME NEW i \in 1..Len(signatures)
        PROVE  /\ challenges'[signatures[i]].stage = challenges[signatures[i]].stage
               /\ challenges'[signatures[i]].content = challenges[signatures[i]].content
               /\ ~challenges'[signatures[i]].open
    BY <1>4 DEF Appended
  <1> QED
    BY <1>1, <1>2, <1>3, <1>4, <1>5, Domains

(* A request that does not move still knows what it knew, unless it holds  *)
(* the row and the row changes.                                            *)
LEMMA OthersKeep ==
    ASSUME IInv, Appended, NEW q \in Requests,
           \A s \in Stages : seals[s] # Nothing => seals'[s] # Nothing,
           request[q].pc \in Writing => UNCHANGED <<links, live, seals>>,
           request'[q] = request[q]
    PROVE  LocalInv(request[q])'
  <1>1. TypeOK /\ LocalInv(request[q])
    BY DEF IInv
  <1>2. /\ \A n \in DOMAIN challenges :
             /\ n \in DOMAIN challenges'
             /\ challenges'[n].stage = challenges[n].stage
             /\ challenges'[n].content = challenges[n].content
        /\ \A i \in DOMAIN signatures :
             i \in DOMAIN signatures' /\ signatures'[i] = signatures[i]
    BY <1>1, Domains, SignaturesStay DEF Appended
  <1>3. request[q].pc = "commit" => request[q].link =
            Link(request[q].signature, <<request[q].stage, request[q].content>>)'
    BY <1>1 DEF LocalInv, Link, LinkHash, Writing
  <1> QED
    BY <1>1, <1>2, <1>3 DEF LocalInv, Presenting, Signed, Writing

(* The chain stays as it is when nothing sealed is written. *)
LEMMA ChainStays ==
    ASSUME IInv, Appended, UNCHANGED <<links, seals>>,
           \A s \in Stages : seals[s] # Nothing => live'[s] = live[s]
    PROVE  SealsLinked' /\ ChainVerifies'
  <1>1. TypeOK /\ SealsLinked /\ ChainVerifies
    BY DEF IInv
  <1>2. \A k \in DOMAIN links : links[k].hash[1] \in Stages
    BY <1>1, Domains DEF Links, StageHash
  <1>3. \A k \in DOMAIN links : live'[links[k].hash[1]] = live[links[k].hash[1]]
    BY <1>1, <1>2 DEF SealsLinked
  <1>4. SealsLinked'
    BY <1>1 DEF SealsLinked
  <1>5. \A k \in DOMAIN links : Intact(k)'
    BY <1>1, <1>3 DEF ChainVerifies, Intact, LinkHash, Cumulative
  <1>6. \A k \in DOMAIN links : Genuine(k)'
    BY <1>1, Domains, SignaturesStay DEF ChainVerifies, Genuine
  <1> QED
    BY <1>4, <1>5, <1>6 DEF ChainVerifies

(* Request r goes on as n and adds no link: it takes, keeps or does not     *)
(* have the row, and does not write in a sealed stage.                     *)
GoesOn(r, n) ==
    /\ request' = [request EXCEPT ![r] = n]
    /\ n \in Locals'
    /\ LocalInv(n)'
    /\ \/ n.pc \in Writing /\ writer \in {Nothing, r} /\ writer' = r
       \/ n.pc \notin Writing /\ writer # r /\ writer' = writer

TablesGoOn ==
    /\ Appended /\ SignedOnce'
    /\ version' \in Nat /\ version <= version'
    /\ links' = links /\ seals' = seals
    /\ live' \in Data
    /\ \A s \in Stages : seals[s] # Nothing => live'[s] = live[s]
    /\ live' = live \/ writer = Nothing
    /\ done' \subseteq {s \in Stages : seals[s] # Nothing}
    /\ guard' \subseteq Stages
    /\ faults' \in 0..MaxFaults

LEMMA StepKeeps ==
    ASSUME IInv, NEW r \in Requests, NEW n, GoesOn(r, n), TablesGoOn
    PROVE  IInv'
  <1> USE DEF GoesOn, TablesGoOn
  <1>1. TypeOK /\ OneWriter
    BY DEF IInv
  <1>2. \A q \in Requests : request'[q] = IF q = r THEN n ELSE request[q]
    BY <1>1 DEF TypeOK
  <1>3. TypeOK'
    <2>1. \A q \in Requests : request'[q] \in Locals'
      BY <1>1, <1>2, LocalsStay DEF TypeOK
    <2>2. request' \in [Requests -> Locals']
      BY <1>1, <2>1 DEF TypeOK
    <2>3. \A k \in DOMAIN links : links'[k].signature \in DOMAIN signatures'
      BY <1>1, SignaturesStay DEF TypeOK
    <2> QED
      BY <1>1, <2>2, <2>3 DEF TypeOK, Appended
  <1>4. \A q \in Requests \ {r} : request[q].pc \in Writing => writer # Nothing
    BY <1>1, SigningAssumption DEF OneWriter
  <1>5. \A q \in Requests : LocalInv(request[q])'
    BY <1>2, <1>4, OthersKeep
  <1>6. OneWriter'
    BY <1>1, <1>2, SigningAssumption DEF OneWriter, TypeOK
  <1> QED
    BY <1>3, <1>5, <1>6, ChainStays DEF IInv

LEMMA SignedOnceStays ==
    ASSUME IInv, Appended, UNCHANGED signatures
    PROVE  SignedOnce'
  <1>1. SignedOnce
    BY DEF IInv
  <1> QED
    BY <1>1, SignaturesStay DEF SignedOnce, ChallengeSignsOnce

LEMMA NothingAppended ==
    ASSUME IInv, UNCHANGED <<challenges, signatures>>
    PROVE  Appended /\ SignedOnce'
  <1>1. TypeOK
    BY DEF IInv
  <1>2. Appended
    BY <1>1, Domains DEF Appended, TypeOK
  <1> QED
    BY <1>2, SignedOnceStays

LEMMA IdleKeeps ==
    ASSUME IInv, Appended, version' \in Nat
    PROVE  Idle \in Locals' /\ LocalInv(Idle)'
  <1>1. Len(challenges') \in Nat /\ Len(signatures') \in Nat
    BY LenProperties DEF Appended
  <1> QED
    BY <1>1 DEF Idle, Locals, Steps, Data, LocalInv, Presenting, Signed, Writing

LEMMA TablesStay ==
    ASSUME IInv, UNCHANGED rows, done' = done, guard' \subseteq Stages,
           faults' \in 0..MaxFaults
    PROVE  TablesGoOn
  <1>1. TypeOK
    BY DEF IInv
  <1>2. Appended /\ SignedOnce'
    BY NothingAppended DEF rows
  <1> QED
    BY <1>1, <1>2 DEF TablesGoOn, TypeOK, rows

(* A request that does not hold the row ends. *)
LEMMA LeaveGoesOn ==
    ASSUME IInv, Appended, version' \in Nat, NEW r \in Requests,
           request' = [request EXCEPT ![r] = Idle],
           request[r].pc \notin Writing, writer' = writer
    PROVE  \E n : GoesOn(r, n)
  <1>1. PICK n : n = Idle
    OBVIOUS
  <1>2. n \in Locals' /\ LocalInv(n)'
    BY <1>1, IdleKeeps
  <1>3. n.pc \notin Writing /\ writer # r
    BY <1>1 DEF Idle, Writing, IInv, OneWriter
  <1> QED
    BY <1>1, <1>2, <1>3 DEF GoesOn

(* A request goes on and the tables stay. *)
LEMMA MoveGoesOn ==
    ASSUME IInv, NEW r \in Requests, NEW n \in Locals,
           request' = [request EXCEPT ![r] = n], LocalInv(n), UNCHANGED rows,
           \/ n.pc \in Writing /\ writer \in {Nothing, r} /\ writer' = r
           \/ n.pc \notin Writing /\ writer # r /\ writer' = writer
    PROVE  GoesOn(r, n)
  <1>1. n \in Locals'
    BY DEF rows, Locals
  <1>2. LocalInv(n)'
    BY DEF LocalInv, rows, Link, LinkHash
  <1> QED
    BY <1>1, <1>2 DEF GoesOn

(* The world goes on around the requests. *)
LEMMA WorldKeeps ==
    ASSUME IInv, TablesGoOn, request' = request, writer' = writer
    PROVE  IInv'
  <1> USE DEF TablesGoOn
  <1>1. TypeOK /\ OneWriter
    BY DEF IInv
  <1>2. TypeOK'
    <2>1. \A q \in Requests : request'[q] \in Locals'
      BY <1>1, LocalsStay DEF TypeOK
    <2>2. request' \in [Requests -> Locals']
      BY <1>1, <2>1 DEF TypeOK
    <2>3. \A k \in DOMAIN links : links'[k].signature \in DOMAIN signatures'
      BY <1>1, SignaturesStay DEF TypeOK
    <2> QED
      BY <1>1, <2>2, <2>3 DEF TypeOK, Appended
  <1>3. \A q \in Requests : LocalInv(request[q])'
    BY <1>1, OthersKeep, SigningAssumption DEF OneWriter
  <1> QED
    BY <1>1, <1>2, <1>3, ChainStays DEF IInv, OneWriter

-----------------------------------------------------------------------------
(* The actions, one by one                                                 *)

LEMMA AskKeeps == ASSUME IInv, NEW r \in Requests, Ask(r) PROVE IInv'
  <1>1. TypeOK /\ LocalInv(request[r]) /\ OneWriter
    BY DEF IInv
  <1>2. PICK s \in Stages \ done :
          /\ challenges' = [n \in DOMAIN challenges |->
               IF challenges[n].stage = s THEN [challenges[n] EXCEPT !.open = FALSE]
                                          ELSE challenges[n]]
          /\ request' = [request EXCEPT ![r] = [Idle EXCEPT !.pc = "issue", !.stage = s]]
    BY DEF Ask
  <1>3. Appended
    <2>1. \A n \in 1..Len(challenges) :
            /\ challenges'[n] \in Challenge
            /\ challenges'[n].stage = challenges[n].stage
            /\ challenges'[n].content = challenges[n].content
            /\ challenges'[n].open => challenges[n].open
      BY <1>1, <1>2, Domains DEF Challenge
    <2>2. challenges' \in Seq(Challenge) /\ Len(challenges') = Len(challenges)
      BY <1>1, <1>2, <2>1, Domains
    <2>3. DOMAIN challenges' = DOMAIN challenges
      BY <1>2
    <2> QED
      BY <1>1, <2>1, <2>2, <2>3, Domains DEF Appended, TypeOK, Ask
  <1>4. PICK n : n = [Idle EXCEPT !.pc = "issue", !.stage = s]
    OBVIOUS
  <1>5. /\ n.pc = "issue" /\ n.stage = s
        /\ n \in Locals'
    BY <1>1, <1>2, <1>3, <1>4, IdleKeeps DEF Ask, TypeOK, Idle, Locals, Steps
  <1>6. LocalInv(n)' /\ n.pc \notin Writing
    BY <1>5 DEF LocalInv, Presenting, Signed, Writing
  <1>7. GoesOn(r, n)
    BY <1>1, <1>2, <1>4, <1>5, <1>6 DEF GoesOn, Ask, OneWriter, Writing
  <1>8. TablesGoOn
    BY <1>1, <1>3, SignedOnceStays DEF TablesGoOn, Ask, TypeOK
  <1> QED
    BY <1>7, <1>8, StepKeeps

LEMMA IssueKeeps == ASSUME IInv, NEW r \in Requests, Issue(r) PROVE IInv'
  <1>1. TypeOK /\ LocalInv(request[r]) /\ OneWriter
    BY DEF IInv
  <1>2. Appended
    <2>1. CASE UNCHANGED challenges
      BY <2>1, NothingAppended DEF Issue
    <2>2. ASSUME Len(challenges) < MaxChallenges, NEW c \in Contents,
                 challenges' = Append(challenges,
                     [stage |-> request[r].stage, content |-> c, open |-> TRUE])
          PROVE  Appended
      <3>1. request[r].stage \in Stages
        BY <1>1 DEF Issue, LocalInv
      <3>2. /\ challenges' \in Seq(Challenge) /\ Len(challenges') = Len(challenges) + 1
            /\ \A n \in 1..Len(challenges) : challenges'[n] = challenges[n]
        BY <1>1, <2>2, <3>1, Domains, AppendProperties DEF Challenge, TypeOK
      <3>3. DOMAIN challenges \subseteq DOMAIN challenges'
        BY <1>1, <3>2, Domains, LenProperties
      <3>4. signatures \in Seq(DOMAIN challenges')
        BY <1>1, <3>3, SeqMonotonic DEF TypeOK
      <3> QED
        BY <1>1, <2>2, <3>2, <3>4, Domains, SigningAssumption DEF Appended, Issue, TypeOK
    <2> QED
      BY <2>1, <2>2 DEF Issue
  <1>3. \E n : GoesOn(r, n)
    BY <1>1, <1>2, LeaveGoesOn DEF Issue, TypeOK, Writing
  <1>4. TablesGoOn
    BY <1>1, <1>2, SignedOnceStays DEF TablesGoOn, Issue, TypeOK
  <1> QED
    BY <1>3, <1>4, StepKeeps

LEMMA BeginKeeps == ASSUME IInv, NEW r \in Requests, Begin(r) PROVE IInv'
  <1>1. TypeOK /\ LocalInv(request[r]) /\ OneWriter
    BY DEF IInv
  <1>2. PICK m \in DOMAIN challenges, s \in Stages \ done, c \in Contents :
          /\ Ready(m, s, c)
          /\ request' = [request EXCEPT ![r] =
               [Idle EXCEPT !.pc = "guard", !.stage = s, !.challenge = m,
                            !.content = c, !.version = version, !.data = live]]
    BY DEF Begin
  <1>3. PICK n : n = [Idle EXCEPT !.pc = "guard", !.stage = s, !.challenge = m,
                            !.content = c, !.version = version, !.data = live]
    OBVIOUS
  <1>4. n = [pc |-> "guard", stage |-> s, challenge |-> m, content |-> c,
             version |-> version, data |-> live, signature |-> 0, link |-> Nothing]
    BY <1>3, Zenon DEF Idle
  <1>5. request' = [request EXCEPT ![r] = n]
    BY <1>2, <1>3
  <1>6. /\ n.pc = "guard" /\ n.stage = s /\ n.challenge = m /\ n.content = c
        /\ n \in Locals
    BY <1>1, <1>2, <1>4, Domains DEF TypeOK, Locals, Steps
  <1>7. LocalInv(n) /\ n.pc \notin Writing
    BY <1>1, <1>2, <1>6 DEF LocalInv, Presenting, Signed, Writing, Ready
  <1>8. writer # r /\ writer' = writer /\ UNCHANGED rows
    BY <1>1 DEF Begin, OneWriter, Writing
  <1>9. GoesOn(r, n)
    BY <1>5, <1>6, <1>7, <1>8, MoveGoesOn
  <1>10. TablesGoOn
    BY <1>1, TablesStay DEF Begin, TypeOK
  <1> QED
    BY <1>9, <1>10, StepKeeps

(* Closing a challenge changes nothing else. *)
LEMMA CloseOne ==
    ASSUME TypeOK, NEW m \in 1..Len(challenges), NEW c,
           c = [challenges[m] EXCEPT !.open = FALSE]
    PROVE  /\ c \in Challenge /\ ~c.open
           /\ c.stage = challenges[m].stage /\ c.content = challenges[m].content
  <1>1. challenges[m] \in Challenge
    BY Domains
  <1> QED
    BY <1>1 DEF Challenge

LEMMA OneClosed ==
    ASSUME TypeOK, NEW m \in 1..Len(challenges), NEW c \in Challenge, ~c.open,
           c.stage = challenges[m].stage, c.content = challenges[m].content,
           challenges' = [challenges EXCEPT ![m] = c]
    PROVE  /\ challenges' \in Seq(Challenge)
           /\ Len(challenges') = Len(challenges)
           /\ DOMAIN challenges' = 1..Len(challenges)
           /\ \A k \in 1..Len(challenges) :
                /\ challenges'[k].stage = challenges[k].stage
                /\ challenges'[k].content = challenges[k].content
                /\ challenges'[k].open <=> k # m /\ challenges[k].open
  <1>1. challenges \in Seq(Challenge)
    BY DEF TypeOK
  <1>2. /\ challenges' \in Seq(Challenge) /\ Len(challenges') = Len(challenges)
        /\ \A k \in 1..Len(challenges) :
              challenges'[k] = IF k = m THEN c ELSE challenges[k]
    BY <1>1, ExceptSeq
  <1>3. DOMAIN challenges' = 1..Len(challenges)
    BY Domains
  <1> QED
    BY <1>2, <1>3

LEMMA ExpireKeeps == ASSUME IInv, NEW n \in DOMAIN challenges, Expire(n) PROVE IInv'
  <1>1. TypeOK
    BY DEF IInv
  <1>2. Appended
    <2>1. /\ challenges' \in Seq(Challenge) /\ Len(challenges') = Len(challenges)
          /\ DOMAIN challenges' = DOMAIN challenges
          /\ \A k \in 1..Len(challenges) :
               /\ challenges'[k].stage = challenges[k].stage
               /\ challenges'[k].content = challenges[k].content
               /\ challenges'[k].open => challenges[k].open
      <3>1. PICK c : c = [challenges[n] EXCEPT !.open = FALSE]
        OBVIOUS
      <3>2. challenges' = [challenges EXCEPT ![n] = c]
        BY <3>1, Zenon DEF Expire
      <3>3. /\ c \in Challenge /\ ~c.open /\ n \in 1..Len(challenges)
            /\ c.stage = challenges[n].stage /\ c.content = challenges[n].content
        BY <1>1, <3>1, CloseOne, Domains
      <3> QED
        BY <1>1, <3>2, <3>3, OneClosed, Domains
    <2>2. signatures \in Seq(DOMAIN challenges) /\ signatures' = signatures
          /\ Len(challenges) <= MaxChallenges
      BY <1>1 DEF TypeOK, Expire
    <2> QED
      BY <1>1, <2>1, <2>2, Domains DEF Appended
  <1>3. TablesGoOn
    BY <1>1, <1>2, SignedOnceStays, SigningAssumption DEF TablesGoOn, Expire, TypeOK
  <1> QED
    BY <1>3, WorldKeeps DEF Expire

LEMMA TakeGuardKeeps == ASSUME IInv, NEW r \in Requests, TakeGuard(r) PROVE IInv'
  <1>1. TypeOK /\ LocalInv(request[r]) /\ request[r] \in Locals
    BY DEF IInv, TypeOK
  <1>2. /\ request[r].pc = "guard" /\ request[r].stage \in Stages
        /\ UNCHANGED rows /\ writer' = writer /\ done' = done /\ faults' = faults
        /\ guard' \subseteq Stages
    BY <1>1 DEF TakeGuard, LocalInv, Leave, TypeOK
  <1>3. TablesGoOn
    BY <1>1, <1>2, TablesStay DEF TypeOK
  <1>4. CASE request' = [request EXCEPT ![r] = Idle]
    <2>1. Appended /\ version' \in Nat /\ request[r].pc \notin Writing
      BY <1>1, <1>2, NothingAppended DEF Writing, TypeOK, rows
    <2> QED
      BY <1>2, <1>3, <1>4, <2>1, LeaveGoesOn, StepKeeps
  <1>5. CASE request' = [request EXCEPT ![r].pc = "sign"]
    <2>1. PICK n : n = [request[r] EXCEPT !.pc = "sign"]
      OBVIOUS
    <2>2. request' = [request EXCEPT ![r] = n]
      BY <1>5, <2>1
    <2>3. n \in Locals /\ LocalInv(n) /\ n.pc = "sign"
      BY <1>1, <1>2, <2>1 DEF Locals, Steps, LocalInv, Presenting, Signed, Writing
    <2>4. n.pc \notin Writing /\ writer # r
      BY <1>2, <2>3 DEF IInv, OneWriter, Writing
    <2> QED
      BY <1>2, <1>3, <2>2, <2>3, <2>4, MoveGoesOn, StepKeeps
  <1> QED
    BY <1>4, <1>5 DEF TakeGuard, Leave, Goto

LEMMA SignKeeps == ASSUME IInv, NEW r \in Requests, Sign(r) PROVE IInv'
  <1> DEFINE m == request[r].challenge
             d == [request[r].data EXCEPT ![request[r].stage] = request[r].content]
  <1>1. TypeOK /\ LocalInv(request[r]) /\ request[r] \in Locals
    BY DEF IInv, TypeOK
  <1>2. /\ request[r].pc = "sign" /\ request[r].stage \in Stages
        /\ m \in 1..Len(challenges) /\ challenges[m] \in Challenge
        /\ challenges[m].stage = request[r].stage
        /\ challenges[m].content = request[r].content
        /\ UNCHANGED <<links, live, version, seals, writer, done, faults>>
    BY <1>1, Domains DEF Sign, LocalInv, Presenting
  <1>3. CASE /\ ~Usable(m)
             /\ Leave(r, {request[r].stage}) /\ UNCHANGED <<signatures, challenges>>
    <2>1. /\ UNCHANGED rows /\ request[r].pc \notin Writing /\ guard' \subseteq Stages
          /\ faults' \in 0..MaxFaults
      BY <1>1, <1>2, <1>3 DEF rows, Writing, Leave, TypeOK
    <2>2. TablesGoOn
      BY <1>2, <2>1, TablesStay
    <2>3. Appended /\ version' \in Nat
      BY <1>1, <1>2, <1>3, NothingAppended DEF TypeOK
    <2> QED
      BY <1>2, <1>3, <2>1, <2>2, <2>3, LeaveGoesOn, StepKeeps DEF Leave
  <1>4. CASE /\ challenges[m].open
             /\ signatures' = Append(signatures, m)
             /\ challenges' = [challenges EXCEPT ![m].open = FALSE]
             /\ request' = [request EXCEPT ![r].pc = "save",
                                           ![r].signature = Len(signatures) + 1,
                                           ![r].data[request[r].stage] = request[r].content]
             /\ UNCHANGED guard
    <2>1. /\ challenges' \in Seq(Challenge)
          /\ Len(challenges') = Len(challenges)
          /\ DOMAIN challenges' = 1..Len(challenges)
          /\ \A k \in 1..Len(challenges) :
               /\ challenges'[k].stage = challenges[k].stage
               /\ challenges'[k].content = challenges[k].content
               /\ challenges'[k].open <=> k # m /\ challenges[k].open
      <3>1. PICK c : c = [challenges[m] EXCEPT !.open = FALSE]
        OBVIOUS
      <3>2. challenges' = [challenges EXCEPT ![m] = c]
        BY <1>4, <3>1, Zenon
      <3>3. /\ c \in Challenge /\ ~c.open
            /\ c.stage = challenges[m].stage /\ c.content = challenges[m].content
        BY <1>1, <1>2, <3>1, CloseOne
      <3> QED
        BY <1>1, <1>2, <3>2, <3>3, OneClosed
    <2>2. signatures \in Seq(1..Len(challenges))
      BY <1>1, Domains DEF TypeOK
    <2>3. /\ signatures' \in Seq(1..Len(challenges)) /\ Len(signatures') = Len(signatures) + 1
          /\ \A i \in 1..Len(signatures) : signatures'[i] = signatures[i]
          /\ signatures'[Len(signatures) + 1] = m
      BY <1>2, <1>4, <2>2, AppendProperties
    <2>6. Appended
      BY <1>1, <2>1, <2>3, Domains DEF Appended, TypeOK
    <2>7. DOMAIN signatures' = 1..(Len(signatures) + 1)
      BY <1>1, <2>3, LenProperties, Domains
    <2>8. SignedOnce'
      <3>1. SignedOnce /\ \A i \in 1..Len(signatures) : signatures[i] # m
        BY <1>1, <1>4, Domains DEF IInv, SignedOnce
      <3>2. \A i \in 1..Len(signatures) : /\ signatures'[i] \in 1..Len(challenges)
                                          /\ ~challenges'[signatures'[i]].open
        BY <1>1, <2>1, <2>3, <3>1, Domains DEF SignedOnce
      <3>3. ~challenges'[m].open
        BY <1>2, <2>1
      <3>4. \A i \in 1..(Len(signatures) + 1) :
              i \in 1..Len(signatures) \/ i = Len(signatures) + 1
        BY <1>1, Domains
      <3>5. \A i \in DOMAIN signatures' : ~challenges'[signatures'[i]].open
        BY <2>3, <2>7, <3>2, <3>3, <3>4
      <3>6. \A i, j \in 1..(Len(signatures) + 1) : signatures'[i] = signatures'[j] => i = j
        <4>1. \A i, j \in 1..Len(signatures) : signatures'[i] = signatures'[j] => i = j
          BY <1>1, <2>3, <3>1, Domains DEF SignedOnce, ChallengeSignsOnce
        <4>2. \A i \in 1..Len(signatures) : signatures'[i] # m
          BY <2>3, <3>1
        <4> QED
          BY <2>3, <3>4, <4>1, <4>2
      <3> QED
        BY <2>7, <3>5, <3>6 DEF SignedOnce, ChallengeSignsOnce
    <2>4. PICK n : n = [request[r] EXCEPT !.pc = "save", !.signature = Len(signatures) + 1,
                                          !.data = d]
      OBVIOUS
    <2>9. request' = [request EXCEPT ![r] = n]
      BY <1>1, <1>4, <2>4, Zenon DEF TypeOK
    <2>10. d \in Data /\ d[request[r].stage] = request[r].content
      BY <1>1, <1>2 DEF Locals, Data, Challenge
    <2> HIDE DEF d
    <2>11. /\ n.pc = "save" /\ n.stage = request[r].stage /\ n.challenge = m
           /\ n.content = request[r].content /\ n.signature = Len(signatures) + 1 /\ n.data = d
           /\ n \in Locals'
      <3>1. request[r] \in Locals'
        BY <1>1, <1>2, <2>6, LocalsStay DEF TypeOK
      <3>2. Len(signatures) + 1 \in 0..Len(signatures')
        BY <1>1, <2>3, Domains
      <3> QED
        BY <2>4, <2>10, <3>1, <3>2 DEF Locals, Steps
    <2>12. LocalInv(n)'
      <3>1. /\ m \in DOMAIN challenges' /\ challenges'[m].stage = n.stage
            /\ challenges'[m].content = n.content
        BY <1>2, <2>1, <2>11
      <3>2. n.signature \in DOMAIN signatures' /\ signatures'[n.signature] = m
        BY <1>1, <2>3, <2>7, <2>11, Domains
      <3> QED
        BY <1>2, <2>10, <2>11, <3>1, <3>2 DEF LocalInv, Presenting, Signed, Writing
    <2>13. n.pc \notin Writing /\ writer # r
      BY <1>2, <2>11 DEF IInv, OneWriter, Writing
    <2>14. GoesOn(r, n)
      BY <1>2, <2>9, <2>11, <2>12, <2>13 DEF GoesOn
    <2>15. TablesGoOn
      BY <1>1, <1>2, <1>4, <2>6, <2>8 DEF TablesGoOn, TypeOK
    <2> QED
      BY <2>14, <2>15, StepKeeps
  <1> QED
    BY <1>3, <1>4 DEF Sign, Usable

(* The content that was signed is not empty, and the data of a request     *)
(* that has signed have it.                                                *)
LEMMA SignedContent ==
    ASSUME IInv, NEW r \in Requests, request[r].pc \in Signed
    PROVE  /\ request[r].stage \in Stages /\ request[r].content \in Contents
           /\ request[r].data[request[r].stage] = request[r].content
           /\ request[r].content # Nothing
  <1>1. TypeOK /\ LocalInv(request[r]) /\ request[r].pc \in Presenting
    BY DEF IInv, Signed, Presenting
  <1>2. request[r].stage \in Stages
    BY <1>1 DEF LocalInv, Presenting
  <1>3. /\ request[r].challenge \in 1..Len(challenges)
        /\ challenges[request[r].challenge] \in Challenge
        /\ challenges[request[r].challenge].content = request[r].content
        /\ request[r].data[request[r].stage] = request[r].content
    BY <1>1, Domains DEF LocalInv
  <1> QED
    BY <1>2, <1>3, SigningAssumption DEF Challenge

(* What is stored keeps what is sealed. *)
LEMMA StoredKeeps ==
    ASSUME IInv, NEW data \in Data
    PROVE  /\ Stored(data) \in Data
           /\ \A s \in Stages : seals[s] # Nothing => Stored(data)[s] = live[s]
           /\ \A s \in Stages : data[s] # Nothing /\ ~Frozen(data) => Stored(data)[s] = data[s]
  <1>1. live \in Data /\ \A s \in Stages : seals[s] # Nothing => seals[s] = live[s]
    BY DEF IInv, TypeOK, SealsLinked
  <1> QED
    BY <1>1 DEF Stored, Frozen, Data

LEMMA MergeKeeps ==
    ASSUME NEW fresh \in Data, NEW incoming \in Data
    PROVE  /\ Merge(fresh, incoming) \in Data
           /\ \A s \in Stages : incoming[s] # Nothing => Merge(fresh, incoming)[s] = incoming[s]
  BY DEF Merge, Data

(* After a conflict the request still has what it signed. *)
LEMMA RetryGoesOn ==
    ASSUME IInv, NEW r \in Requests, Retry(r), request[r].pc \in {"save", "checkpoint"},
           UNCHANGED rows, writer' = writer
    PROVE  \E n : GoesOn(r, n)
  <1>1. TypeOK /\ LocalInv(request[r]) /\ request[r] \in Locals
    BY DEF IInv, TypeOK
  <1>2. PICK d : d = Merge(live, request[r].data)
    OBVIOUS
  <1>3. d \in Data /\ \A s \in Stages : request[r].data[s] # Nothing => d[s] = request[r].data[s]
    BY <1>1, <1>2, MergeKeeps DEF Locals, TypeOK
  <1>4. PICK n : n = [request[r] EXCEPT !.version = version, !.data = d]
    OBVIOUS
  <1>5. request' = [request EXCEPT ![r] = n]
    BY <1>1, <1>2, <1>4, Zenon DEF Retry, TypeOK
  <1>6. /\ n \in Locals /\ n.pc = request[r].pc /\ n.stage = request[r].stage
        /\ n.challenge = request[r].challenge /\ n.content = request[r].content
        /\ n.signature = request[r].signature /\ n.data = d
    <2>1. version \in 0..version
      BY <1>1 DEF TypeOK
    <2> QED
      BY <1>1, <1>3, <1>4, <2>1 DEF Locals
  <1>7. request[r].pc = "save" => n.data[n.stage] = n.content
    BY <1>3, <1>6, SignedContent DEF Signed
  <1>8. LocalInv(n)
    BY <1>1, <1>6, <1>7 DEF LocalInv, Presenting, Signed, Writing
  <1>9. n.pc \notin Writing /\ writer # r
    BY <1>6 DEF IInv, OneWriter, Writing
  <1> QED
    BY <1>5, <1>6, <1>8, <1>9, MoveGoesOn

LEMMA SaveKeeps == ASSUME IInv, NEW r \in Requests, Save(r) PROVE IInv'
  <1>1. TypeOK /\ LocalInv(request[r]) /\ request[r] \in Locals
    BY DEF IInv, TypeOK
  <1>2. /\ request[r].pc = "save" /\ writer = Nothing
        /\ UNCHANGED rows /\ done' = done /\ faults' = faults
        /\ request[r].data \in Data
    BY <1>1 DEF Save, Locals
  <1>3. guard' \subseteq Stages
    BY <1>1 DEF Save, Leave, TypeOK
  <1>4. TablesGoOn
    BY <1>1, <1>2, <1>3, TablesStay DEF TypeOK
  <1>5. CASE Retry(r) /\ writer' = writer
    BY <1>2, <1>4, <1>5, RetryGoesOn, StepKeeps
  <1>6. CASE request' = [request EXCEPT ![r] = Idle] /\ writer' = writer
    <2>1. Appended /\ version' \in Nat /\ request[r].pc \notin Writing
      BY <1>1, <1>2, NothingAppended DEF Writing, TypeOK, rows
    <2> QED
      BY <1>4, <1>6, <2>1, LeaveGoesOn, StepKeeps
  <1>7. CASE /\ ~Frozen(request[r].data)
             /\ writer' = r
             /\ request' = [request EXCEPT ![r].pc = "link",
                                           ![r].data = Stored(request[r].data)]
    <2>1. PICK d : d = Stored(request[r].data)
      OBVIOUS
    <2>2. d \in Data /\ \A s \in Stages : seals[s] # Nothing => d[s] = live[s]
      BY <1>2, <2>1, StoredKeeps
    <2>3. d[request[r].stage] = request[r].content
      BY <1>2, <1>7, <2>1, StoredKeeps, SignedContent DEF Signed
    <2>4. PICK n : n = [request[r] EXCEPT !.pc = "link", !.data = d]
      OBVIOUS
    <2>5. request' = [request EXCEPT ![r] = n]
      BY <1>1, <1>7, <2>1, <2>4, Zenon DEF TypeOK
    <2>6. /\ n \in Locals /\ n.pc = "link" /\ n.stage = request[r].stage
          /\ n.challenge = request[r].challenge /\ n.content = request[r].content
          /\ n.signature = request[r].signature /\ n.data = d
      BY <1>1, <2>2, <2>4 DEF Locals, Steps
    <2>7. LocalInv(n) /\ n.pc \in Writing
      BY <1>1, <1>2, <2>2, <2>3, <2>6 DEF LocalInv, Presenting, Signed, Writing
    <2>8. GoesOn(r, n)
      BY <1>2, <1>7, <2>5, <2>6, <2>7, MoveGoesOn
    <2> QED
      BY <1>4, <2>8, StepKeeps
  <1> QED
    BY <1>5, <1>6, <1>7 DEF Save, Leave

(* The next link is well typed and of the next order. *)
LEMMA LinkType ==
    ASSUME TypeOK, NEW signature \in Nat, NEW hash \in StageHash
    PROVE  Link(signature, hash) \in Links
  <1>1. /\ Len(links) + 1 \in Nat /\ NoHash \in {NoHash} /\ <<>> \in Seq(StageHash)
    BY Domains
  <1>2. Len(links) # 0 =>
          /\ LinkHash(links[Len(links)]) \in Seq(StageHash) \X Nat \X Nat
          /\ links[Len(links)].cumulative \in Seq(StageHash)
    BY Domains DEF LinkHash, Links
  <1>3. Append(IF Len(links) = 0 THEN <<>> ELSE links[Len(links)].cumulative, hash)
           \in Seq(StageHash)
    BY <1>1, <1>2, AppendProperties
  <1> QED
    BY <1>1, <1>2, <1>3 DEF Link, Links, Cumulative

LEMMA AppendLinkKeeps == ASSUME IInv, NEW r \in Requests, AppendLink(r) PROVE IInv'
  <1>1. TypeOK /\ LocalInv(request[r]) /\ request[r] \in Locals
    BY DEF IInv, TypeOK
  <1>2. /\ request[r].pc = "link" /\ UNCHANGED rows /\ done' = done /\ faults' = faults
        /\ writer' = writer /\ writer = r /\ guard' = guard
    BY DEF AppendLink, IInv, OneWriter, Writing
  <1>3. TablesGoOn
    BY <1>1, <1>2, TablesStay DEF TypeOK
  <1>4. PICK hash : hash = <<request[r].stage, request[r].content>>
    OBVIOUS
  <1>5. /\ challenges[request[r].challenge].stage = request[r].stage
        /\ challenges[request[r].challenge].content = request[r].content
        /\ hash \in StageHash
    BY <1>1, <1>2, <1>4, SignedContent DEF LocalInv, Presenting, Signed, StageHash
  <1>6. PICK link : link = Link(request[r].signature, hash)
    OBVIOUS
  <1>7. link \in Links
    BY <1>1, <1>5, <1>6, LinkType, Domains DEF Locals
  <1>8. PICK n : n = [request[r] EXCEPT !.pc = "commit", !.link = link]
    OBVIOUS
  <1>9. request' = [request EXCEPT ![r] = n]
    BY <1>1, <1>4, <1>5, <1>6, <1>8, Zenon DEF AppendLink, TypeOK
  <1>10. /\ n \in Locals /\ n.pc = "commit" /\ n.stage = request[r].stage
         /\ n.challenge = request[r].challenge /\ n.content = request[r].content
         /\ n.signature = request[r].signature /\ n.data = request[r].data
         /\ n.link = link
    BY <1>1, <1>7, <1>8 DEF Locals, Steps
  <1>11. LocalInv(n) /\ n.pc \in Writing
    BY <1>1, <1>2, <1>4, <1>6, <1>10 DEF LocalInv, Presenting, Signed, Writing
  <1>12. GoesOn(r, n)
    BY <1>2, <1>9, <1>10, <1>11, MoveGoesOn
  <1> QED
    BY <1>3, <1>12, StepKeeps

(* The commit of the data, the link and the seal. *)
LEMMA CommitKeeps == ASSUME IInv, NEW r \in Requests, Commit(r) PROVE IInv'
  <1> DEFINE s == request[r].stage
             c == request[r].content
             d == request[r].data
             new == request[r].link
  <1>0. PICK last : last = Len(links) + 1
    OBVIOUS
  <1>1. TypeOK /\ LocalInv(request[r]) /\ request[r] \in Locals /\ OneWriter
    BY DEF IInv, TypeOK
  <1>2. /\ request[r].pc = "commit" /\ writer = r /\ writer' = Nothing
        /\ UNCHANGED <<challenges, signatures, done, faults>>
    BY <1>1 DEF Commit, OneWriter, Writing
  <1>3. /\ s \in Stages /\ c \in Contents /\ c # Nothing /\ d[s] = c
        /\ d \in Data /\ <<s, c>> \in StageHash
    BY <1>1, <1>2, SignedContent DEF Signed, Locals, StageHash
  <1>4. /\ new = Link(request[r].signature, <<s, c>>)
        /\ request[r].signature \in 1..Len(signatures)
        /\ signatures[request[r].signature] = request[r].challenge
        /\ challenges[request[r].challenge].stage = s
        /\ challenges[request[r].challenge].content = c
        /\ \A t \in Stages : seals[t] # Nothing => d[t] = live[t]
    BY <1>1, <1>2, Domains DEF LocalInv, Presenting, Signed, Writing
  <1>5. /\ new \in Links /\ new.order = last /\ new.hash = <<s, c>>
        /\ new.signature = request[r].signature
    BY <1>0, <1>1, <1>3, <1>4, LinkType DEF Link
  <1>6. SealsLinked /\ ChainVerifies /\ SignedOnce
    BY DEF IInv
  <1>7. /\ links' = Append(links, new) /\ live' = d /\ version' = version + 1
        /\ seals' = [seals EXCEPT ![s] = IF @ = Nothing THEN c ELSE @]
        /\ request' = [request EXCEPT ![r].pc = "camunda", ![r].version = version + 1]
        /\ guard' = guard
    <2>1. new.order \notin {links[k].order : k \in DOMAIN links}
      BY <1>0, <1>1, <1>5, <1>6, Domains DEF ChainVerifies, Intact
    <2> QED
      BY <1>3, <2>1 DEF Commit, Chained, Seal
  <1>8. Appended /\ SignedOnce'
    BY <1>2, NothingAppended
  <1>9. /\ links' \in Seq(Links) /\ Len(links') = last
        /\ \A k \in 1..Len(links) : links'[k] = links[k]
        /\ links'[last] = new /\ DOMAIN links' = 1..last
    <2>1. links \in Seq(Links)
      BY <1>1 DEF TypeOK
    <2>2. /\ links' \in Seq(Links) /\ Len(links') = last
          /\ \A k \in 1..Len(links) : links'[k] = links[k]
          /\ links'[last] = new
      BY <1>0, <1>5, <1>7, <2>1, AppendProperties
    <2> QED
      BY <2>2, LenProperties
  <1>10. /\ \A k \in 1..last : k \in 1..Len(links) \/ k = last
         /\ \A k \in 1..Len(links) : k \in 1..last
         /\ last \in 1..last
    BY <1>0, <1>1, Domains
  <1>11. \A t \in Stages : seals[t] # Nothing => seals'[t] = seals[t] /\ live'[t] = live[t]
    BY <1>1, <1>3, <1>4, <1>7 DEF TypeOK, Data
  <1>12. /\ seals' \in Data /\ seals'[s] # Nothing
         /\ seals'[s] = c /\ live'[s] = c
         /\ \A t \in Stages : seals'[t] # Nothing /\ t # s => seals[t] # Nothing
    BY <1>1, <1>3, <1>4, <1>6, <1>7 DEF TypeOK, Data, SealsLinked
  <1>13. PICK n : n = [request[r] EXCEPT !.pc = "camunda", !.version = version + 1]
    OBVIOUS
  <1>14. /\ n \in Locals' /\ n.pc = "camunda" /\ n.stage = s
    <2>1. request[r] \in Locals' /\ version + 1 \in 0..version'
      BY <1>1, <1>7, <1>8, LocalsStay DEF TypeOK
    <2> QED
      BY <1>13, <2>1 DEF Locals, Steps
  <1>15. \A q \in Requests : request'[q] = IF q = r THEN n ELSE request[q]
    <2>1. request' = [request EXCEPT ![r] = n]
      BY <1>1, <1>7, <1>13, Zenon DEF TypeOK
    <2> QED
      BY <1>1, <2>1 DEF TypeOK
  <1>16. TypeOK'
    <2>1. \A q \in Requests : request'[q] \in Locals'
      BY <1>1, <1>7, <1>8, <1>14, <1>15, LocalsStay DEF TypeOK
    <2>2. request' \in [Requests -> Locals']
      BY <1>1, <1>7, <2>1 DEF TypeOK
    <2>3. \A k \in DOMAIN links' : links'[k].signature \in DOMAIN signatures'
      BY <1>1, <1>2, <1>4, <1>5, <1>9, <1>10, Domains
    <2>4. done' \subseteq {t \in Stages : seals'[t] # Nothing}
      BY <1>1, <1>2, <1>11 DEF TypeOK
    <2> QED
      BY <1>1, <1>2, <1>3, <1>7, <1>9, <1>12, <2>2, <2>3, <2>4, SMTT(30) DEF TypeOK
  <1>17. \A q \in Requests : LocalInv(request[q])'
    <2>1. LocalInv(n)'
      BY <1>3, <1>12, <1>14 DEF LocalInv, Presenting, Signed, Writing
    <2>2. \A q \in Requests \ {r} : request[q].pc \notin Writing
      BY <1>1, <1>2 DEF OneWriter
    <2>3. ASSUME NEW q \in Requests \ {r} PROVE LocalInv(request[q])'
      BY <1>8, <1>11, <1>15, <2>2, OthersKeep
    <2> QED
      BY <1>15, <2>1, <2>3
  <1>18. OneWriter'
    BY <1>1, <1>2, <1>14, <1>15, SigningAssumption DEF OneWriter, Writing
  <1>19. SealsLinked'
    <2>1. ASSUME NEW t \in Stages, seals'[t] # Nothing
          PROVE  seals'[t] = live'[t] /\ \E k \in DOMAIN links' : links'[k].hash = <<t, live'[t]>>
      <3>1. CASE t = s
        BY <1>5, <1>9, <1>10, <1>12, <3>1
      <3>2. CASE t # s
        <4>1. seals[t] # Nothing
          BY <1>12, <2>1, <3>2
        <4>2. PICK k \in 1..Len(links) : links[k].hash = <<t, live[t]>>
          BY <1>1, <1>6, <4>1, Domains DEF SealsLinked
        <4>3. k \in DOMAIN links' /\ links'[k].hash = <<t, live'[t]>>
          BY <1>9, <1>10, <1>11, <4>1, <4>2
        <4> QED
          BY <1>6, <1>11, <4>1, <4>3 DEF SealsLinked
      <3> QED
        BY <3>1, <3>2
    <2>2. \A k \in DOMAIN links : links[k].hash[1] \in Stages
      BY <1>1, Domains DEF Links, StageHash
    <2>3. ASSUME NEW k \in DOMAIN links' PROVE seals'[links'[k].hash[1]] # Nothing
      <3>1. CASE k \in 1..Len(links)
        <4>1. links[k].hash[1] \in Stages /\ seals[links[k].hash[1]] # Nothing
          BY <1>1, <1>6, <2>2, <3>1, Domains DEF SealsLinked
        <4> QED
          BY <1>9, <1>11, <3>1, <4>1
      <3>2. CASE k = last
        BY <1>5, <1>9, <1>12, <3>2
      <3> QED
        BY <1>9, <1>10, <3>1, <3>2
    <2> QED
      BY <2>1, <2>3 DEF SealsLinked
  <1>20. ChainVerifies'
    <2>1. ASSUME NEW k \in 1..Len(links) PROVE Intact(k)' /\ Genuine(k)'
      <3>1. Intact(k) /\ Genuine(k) /\ links[k].hash[1] \in Stages /\ seals[links[k].hash[1]] # Nothing
        BY <1>1, <1>6, Domains DEF ChainVerifies, SealsLinked, Links, StageHash
      <3>2. links'[k] = links[k] /\ (k # 1 => links'[k - 1] = links[k - 1])
        BY <1>1, <1>9, Domains
      <3>3. Intact(k)'
        BY <1>11, <3>1, <3>2 DEF Intact, LinkHash, Cumulative
      <3> QED
        BY <1>2, <3>1, <3>2, <3>3 DEF Genuine
    <2>2. Intact(last)'
      <3>1. last # 1 => links'[last - 1] = links[Len(links)] /\ last - 1 = Len(links)
        BY <1>0, <1>1, <1>9, Domains
      <3>2. last = 1 <=> Len(links) = 0
        BY <1>0, <1>1, Domains
      <3>3. /\ new.previous = IF last = 1 THEN NoHash ELSE LinkHash(links'[last - 1])
            /\ new.cumulative = Cumulative(IF last = 1 THEN <<>> ELSE links'[last - 1].cumulative,
                                           <<s, c>>)
        BY <1>4, <3>1, <3>2 DEF Link
      <3>4. /\ links'[last].order = last /\ links'[last].hash = <<s, c>>
            /\ links'[last].previous = new.previous /\ links'[last].cumulative = new.cumulative
        BY <1>5, <1>9
      <3>5. live'[s] = c /\ (seals'[s] # Nothing => seals'[s] = c)
        BY <1>12
      <3> QED
        BY <3>3, <3>4, <3>5 DEF Intact
    <2>3. Genuine(last)'
      BY <1>2, <1>4, <1>5, <1>9 DEF Genuine
    <2> QED
      BY <1>9, <1>10, <2>1, <2>2, <2>3 DEF ChainVerifies
  <1> QED
    BY <1>8, <1>16, <1>17, <1>18, <1>19, <1>20 DEF IInv

LEMMA CamundaKeeps == ASSUME IInv, NEW r \in Requests, Camunda(r) PROVE IInv'
  <1>1. TypeOK /\ LocalInv(request[r]) /\ request[r] \in Locals
    BY DEF IInv, TypeOK
  <1>2. /\ request[r].pc = "camunda" /\ UNCHANGED rows /\ writer' = writer /\ faults' = faults
        /\ request[r].stage \in Stages /\ seals[request[r].stage] # Nothing
        /\ version' \in Nat /\ request[r].pc \notin Writing
    BY <1>1 DEF Camunda, LocalInv, rows, TypeOK, Writing
  <1>3. Appended /\ SignedOnce'
    BY <1>2, NothingAppended DEF rows
  <1>4. TablesGoOn
    BY <1>1, <1>2, <1>3 DEF Camunda, Leave, TablesGoOn, TypeOK, rows
  <1>5. CASE request' = [request EXCEPT ![r] = Idle]
    BY <1>2, <1>3, <1>4, <1>5, LeaveGoesOn, StepKeeps
  <1>6. CASE request' = [request EXCEPT ![r].pc = "checkpoint"]
    <2>1. PICK n : n = [request[r] EXCEPT !.pc = "checkpoint"]
      OBVIOUS
    <2>2. request' = [request EXCEPT ![r] = n]
      BY <1>6, <2>1
    <2>3. n \in Locals /\ LocalInv(n) /\ n.pc = "checkpoint"
      BY <1>1, <1>2, <2>1 DEF Locals, Steps, LocalInv, Presenting, Signed, Writing
    <2>4. n.pc \notin Writing /\ writer # r
      BY <1>2, <2>3 DEF IInv, OneWriter, Writing
    <2> QED
      BY <1>2, <1>4, <2>2, <2>3, <2>4, MoveGoesOn, StepKeeps
  <1> QED
    BY <1>5, <1>6 DEF Camunda, Leave, Goto

LEMMA CamundaFailsKeeps == ASSUME IInv, NEW r \in Requests, CamundaFails(r) PROVE IInv'
  <1>1. TypeOK
    BY DEF IInv
  <1>2. /\ UNCHANGED rows /\ writer' = writer /\ done' = done
        /\ guard' \subseteq Stages /\ faults' \in 0..MaxFaults
        /\ version' \in Nat /\ request[r].pc \notin Writing
    BY <1>1, SigningAssumption DEF CamundaFails, Leave, rows, TypeOK, Writing
  <1>3. Appended
    BY <1>2, NothingAppended DEF rows
  <1> QED
    BY <1>2, <1>3, TablesStay, LeaveGoesOn, StepKeeps DEF CamundaFails, Leave

LEMMA CheckpointKeeps == ASSUME IInv, NEW r \in Requests, Checkpoint(r) PROVE IInv'
  <1>1. TypeOK /\ request[r] \in Locals
    BY DEF IInv, TypeOK
  <1>2. /\ request[r].pc = "checkpoint" /\ request[r].pc \notin Writing
        /\ request[r].data \in Data /\ writer = Nothing /\ writer' = writer
        /\ UNCHANGED <<challenges, signatures, links, seals, done, faults>>
    BY <1>1 DEF Checkpoint, Locals, Writing
  <1>3. Appended /\ SignedOnce'
    BY <1>2, NothingAppended
  <1>4. CASE Retry(r) /\ UNCHANGED <<live, version, guard>>
    <2>1. UNCHANGED rows /\ TablesGoOn
      BY <1>1, <1>2, <1>4, TablesStay DEF rows, TypeOK
    <2> QED
      BY <1>2, <1>4, <2>1, RetryGoesOn, StepKeeps
  <1>5. CASE /\ Leave(r, {request[r].stage})
             /\ \/ UNCHANGED <<live, version>>
                \/ live' = Stored(request[r].data) /\ version' = version + 1
    <2>1. /\ live' \in Data /\ \A s \in Stages : seals[s] # Nothing => live'[s] = live[s]
          /\ version' \in Nat /\ version <= version' /\ guard' \subseteq Stages
      BY <1>1, <1>2, <1>5, StoredKeeps DEF Leave, TypeOK
    <2>2. TablesGoOn
      BY <1>1, <1>2, <1>3, <2>1 DEF TablesGoOn, TypeOK
    <2> QED
      BY <1>2, <1>3, <1>5, <2>1, <2>2, LeaveGoesOn, StepKeeps DEF Leave
  <1> QED
    BY <1>4, <1>5 DEF Checkpoint

LEMMA ResumeKeeps == ASSUME IInv, NEW s \in Stages, Resume(s) PROVE IInv'
  <1>1. TypeOK /\ Appended /\ SignedOnce'
    BY NothingAppended DEF IInv, Resume, rows
  <1>2. TablesGoOn
    BY <1>1 DEF Resume, TablesGoOn, TypeOK, rows
  <1> QED
    BY <1>2, WorldKeeps DEF Resume

(* A restart forgets what is under way and keeps the tables. *)
LEMMA CrashKeeps == ASSUME IInv, Crash PROVE IInv'
  <1>1. TypeOK /\ Appended /\ SignedOnce' /\ version' \in Nat
    BY NothingAppended DEF IInv, Crash, rows, TypeOK
  <1>2. Idle \in Locals' /\ LocalInv(Idle)'
    BY <1>1, IdleKeeps
  <1>3. PICK n : n = Idle
    OBVIOUS
  <1>4. /\ n \in Locals' /\ LocalInv(n)' /\ n.pc \notin Writing
        /\ request' = [r \in Requests |-> n]
    BY <1>2, <1>3 DEF Crash, Idle, Writing
  <1>5. TypeOK'
    <2>1. request' \in [Requests -> Locals']
      BY <1>4
    <2> QED
      BY <1>1, <2>1, SigningAssumption DEF Crash, TypeOK, rows
  <1>6. \A r \in Requests : LocalInv(request[r])'
    <2>1. \A r \in Requests : request'[r] = n
      BY <1>4
    <2> QED
      BY <1>4, <2>1
  <1>7. OneWriter'
    BY <1>4, SigningAssumption DEF Crash, OneWriter
  <1>8. SealsLinked' /\ ChainVerifies'
    BY <1>1, ChainStays DEF Crash, rows
  <1> QED
    BY <1>1, <1>5, <1>6, <1>7, <1>8 DEF IInv

LEMMA StutterKeeps == ASSUME IInv, UNCHANGED vars PROVE IInv'
  <1>1. TypeOK
    BY DEF IInv
  <1>2. TablesGoOn
    BY <1>1, TablesStay DEF TypeOK, vars, rows
  <1> QED
    BY <1>2, WorldKeeps DEF vars

LEMMA NextInvariant == IInv /\ [Next]_vars => IInv'
  <1> SUFFICES ASSUME IInv, [Next]_vars PROVE IInv'
    OBVIOUS
  <1>1. ASSUME NEW r \in Requests, Ask(r) \/ Begin(r) \/ Step(r) PROVE IInv'
    BY <1>1, AskKeeps, BeginKeeps, IssueKeeps, TakeGuardKeeps, SignKeeps, SaveKeeps,
       AppendLinkKeeps, CommitKeeps, CamundaKeeps, CamundaFailsKeeps, CheckpointKeeps
    DEF Step
  <1> QED
    BY <1>1, ExpireKeeps, ResumeKeeps, CrashKeeps, StutterKeeps DEF Next

-----------------------------------------------------------------------------
(* The theorems                                                            *)

LEMMA Invariant == Spec => []IInv
  BY InitInvariant, NextInvariant, PTL DEF Spec

(* The variables have their types: no request holds a challenge, a         *)
(* signature or a version that does not exist.                             *)
THEOREM TypeCorrect == Spec => []TypeOK
  <1>1. IInv => TypeOK
    BY DEF IInv
  <1> QED
    BY <1>1, Invariant, PTL

(* The chain verifies at every moment: parallel completions, retries and   *)
(* restarts leave no link that does not follow the one before it or that   *)
(* says something else than the row (commit of completeTaskPersistence).   *)
THEOREM ChainCorrect == Spec => []ChainVerifies
  <1>1. IInv => ChainVerifies
    BY DEF IInv
  <1> QED
    BY <1>1, Invariant, PTL

(* A challenge gives one signature, whatever requests present it           *)
(* (persistVerifiedSignature looks at it again under its lock).            *)
THEOREM SignsOnce == Spec => []ChallengeSignsOnce
  <1>1. IInv => ChallengeSignsOnce
    BY DEF IInv, SignedOnce
  <1> QED
    BY <1>1, Invariant, PTL

(* A stage that Camunda has completed has its link and its signature.      *)
THEOREM CompletionSigned == Spec => []DoneIsSigned
  <1>1. ASSUME IInv PROVE DoneIsSigned
    <2>1. TypeOK /\ SealsLinked /\ SignedOnce
      BY <1>1 DEF IInv
    <2>2. ASSUME NEW s \in done
          PROVE  \E k \in DOMAIN links :
                    /\ links[k].hash = <<s, live[s]>>
                    /\ ~challenges[signatures[links[k].signature]].open
      <3>1. PICK k \in DOMAIN links : links[k].hash = <<s, live[s]>>
        BY <2>1 DEF TypeOK, SealsLinked
      <3>2. links[k].signature \in DOMAIN signatures
        BY <2>1, Domains
      <3> QED
        BY <2>1, <3>1, <3>2 DEF SignedOnce
    <2> QED
      BY <2>2 DEF DoneIsSigned
  <1> QED
    BY <1>1, Invariant, PTL
(* What a commit does to the chain: a stage that is in it already comes    *)
(* with the contents it has.                                               *)
LEMMA CommitAppends ==
    ASSUME IInv, NEW r \in Requests, Commit(r), links' # links
    PROVE  \E new \in Links :
              /\ links' = Append(links, new)
              /\ seals[new.hash[1]] # Nothing => live[new.hash[1]] = new.hash[2]
  <1>1. TypeOK /\ LocalInv(request[r]) /\ request[r].pc = "commit"
    BY DEF IInv, Commit
  <1>2. PICK new : new = request[r].link
    OBVIOUS
  <1>3. /\ request[r].stage \in Stages /\ request[r].content \in Contents
        /\ request[r].data[request[r].stage] = request[r].content
    BY <1>1, SignedContent DEF Signed
  <1>4. /\ new = Link(request[r].signature, <<request[r].stage, request[r].content>>)
        /\ request[r].signature \in 1..Len(signatures)
        /\ \A t \in Stages : seals[t] # Nothing => request[r].data[t] = live[t]
    BY <1>1, <1>2, Domains DEF LocalInv, Presenting, Signed, Writing
  <1>5. <<request[r].stage, request[r].content>> \in StageHash /\ request[r].signature \in Nat
    BY <1>1, <1>3, <1>4, Domains DEF StageHash
  <1>6. new \in Links /\ new.hash = <<request[r].stage, request[r].content>>
    BY <1>1, <1>4, <1>5, LinkType DEF Link
  <1>7. links' = Append(links, new)
    BY <1>2 DEF Commit, Chained
  <1> QED
    BY <1>3, <1>4, <1>6, <1>7

(* The entry of the ledger that a link stands for.                         *)
EntryOf(l) == [stage |-> l.hash[1], content |-> l.hash[2]]

LEMMA LedgerStep == IInv /\ [Next]_vars => [Ledger!Sign]_[k \in DOMAIN links |-> EntryOf(links[k])]
  <1> SUFFICES ASSUME IInv, [Next]_vars
               PROVE  [Ledger!Sign]_[k \in DOMAIN links |-> EntryOf(links[k])]
    OBVIOUS
  <1>1. CASE links' = links
    BY <1>1
  <1>2. ASSUME NEW r \in Requests, Commit(r), links' # links
        PROVE  Ledger!Sign
    <2>1. PICK new \in Links :
              /\ links' = Append(links, new)
              /\ seals[new.hash[1]] # Nothing => live[new.hash[1]] = new.hash[2]
      BY <1>2, CommitAppends
    <2>2. TypeOK /\ ChainVerifies /\ SealsLinked
      BY DEF IInv
    <2>3. PICK old : old = [k \in DOMAIN links |-> EntryOf(links[k])]
      OBVIOUS
    <2>4. PICK e : e = EntryOf(new)
      OBVIOUS
    <2>5. e \in Ledger!Entry
      BY <2>4 DEF EntryOf, Links, StageHash, Ledger!Entry
    <2>6. \A k \in 1..Len(links) : old[k] = EntryOf(links[k]) /\ old[k] \in Ledger!Entry
      BY <2>2, <2>3, Domains DEF EntryOf, Links, StageHash, Ledger!Entry
    <2>7. old \in Seq(Ledger!Entry) /\ Len(old) = Len(links) /\ DOMAIN old = 1..Len(links)
      BY <2>2, <2>3, <2>6, Domains
    <2>8. [k \in DOMAIN links' |-> EntryOf(links'[k])] = Append(old, e)
      <3>1. links \in Seq(Links)
        BY <2>2 DEF TypeOK
      <3>2. /\ DOMAIN links' = 1..(Len(links) + 1)
            /\ \A k \in 1..Len(links) : links'[k] = links[k]
            /\ links'[Len(links) + 1] = new
        BY <2>1, <3>1, AppendProperties, LenProperties
      <3>3. /\ DOMAIN Append(old, e) = 1..(Len(links) + 1)
            /\ \A k \in 1..Len(links) : Append(old, e)[k] = old[k]
            /\ Append(old, e)[Len(links) + 1] = e
        BY <2>5, <2>7, AppendProperties, LenProperties
      <3>4. \A k \in 1..(Len(links) + 1) : EntryOf(links'[k]) = Append(old, e)[k]
        <4>1. \A k \in 1..(Len(links) + 1) : k \in 1..Len(links) \/ k = Len(links) + 1
          BY <2>2, Domains
        <4> QED
          BY <2>4, <2>6, <3>2, <3>3, <4>1
      <3>5. Append(old, e) = [k \in DOMAIN Append(old, e) |-> Append(old, e)[k]]
        <4>1. Append(old, e) \in Seq(Ledger!Entry)
          BY <2>5, <2>7, AppendProperties
        <4> QED
          BY <4>1, LenProperties
      <3> QED
        BY <3>2, <3>3, <3>4, <3>5, Zenon
    <2>9. \A k \in 1..Len(links) : old[k].stage = e.stage => old[k] = e
      <3>1. ASSUME NEW k \in 1..Len(links), links[k].hash[1] = new.hash[1]
            PROVE  links[k].hash[2] = new.hash[2]
        <4>1. seals[links[k].hash[1]] # Nothing /\ live[links[k].hash[1]] = links[k].hash[2]
          BY <2>2, Domains DEF SealsLinked, ChainVerifies, Intact
        <4> QED
          BY <2>1, <3>1, <4>1
      <3>2. ASSUME NEW k \in 1..Len(links), old[k].stage = e.stage
            PROVE  old[k] = e
        <4>1. links[k].hash[1] = new.hash[1]
          <5>1. old[k] = EntryOf(links[k])
            BY <2>6
          <5>2. old[k].stage = links[k].hash[1] /\ e.stage = new.hash[1]
            BY <2>4, <5>1 DEF EntryOf
          <5> QED
            BY <3>2, <5>2
        <4>2. links[k].hash[2] = new.hash[2]
          BY <3>1, <4>1
        <4> QED
          BY <2>4, <2>6, <4>1, <4>2 DEF EntryOf
      <3> QED
        BY <3>2
    <2> QED
      BY <2>3, <2>5, <2>7, <2>8, <2>9 DEF Ledger!Sign, Ledger!Agrees, EntryOf
  <1>3. CASE links' # links
    BY <1>2, <1>3 DEF Next, Step, vars, rows, Ask, Begin, Issue, TakeGuard, Sign, Save,
       AppendLink, Camunda, CamundaFails, Checkpoint, Expire, Resume, Crash
  <1> QED
    BY <1>1, <1>3

(* The chain of the code is a ledger: it grows at its end, and the stages  *)
(* that parallel completions, retries and restarts add never bring a       *)
(* second content for a stage.                                             *)
THEOREM LedgerImplemented == Spec => ImplementsLedger
  <1>1. Init => Ledger!Init
    BY DEF Init, Ledger!Init
  <1>2. IInv /\ [Next]_vars => [Ledger!Sign]_[k \in DOMAIN links |-> EntryOf(links[k])]
    BY LedgerStep
  <1> QED
    BY <1>1, <1>2, Invariant, PTL DEF Spec, ImplementsLedger, Ledger!Spec, EntryOf
=============================================================================
