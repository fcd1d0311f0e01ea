------------------------------- MODULE Signing -------------------------------
(***************************************************************************)
(* Digital signatures of the stages of one transaction and the integrity   *)
(* chain they form: signing challenges (transactionSigningService), the    *)
(* part of a completion that stores the signature, the data, the link and  *)
(* the sealed stage (completeTaskPersistence), and the verification of the *)
(* chain (integrityChainService).  Stages may be open at the same time.    *)
(***************************************************************************)
EXTENDS Naturals, Sequences, FiniteSets

CONSTANTS
    Requests,       \* HTTP requests under way at one time
    Stages,         \* stages with a user task, each signed by the holder of its lock
    Contents,       \* what a stage's form can contain, with the decision
    Nothing,        \* a stage that has no data yet; no request
    MaxChallenges,  \* bound on signing challenges
    MaxFaults       \* bound: calls of Camunda that fail, restarts, expiries

ASSUME SigningAssumption ==
    /\ IsFiniteSet(Requests) /\ IsFiniteSet(Stages)
    /\ Nothing \notin Requests \cup Stages \cup Contents
    /\ {MaxChallenges, MaxFaults} \subseteq Nat

VARIABLES
    challenges,  \* transaction_signing_challenges, in the order of creation
    signatures,  \* digital_signature: the challenge that each row signs
    links,       \* transaction_signature_links
    live,        \* transactions.data: what each stage contains
    version,     \* transactions.version
    seals,       \* process_instance_stage: what each sealed row contains
    writer,      \* the request whose database transaction holds the row
    done,        \* stages whose task Camunda has completed
    guard,       \* operationGuardService: stages with a completion in flight
    request, faults

vars == <<challenges, signatures, links, live, version, seals, writer, done,
          guard, request, faults>>

rows == <<challenges, signatures, links, live, version, seals>>

-----------------------------------------------------------------------------
(* Hashes are taken to be free of collisions: they are what they are the   *)
(* hash of.                                                                *)

StageHash == Stages \X Contents

\* computeCumulativeHash and computeLinkHash.
Cumulative(previous, hash) == Append(previous, hash)
LinkHash(link) == <<link.cumulative, link.signature, link.order>>
NoHash == <<>>

Link(signature, hash) ==
    LET n == Len(links) IN
    [signature |-> signature, order |-> n + 1, hash |-> hash,
     previous |-> IF n = 0 THEN NoHash ELSE LinkHash(links[n]),
     cumulative |-> Cumulative(IF n = 0 THEN <<>> ELSE links[n].cumulative, hash)]

\* open: not used and not expired.
Challenge == [stage : Stages, content : Contents, open : BOOLEAN]

Data == [Stages -> Contents \cup {Nothing}]

Idle == [pc |-> "idle", stage |-> Nothing, challenge |-> 0, content |-> Nothing,
         version |-> 0, data |-> [s \in Stages |-> Nothing], signature |-> 0,
         link |-> Nothing]

Links == [signature : Nat, order : Nat, hash : StageHash,
          previous : (Seq(StageHash) \X Nat \X Nat) \cup {NoHash},
          cumulative : Seq(StageHash)]

Steps == {"idle", "issue", "guard", "sign", "save", "link", "commit", "camunda",
          "checkpoint"}

\* What a request can be while the tables are as they are.
Locals == [pc : Steps, stage : Stages \cup {Nothing}, challenge : 0..Len(challenges),
           content : Contents \cup {Nothing}, version : 0..version, data : Data,
           signature : 0..Len(signatures), link : Links \cup {Nothing}]

TypeOK ==
    /\ challenges \in Seq(Challenge) /\ Len(challenges) <= MaxChallenges
    /\ signatures \in Seq(DOMAIN challenges)
    /\ links \in Seq(Links)
    /\ \A k \in DOMAIN links : links[k].signature \in DOMAIN signatures
    /\ live \in Data /\ seals \in Data
    /\ version \in Nat
    /\ writer \in Requests \cup {Nothing}
    /\ done \subseteq {s \in Stages : seals[s] # Nothing}
    /\ guard \subseteq Stages
    /\ request \in [Requests -> Locals]
    /\ faults \in 0..MaxFaults

Init ==
    /\ challenges = <<>> /\ signatures = <<>> /\ links = <<>>
    /\ live = [s \in Stages |-> Nothing]
    /\ version = 0
    /\ seals = [s \in Stages |-> Nothing]
    /\ writer = Nothing
    /\ done = {}
    /\ guard = {}
    /\ request = [r \in Requests |-> Idle]
    /\ faults = 0

Goto(r, pc) == request' = [request EXCEPT ![r].pc = pc]

-----------------------------------------------------------------------------
(* A challenge: createSigningChallenge                                     *)

\* The holder of the task's lock, with a valid PIN, asks for a challenge on
\* the content of the form; invalidateActiveByTaskAndUser closes those he has.
Ask(r) ==
    /\ request[r].pc = "idle"
    /\ Len(challenges) < MaxChallenges
    /\ \E s \in Stages \ done :
         /\ challenges' = [n \in DOMAIN challenges |->
              IF challenges[n].stage = s THEN [challenges[n] EXCEPT !.open = FALSE]
                                         ELSE challenges[n]]
         /\ request' = [request EXCEPT ![r] = [Idle EXCEPT !.pc = "issue", !.stage = s]]
    /\ UNCHANGED <<signatures, links, live, version, seals, writer, done, guard,
                   faults>>

\* The new one is a statement of its own, so that two requests of the holder
\* can leave him with two.
Issue(r) ==
    /\ request[r].pc = "issue"
    /\ \/ Len(challenges) = MaxChallenges /\ UNCHANGED challenges
       \/ /\ Len(challenges) < MaxChallenges
          /\ \E c \in Contents : challenges' = Append(challenges,
                [stage |-> request[r].stage, content |-> c, open |-> TRUE])
    /\ request' = [request EXCEPT ![r] = Idle]
    /\ UNCHANGED <<signatures, links, live, version, seals, writer, done, guard,
                   faults>>

Expire(n) ==
    /\ challenges[n].open
    /\ faults < MaxFaults
    /\ faults' = faults + 1
    /\ challenges' = [challenges EXCEPT ![n].open = FALSE]
    /\ UNCHANGED <<signatures, links, live, version, seals, writer, done, guard,
                   request>>

-----------------------------------------------------------------------------
(* A completion that is signed                                             *)

\* assertSigningChallengeReady, with a signature that fits the challenge.
Ready(n, s, c) ==
    /\ challenges[n].open
    /\ challenges[n].stage = s
    /\ challenges[n].content = c

\* The completion of an open task: it loads the transaction and verifies the
\* signature without a lock.
Begin(r) ==
    /\ request[r].pc = "idle"
    /\ \E n \in DOMAIN challenges, s \in Stages \ done, c \in Contents :
         /\ Ready(n, s, c)
         /\ request' = [request EXCEPT ![r] =
              [Idle EXCEPT !.pc = "guard", !.stage = s, !.challenge = n,
                           !.content = c, !.version = version, !.data = live]]
    /\ UNCHANGED <<rows, writer, done, guard, faults>>

\* The request is over; its guard is released when it has one.
Leave(r, held) ==
    /\ request' = [request EXCEPT ![r] = Idle]
    /\ guard' = guard \ held

\* acquireOperationGuard refuses a second request for the task.
TakeGuard(r) ==
    LET s == request[r].stage IN
    /\ request[r].pc = "guard"
    /\ IF s \in guard
       THEN Leave(r, {})
       ELSE guard' = guard \cup {s} /\ Goto(r, "sign")
    /\ UNCHANGED <<rows, writer, done, faults>>

\* Mutant: the check that was made before is relied on.
VerifiedBefore(n) == n \in DOMAIN challenges

\* persistVerifiedSignature locks the challenge and looks at it again.
Usable(n) == challenges[n].open

Sign(r) ==
    LET n == request[r].challenge IN
    /\ request[r].pc = "sign"
    /\ IF Usable(n)
       THEN /\ signatures' = Append(signatures, n)
            /\ challenges' = [challenges EXCEPT ![n].open = FALSE]
            /\ request' = [request EXCEPT ![r].pc = "save",
                                          ![r].signature = Len(signatures) + 1,
                                          ![r].data[request[r].stage] = request[r].content]
            /\ UNCHANGED guard
       ELSE Leave(r, {request[r].stage}) /\ UNCHANGED <<signatures, challenges>>
    /\ UNCHANGED <<links, live, version, seals, writer, done, faults>>

\* Mutant: a sealed stage is not compared with what comes in.
Unfrozen(data) == FALSE

\* freezeSealedStageData refuses other contents for a sealed stage.
Frozen(data) ==
    \E s \in Stages : /\ seals[s] # Nothing /\ live[s] # Nothing
                      /\ data[s] # Nothing /\ data[s] # live[s]

\* What freezeSealedStageData lets through.
Stored(data) == [s \in Stages |-> IF seals[s] # Nothing THEN live[s] ELSE data[s]]

\* Mutant: what another writer stored replaces what this one brings.
KeepFresh(fresh, incoming) == [s \in Stages |-> fresh[s]]

\* mergeCompleteTransactionData
Merge(fresh, incoming) ==
    [s \in Stages |-> IF incoming[s] # Nothing THEN incoming[s] ELSE fresh[s]]

\* After a conflict the row is read again and its data are merged.
Retry(r) ==
    request' = [request EXCEPT ![r].version = version,
                               ![r].data = Merge(live, request[r].data)]

\* updateDataOptimistic in a database transaction of its own: the update
\* waits for another writer and then holds the row until the commit.
Save(r) ==
    /\ request[r].pc = "save"
    /\ writer = Nothing
    /\ \/ /\ request[r].version # version
          /\ Retry(r)
          /\ UNCHANGED <<writer, guard>>
       \/ /\ request[r].version = version
          /\ Frozen(request[r].data)
          /\ Leave(r, {request[r].stage})
          /\ UNCHANGED writer
       \/ /\ request[r].version = version
          /\ ~Frozen(request[r].data)
          /\ writer' = r
          /\ request' = [request EXCEPT ![r].pc = "link",
                                        ![r].data = Stored(request[r].data)]
          /\ UNCHANGED guard
    /\ UNCHANGED <<rows, done, faults>>

\* appendIntegrityLink reads the latest committed link and prepares the next
\* one, with the hash that has been signed.
AppendLink(r) ==
    LET signed == challenges[request[r].challenge] IN
    /\ request[r].pc = "link"
    /\ request' = [request EXCEPT ![r].pc = "commit",
           ![r].link = Link(request[r].signature, <<signed.stage, signed.content>>)]
    /\ UNCHANGED <<rows, writer, done, guard, faults>>

\* createProcessStage leaves a sealed stage as it is.
Seal(s, c) == seals' = [seals EXCEPT ![s] = IF @ = Nothing THEN c ELSE @]

\* Mutant: a stage signed again replaces its link.
Replaced(link) ==
    Append(SelectSeq(links, LAMBDA l : l.hash[1] # link.hash[1]), link)

\* The row that appendIntegrityLink creates.
Chained(link) == Append(links, link)

\* The data, the link and the seal, all or none: an index refuses a second
\* link of the same order.
Commit(r) ==
    LET s == request[r].stage IN
    /\ request[r].pc = "commit"
    /\ writer' = Nothing
    /\ IF request[r].link.order \in {links[k].order : k \in DOMAIN links}
       THEN Leave(r, {s}) /\ UNCHANGED <<links, live, version, seals>>
       ELSE /\ links' = Chained(request[r].link)
            /\ live' = request[r].data
            /\ version' = version + 1
            /\ Seal(s, request[r].data[s])
            /\ request' = [request EXCEPT ![r].pc = "camunda", ![r].version = version + 1]
            /\ UNCHANGED guard
    /\ UNCHANGED <<challenges, signatures, done, faults>>

\* The task may have been completed meanwhile, by the recovery.
Camunda(r) ==
    LET s == request[r].stage IN
    /\ request[r].pc = "camunda"
    /\ IF s \in done
       THEN Leave(r, {s}) /\ UNCHANGED done
       ELSE done' = done \cup {s} /\ Goto(r, "checkpoint") /\ UNCHANGED guard
    /\ UNCHANGED <<rows, writer, faults>>

CamundaFails(r) ==
    /\ request[r].pc = "camunda"
    /\ faults < MaxFaults
    /\ faults' = faults + 1
    /\ Leave(r, {request[r].stage})
    /\ UNCHANGED <<rows, writer, done>>

\* persistCompleteCheckpoint writes the data once more, with their progress.
Checkpoint(r) ==
    /\ request[r].pc = "checkpoint"
    /\ writer = Nothing
    /\ \/ /\ request[r].version # version
          /\ Retry(r)
          /\ UNCHANGED <<live, version, guard>>
       \/ /\ request[r].version = version
          /\ IF Frozen(request[r].data)
             THEN UNCHANGED <<live, version>>
             ELSE live' = Stored(request[r].data) /\ version' = version + 1
          /\ Leave(r, {request[r].stage})
    /\ UNCHANGED <<challenges, signatures, links, seals, writer, done, faults>>

-----------------------------------------------------------------------------
(* The rest of the world                                                   *)

\* Mutant: the recovery does not ask whether the data have been saved.
ResumeUnsaved(s) ==
    /\ s \notin done
    /\ done' = done \cup {s}
    /\ UNCHANGED <<rows, writer, guard, request, faults>>

\* completeRecoveryService completes in Camunda what has been saved.
Resume(s) ==
    /\ seals[s] # Nothing
    /\ s \notin done
    /\ done' = done \cup {s}
    /\ UNCHANGED <<rows, writer, guard, request, faults>>

\* Open database transactions are rolled back; maps in memory are gone.
Crash ==
    /\ faults < MaxFaults
    /\ faults' = faults + 1
    /\ writer' = Nothing
    /\ guard' = {}
    /\ request' = [r \in Requests |-> Idle]
    /\ UNCHANGED <<rows, done>>

Step(r) ==
    \/ Issue(r)
    \/ TakeGuard(r) \/ Sign(r) \/ Save(r) \/ AppendLink(r) \/ Commit(r)
    \/ Camunda(r) \/ CamundaFails(r) \/ Checkpoint(r)

Next ==
    \/ \E r \in Requests : Ask(r) \/ Begin(r) \/ Step(r)
    \/ \E n \in DOMAIN challenges : Expire(n)
    \/ \E s \in Stages : Resume(s)
    \/ Crash

Spec == Init /\ [][Next]_vars

-----------------------------------------------------------------------------
(* Properties                                                              *)

\* verifyLinkChainStructure: the issues it looks for.
Intact(k) ==
    LET link == links[k]
        s == link.hash[1]
        before == links[k - 1]
    IN /\ link.order = k
       /\ link.previous = IF k = 1 THEN NoHash ELSE LinkHash(before)
       /\ link.cumulative =
             Cumulative(IF k = 1 THEN <<>> ELSE before.cumulative, link.hash)
       /\ live[s] = link.hash[2]
       /\ seals[s] # Nothing => seals[s] = link.hash[2]

\* verifyLinksCryptographically: the link carries the hash that was signed.
Genuine(k) ==
    LET c == challenges[signatures[links[k].signature]]
    IN links[k].hash = <<c.stage, c.content>>

\* At every moment the chain of a transaction verifies: its links follow one
\* another although stages are completed in parallel, and what each of them
\* signs is what the transaction and the sealed stage contain.
ChainVerifies == \A k \in DOMAIN links : Intact(k) /\ Genuine(k)

\* A signature is stored once for a challenge, whatever requests present it:
\* the check that precedes Camunda is made without a lock.
ChallengeSignsOnce ==
    \A i, j \in DOMAIN signatures : signatures[i] = signatures[j] => i = j

\* A completed stage has been signed: the chain has a link for it, the
\* signature is there, and recovery completes nothing that was not signed.
DoneIsSigned ==
    \A s \in done : \E k \in DOMAIN links :
        /\ links[k].hash = <<s, live[s]>>
        /\ ~challenges[signatures[links[k].signature]].open

\* The chain is a ledger: it only grows at its end and never holds two
\* contents of a stage, over retries, restarts and parallel completions.
Ledger == INSTANCE SignedLedger WITH
    ledger <- [k \in DOMAIN links |->
                  [stage |-> links[k].hash[1], content |-> links[k].hash[2]]]
ImplementsLedger == Ledger!Spec
=============================================================================
