---------------------------- MODULE SessionsProofs ----------------------------
(***************************************************************************)
(* A PIN session opens one login and the chains of refresh tokens stay     *)
(* connected, for any number of requests, tokens, challenges, hops and     *)
(* restarts.                                                               *)
(*                                                                         *)
(* The argument: whoever signs holds his PIN session, which is unused and  *)
(* stays so, while those of all logins are used.  A token that is not      *)
(* revoked is the end of its chain; who rotates it holds it, so that it is *)
(* not revoked meanwhile, and the token that replaces it is the new end.   *)
(***************************************************************************)
EXTENDS Sessions, SequenceTheorems, TLAPS

Open(t) == tokens[t].state \in {"live", "expired"}

(* Forks are never forgotten. *)
Forks == forked \subseteq forked' /\ forked' \subseteq 1..Len(logins)

Tables ==
    /\ pins \in Seq(BOOLEAN) /\ Len(pins) <= MaxPins
    /\ challenges \in Seq([pin : Nat, used : BOOLEAN]) /\ Len(challenges) <= MaxAsked
    /\ \A c \in 1..Len(challenges) : challenges[c].pin \in 1..Len(pins)
    /\ logins \in Seq(Nat)
    /\ \A i \in 1..Len(logins) : logins[i] \in 1..Len(pins) /\ pins[logins[i]]
    /\ tokens \in Seq(Token) /\ Len(tokens) <= MaxTokens
    /\ \A t \in 1..Len(tokens) :
         /\ tokens[t].login \in 1..Len(logins)
         /\ tokens[t].next # 0 => tokens[t].next \in (t + 1)..Len(tokens)
    /\ forked \subseteq 1..Len(logins)
    /\ crashes \in 0..MaxCrashes

(* What a request that is under way can rely on. *)
OnToken == {"rotate", "replay", "extend", "sweep", "logout"}
LocalInv(n) ==
    /\ n \in Local
    /\ n.pc \in {"ask", "create"} => n.at \in 1..Len(pins)
    /\ n.pc \in {"pin", "sign"} => n.at \in 1..Len(challenges)
    /\ n.pc = "sign" => ~pins[challenges[n.at].pin]
    /\ n.pc = "issue" =>
         n.at \in 1..Len(logins) /\ \A t \in 1..Len(tokens) : tokens[t].login # n.at
    /\ n.pc \in OnToken => n.at \in 1..Len(tokens)
    /\ n.pc = "rotate" => Open(n.at)
    /\ n.pc \in {"replay", "extend"} => n.latest \in 1..Len(tokens)
    /\ n.sweep \subseteq 1..Len(tokens)

(* Two requests lock different rows, and issue for different logins. *)
Apart(n, m) ==
    /\ n.pc \in OnToken \ {"logout"} /\ m.pc \in OnToken \ {"logout"} => n.at # m.at
    /\ n.pc \in {"pin", "sign"} /\ m.pc \in {"pin", "sign"} => n.at # m.at
    /\ n.pc = "sign" /\ m.pc = "sign" => challenges[n.at].pin # challenges[m.at].pin
    /\ n.pc = "issue" /\ m.pc = "issue" => n.at # m.at

LocalInvs == \A r \in Requests : LocalInv(request[r])
Separate == \A r, q \in Requests : r # q => Apart(request[r], request[q])

IInv ==
    /\ Tables
    /\ request \in [Requests -> Local]
    /\ LocalInvs
    /\ Separate
    /\ OneLoginPerPin
    /\ ChainsConnected

-----------------------------------------------------------------------------
(* The tables                                                              *)

LEMMA Domains ==
    ASSUME Tables
    PROVE  /\ Len(pins) \in Nat /\ DOMAIN pins = 1..Len(pins)
           /\ Len(challenges) \in Nat /\ DOMAIN challenges = 1..Len(challenges)
           /\ Len(logins) \in Nat /\ DOMAIN logins = 1..Len(logins)
           /\ Len(tokens) \in Nat /\ DOMAIN tokens = 1..Len(tokens)
           /\ \A t \in 1..Len(tokens) : tokens[t] \in Token
           /\ \A c \in 1..Len(challenges) : challenges[c] \in [pin : Nat, used : BOOLEAN]
           /\ \A p \in 1..Len(pins) : pins[p] \in BOOLEAN
           /\ \A i \in 1..Len(logins) : logins[i] \in Nat
           /\ MaxTokens \in Nat /\ MaxPins \in Nat /\ MaxAsked \in Nat
           /\ MaxHops \in Nat /\ MaxCrashes \in Nat /\ MaxHops > 1
  <1>1. /\ pins \in Seq(BOOLEAN) /\ challenges \in Seq([pin : Nat, used : BOOLEAN])
        /\ logins \in Seq(Nat) /\ tokens \in Seq(Token)
    BY DEF Tables
  <1> QED
    BY <1>1, LenProperties, ElementOfSeq, SessionsAssumption

(* One element of a sequence is written. *)
LEMMA WriteOne ==
    ASSUME NEW S, NEW s \in Seq(S), NEW i \in 1..Len(s), NEW x \in S
    PROVE  /\ [s EXCEPT ![i] = x] \in Seq(S)
           /\ Len([s EXCEPT ![i] = x]) = Len(s)
           /\ \A j \in 1..Len(s) : [s EXCEPT ![i] = x][j] = IF j = i THEN x ELSE s[j]
  BY ExceptSeq

(* A function over an initial segment is a sequence. *)
LEMMA Segment ==
    ASSUME NEW S, NEW n \in Nat, NEW s \in [1..n -> S]
    PROVE  s \in Seq(S) /\ Len(s) = n
  OBVIOUS

(* A sequence of elements of a smaller set. *)
LEMMA Narrow ==
    ASSUME NEW S, NEW T, NEW s \in Seq(S), \A i \in 1..Len(s) : s[i] \in T
    PROVE  s \in Seq(T)
  BY LenProperties

LEMMA IdleFits ==
    ASSUME Tables
    PROVE  LocalInv(Idle) /\ Idle \in Local /\ Idle.pc = "idle"
  <1>1. /\ Idle.pc = "idle" /\ Idle.sweep = {}
        /\ 0 \in 0..MaxTokens /\ 0 \in 0..MaxHops
    BY Domains DEF Idle
  <1>2. Idle \in Local
    BY <1>1 DEF Idle, Local, Steps
  <1> QED
    BY <1>1, <1>2 DEF LocalInv, OnToken

LEMMA InvariantTypes == IInv => TypeOK
  <1> SUFFICES ASSUME IInv PROVE TypeOK
    OBVIOUS
  <1>1. /\ Tables /\ request \in [Requests -> Local]
        /\ DOMAIN pins = 1..Len(pins) /\ DOMAIN challenges = 1..Len(challenges)
        /\ DOMAIN logins = 1..Len(logins) /\ DOMAIN tokens = 1..Len(tokens)
    BY Domains DEF IInv
  <1>2. challenges \in Seq([pin : DOMAIN pins, used : BOOLEAN])
    <2>1. \A c \in 1..Len(challenges) : challenges[c] \in [pin : DOMAIN pins, used : BOOLEAN]
      BY <1>1, Domains DEF Tables
    <2>2. challenges \in Seq([pin : Nat, used : BOOLEAN])
      BY <1>1 DEF Tables
    <2> QED
      BY <2>1, <2>2, Narrow
  <1>3. logins \in Seq(DOMAIN pins)
    <2>1. \A i \in 1..Len(logins) : logins[i] \in DOMAIN pins
      BY <1>1 DEF Tables
    <2>2. logins \in Seq(Nat)
      BY <1>1 DEF Tables
    <2> QED
      BY <2>1, <2>2, Narrow
  <1>4. \A r \in Requests :
         /\ At(r, {"ask", "create"}) => request[r].at \in DOMAIN pins
         /\ At(r, {"pin", "sign"}) => request[r].at \in DOMAIN challenges
         /\ At(r, {"issue"}) => request[r].at \in DOMAIN logins
         /\ At(r, {"rotate", "replay", "extend", "sweep", "logout"}) =>
              request[r].at \in DOMAIN tokens
         /\ At(r, {"replay", "extend"}) => request[r].latest \in DOMAIN tokens
         /\ request[r].sweep \subseteq DOMAIN tokens
    BY <1>1 DEF IInv, LocalInvs, LocalInv, At, OnToken
  <1>5. \A r, q \in Requests : r # q =>
         /\ HeldToken(r) \cap HeldToken(q) = {}
         /\ HeldChallenge(r) \cap HeldChallenge(q) = {}
         /\ HeldPin(r) \cap HeldPin(q) = {}
    BY DEF IInv, Separate, Apart, HeldToken, HeldChallenge, HeldPin, At, OnToken
  <1> QED
    BY <1>1, <1>2, <1>3, <1>4, <1>5 DEF TypeOK, Tables

LEMMA InitiallyFine == Init => IInv
  <1> SUFFICES ASSUME Init PROVE IInv
    OBVIOUS
  <1>1. /\ pins = <<>> /\ challenges = <<>> /\ logins = <<>> /\ tokens = <<>>
        /\ forked = {} /\ crashes = 0
    BY DEF Init
  <1>2. Tables
    <2>1. 1..0 = {} /\ 0 \in 0..MaxCrashes /\ 0 <= MaxPins /\ 0 <= MaxAsked /\ 0 <= MaxTokens
      BY SessionsAssumption
    <2> QED
      BY <1>1, <2>1, EmptySeq DEF Tables
  <1>3. \A r \in Requests : request[r] = Idle
    BY DEF Init
  <1>4. LocalInvs /\ request \in [Requests -> Local]
    BY <1>2, <1>3, IdleFits DEF LocalInvs, Init
  <1>5. Separate
    BY <1>2, <1>3, IdleFits DEF Separate, Apart, OnToken
  <1>6. OneLoginPerPin /\ ChainsConnected
    BY <1>1 DEF OneLoginPerPin, ChainsConnected
  <1> QED
    BY <1>2, <1>4, <1>5, <1>6 DEF IInv

-----------------------------------------------------------------------------
(* What a step leaves to the other requests                                *)

Quiet == {"idle", "newpin", "ask", "create", "logout"}

ChallengesKept ==
    /\ Len(challenges) <= Len(challenges')
    /\ \A c \in 1..Len(challenges) : challenges'[c].pin = challenges[c].pin

(* Who goes on holding rows goes on holding the same ones. *)
LEMMA StillSeparate ==
    ASSUME IInv, ChallengesKept,
           \A q \in Requests : request'[q] = request[q] \/ request'[q].pc \in Quiet
    PROVE  Separate'
  <1> SUFFICES ASSUME NEW r \in Requests, NEW q \in Requests, r # q
               PROVE  Apart(request[r], request[q])'
    BY DEF Separate
  <1>1. CASE request'[r] = request[r] /\ request'[q] = request[q]
    <2>1. Apart(request[r], request[q]) /\ LocalInv(request[r]) /\ LocalInv(request[q])
      BY DEF IInv, Separate, LocalInvs
    <2>2. /\ request[r].pc = "sign" => request[r].at \in 1..Len(challenges)
          /\ request[q].pc = "sign" => request[q].at \in 1..Len(challenges)
      BY <2>1 DEF LocalInv
    <2> QED
      BY <1>1, <2>1, <2>2 DEF Apart, ChallengesKept
  <1>2. CASE request'[r].pc \in Quiet \/ request'[q].pc \in Quiet
    BY <1>2 DEF Apart, Quiet, OnToken
  <1> QED
    BY <1>1, <1>2

LEMMA StillFits ==
    ASSUME IInv, Tables', NEW q \in Requests, request'[q] = request[q],
           Len(pins) <= Len(pins'), ChallengesKept,
           Len(logins) <= Len(logins'), Len(tokens) <= Len(tokens'),
           request[q].pc = "sign" => ~pins'[challenges[request[q].at].pin],
           request[q].pc = "issue" =>
             \A t \in 1..Len(tokens') : tokens'[t].login # request[q].at,
           request[q].pc = "rotate" => tokens'[request[q].at].state \in {"live", "expired"}
    PROVE  LocalInv(request[q])'
  <1>1. /\ LocalInv(request[q]) /\ Tables
        /\ Len(pins) \in Nat /\ Len(challenges) \in Nat /\ Len(logins) \in Nat
        /\ Len(tokens) \in Nat
    BY Domains DEF IInv, LocalInvs
  <1>2. /\ Len(pins') \in Nat /\ Len(challenges') \in Nat /\ Len(logins') \in Nat
        /\ Len(tokens') \in Nat
    BY LenProperties DEF Tables
  <1>3. /\ 1..Len(pins) \subseteq 1..Len(pins') /\ 1..Len(logins) \subseteq 1..Len(logins')
        /\ 1..Len(challenges) \subseteq 1..Len(challenges')
        /\ 1..Len(tokens) \subseteq 1..Len(tokens')
    BY <1>1, <1>2 DEF ChallengesKept
  <1>4. request[q].pc = "sign" => ~pins'[challenges'[request[q].at].pin]
    BY <1>1 DEF ChallengesKept, LocalInv
  <1> QED
    BY <1>1, <1>3, <1>4 DEF LocalInv, Open

(* A step of a request that writes nothing. *)
LEMMA MovesOn ==
    ASSUME IInv, NEW r \in Requests, NEW n, LocalInv(n),
           request' = [request EXCEPT ![r] = n],
           \A q \in Requests \ {r} : Apart(n, request[q]) /\ Apart(request[q], n),
           UNCHANGED <<pins, challenges, logins, tokens, forked, crashes>>
    PROVE  IInv'
  <1>1. /\ request'[r] = n /\ \A q \in Requests : q # r => request'[q] = request[q]
        /\ request' \in [Requests -> Local]
    BY DEF IInv, LocalInv
  <1>2. Tables' /\ OneLoginPerPin' /\ ChainsConnected'
    <2>1. Tables'
      BY DEF IInv, Tables
    <2>2. OneLoginPerPin' /\ ChainsConnected'
      BY DEF IInv, OneLoginPerPin, ChainsConnected, Chain, Unrevoked
    <2> QED
      BY <2>1, <2>2
  <1>3. LocalInvs'
    <2> SUFFICES ASSUME NEW q \in Requests PROVE LocalInv(request[q])'
      BY DEF LocalInvs
    <2>1. CASE q = r
      BY <1>1, <2>1 DEF LocalInv, Open
    <2>2. CASE q # r
      BY <1>1, <2>2 DEF IInv, LocalInvs, LocalInv, Open
    <2> QED
      BY <2>1, <2>2
  <1>4. Separate'
    <2> SUFFICES ASSUME NEW p \in Requests, NEW q \in Requests, p # q
                 PROVE  Apart(request[p], request[q])'
      BY DEF Separate
    <2>1. CASE p # r /\ q # r
      BY <1>1, <2>1 DEF IInv, Separate, Apart
    <2>2. CASE p = r
      BY <1>1, <2>2 DEF Apart
    <2>3. CASE q = r
      BY <1>1, <2>3 DEF Apart
    <2> QED
      BY <2>1, <2>2, <2>3
  <1> QED
    BY <1>1, <1>2, <1>3, <1>4 DEF IInv

-----------------------------------------------------------------------------
(* Login                                                                   *)

LEMMA Typed ==
    ASSUME IInv, NEW r \in Requests
    PROVE  /\ Tables /\ request[r] \in Local /\ LocalInv(request[r])
           /\ request \in [Requests -> Local]
           /\ request[r].at \in Nat /\ request[r].pc \in Steps
           /\ request[r].latest \in 0..MaxTokens /\ request[r].hops \in 0..MaxHops
           /\ request[r].sweep \in SUBSET (1..MaxTokens)
  BY DEF IInv, LocalInvs, Local

(* A request that goes on with the same row. *)
LEMMA Gone ==
    ASSUME IInv, NEW r \in Requests, NEW pc \in Steps, Goes(r, pc)
    PROVE  \E n : /\ n = [request[r] EXCEPT !.pc = pc]
                  /\ n \in Local /\ n.pc = pc /\ n.at = request[r].at
                  /\ n.latest = request[r].latest /\ n.sweep = request[r].sweep
                  /\ request' = [request EXCEPT ![r] = n]
                  /\ request'[r] = n
                  /\ \A q \in Requests : q # r => request'[q] = request[q]
  <1>1. PICK n : n = [request[r] EXCEPT !.pc = pc]
    OBVIOUS
  <1>2. /\ n \in Local /\ n.pc = pc /\ n.at = request[r].at
        /\ n.latest = request[r].latest /\ n.sweep = request[r].sweep
    BY <1>1, Typed DEF Local
  <1>3. request' = [request EXCEPT ![r] = n]
    BY <1>1, Typed DEF Goes
  <1>4. request'[r] = n /\ \A q \in Requests : q # r => request'[q] = request[q]
    BY <1>3, Typed
  <1> QED
    BY <1>1, <1>2, <1>3, <1>4

LEMMA Ended ==
    ASSUME IInv, NEW r \in Requests, Ends(r)
    PROVE  /\ request'[r] = Idle /\ \A q \in Requests : q # r => request'[q] = request[q]
           /\ request' \in [Requests -> Local]
  BY Typed, IdleFits DEF Ends

LEMMA EmployeeVerifyPinKeeps ==
    ASSUME IInv, NEW r \in Requests, EmployeeVerifyPin(r) PROVE IInv'
  <1>1. /\ Tables /\ UNCHANGED <<challenges, logins, tokens, forked, crashes>>
        /\ pins' = [p \in 1..Len(pins) |-> TRUE] /\ Len(pins) \in Nat
        /\ DOMAIN pins = 1..Len(pins) /\ At(r, {"idle"})
    BY Typed, Domains DEF EmployeeVerifyPin
  <1>2. pins' \in Seq(BOOLEAN) /\ Len(pins') = Len(pins)
    BY <1>1, Segment
  <1>3. PICK n : /\ n \in Local /\ n.pc = "newpin" /\ n.sweep = request[r].sweep
                 /\ request' = [request EXCEPT ![r] = n] /\ request'[r] = n
                 /\ \A q \in Requests : q # r => request'[q] = request[q]
    <2>1. "newpin" \in Steps /\ Goes(r, "newpin")
      BY DEF Steps, EmployeeVerifyPin
    <2> QED
      BY <2>1, Gone
  <1>4. Tables'
    BY <1>1, <1>2 DEF Tables
  <1>5. ChallengesKept
    BY <1>1, Domains DEF ChallengesKept
  <1>6. LocalInvs'
    <2> SUFFICES ASSUME NEW q \in Requests PROVE LocalInv(request[q])'
      BY DEF LocalInvs
    <2>1. CASE q = r
      BY <1>1, <1>3, <2>1, Typed DEF LocalInv, OnToken
    <2>2. CASE q # r
      <3>1. request[q].pc # "sign"
        <4> SUFFICES ASSUME request[q].pc = "sign" PROVE FALSE
          OBVIOUS
        <4>1. LocalInv(request[q])
          BY Typed
        <4>2. PICK p : p = challenges[request[q].at].pin
          OBVIOUS
        <4>3. p \in 1..Len(pins) /\ ~pins[p] /\ p \in HeldPin(q)
          BY <1>1, <4>1, <4>2 DEF LocalInv, Tables, HeldPin, At
        <4>4. PinFree(r, p)
          BY <1>1, <4>3 DEF EmployeeVerifyPin
        <4> QED
          BY <2>2, <4>3, <4>4 DEF PinFree
      <3>2. request[q].pc = "issue" =>
              \A t \in 1..Len(tokens') : tokens'[t].login # request[q].at
        BY <1>1, Typed DEF LocalInv
      <3>3. request[q].pc = "rotate" =>
              tokens'[request[q].at].state \in {"live", "expired"}
        BY <1>1, Typed DEF LocalInv, Open
      <3>4. /\ Len(pins) <= Len(pins') /\ Len(logins) <= Len(logins')
            /\ Len(tokens) <= Len(tokens')
        BY <1>1, <1>2, Domains
      <3> QED
        BY <1>3, <1>4, <1>5, <2>2, <3>1, <3>2, <3>3, <3>4, StillFits
    <2> QED
      BY <2>1, <2>2
  <1>7. Separate'
    BY <1>3, <1>5, StillSeparate DEF Quiet
  <1>8. OneLoginPerPin' /\ ChainsConnected' /\ (request \in [Requests -> Local])'
    BY <1>1, <1>3, Typed DEF IInv, OneLoginPerPin, ChainsConnected, Chain, Unrevoked
  <1> QED
    BY <1>4, <1>6, <1>7, <1>8 DEF IInv

(* What a step keeps that leaves logins and tokens alone. *)
LEMMA LoginsKept ==
    ASSUME IInv, UNCHANGED <<logins, tokens, forked>>
    PROVE  OneLoginPerPin' /\ ChainsConnected'
  BY DEF IInv, OneLoginPerPin, ChainsConnected, Chain, Unrevoked

LEMMA FitsWithout ==
    ASSUME IInv, Tables', UNCHANGED <<logins, tokens>>, NEW q \in Requests,
           request'[q] = request[q], Len(pins) <= Len(pins'), ChallengesKept,
           request[q].pc = "sign" => ~pins'[challenges[request[q].at].pin]
    PROVE  LocalInv(request[q])'
  <1>1. request[q].pc = "issue" =>
          \A t \in 1..Len(tokens') : tokens'[t].login # request[q].at
    BY Typed DEF LocalInv
  <1>2. request[q].pc = "rotate" =>
          tokens'[request[q].at].state \in {"live", "expired"}
    BY Typed DEF LocalInv, Open
  <1>3. Len(logins) <= Len(logins') /\ Len(tokens) <= Len(tokens')
    BY Typed, Domains
  <1> QED
    BY <1>1, <1>2, <1>3, StillFits

LEMMA CreatePinKeeps == ASSUME IInv, NEW r \in Requests, CreatePin(r) PROVE IInv'
  <1>1. /\ Tables /\ UNCHANGED <<challenges, logins, tokens, forked, crashes>>
        /\ Len(pins) \in Nat /\ pins \in Seq(BOOLEAN) /\ MaxPins \in Nat
    BY Typed, Domains DEF CreatePin, Tables
  <1>2. /\ request'[r] = Idle /\ request' \in [Requests -> Local]
        /\ \A q \in Requests : q # r => request'[q] = request[q]
    BY Ended DEF CreatePin
  <1>3. /\ pins' \in Seq(BOOLEAN) /\ Len(pins) <= Len(pins') /\ Len(pins') <= MaxPins
        /\ \A p \in 1..Len(pins) : pins'[p] = pins[p]
        /\ Len(pins') \in Nat
    <2>1. CASE Len(pins) < MaxPins
      <3>1. pins' = Append(pins, FALSE) /\ FALSE \in BOOLEAN
        BY <2>1 DEF CreatePin
      <3> QED
        BY <1>1, <2>1, <3>1, AppendProperties
    <2>2. CASE ~(Len(pins) < MaxPins)
      <3>1. pins' = pins
        BY <2>2 DEF CreatePin
      <3> QED
        BY <1>1, <3>1 DEF Tables
    <2> QED
      BY <2>1, <2>2
  <1>4. Tables'
    <2>0. \A p \in 1..Len(pins) : p \in 1..Len(pins')
      BY <1>1, <1>3
    <2>1. \A c \in 1..Len(challenges) : challenges'[c].pin \in 1..Len(pins')
      BY <1>1, <2>0 DEF Tables
    <2>2. \A i \in 1..Len(logins) : logins'[i] \in 1..Len(pins') /\ pins'[logins'[i]]
      BY <1>1, <1>3, <2>0 DEF Tables
    <2> QED
      BY <1>1, <1>3, <2>1, <2>2 DEF Tables
  <1>5. ChallengesKept
    BY <1>1, Domains DEF ChallengesKept
  <1>6. LocalInvs'
    <2> SUFFICES ASSUME NEW q \in Requests PROVE LocalInv(request[q])'
      BY DEF LocalInvs
    <2>1. CASE q = r
      BY <1>2, <1>4, <2>1, IdleFits DEF LocalInv, Idle, OnToken
    <2>2. CASE q # r
      <3>1. request[q].pc = "sign" => ~pins'[challenges[request[q].at].pin]
        BY <1>1, <1>3, Typed DEF LocalInv, Tables
      <3> QED
        BY <1>1, <1>2, <1>3, <1>4, <1>5, <2>2, <3>1, FitsWithout
    <2> QED
      BY <2>1, <2>2
  <1>7. Separate'
    BY <1>2, <1>5, StillSeparate DEF Quiet, Idle
  <1> QED
    BY <1>1, <1>2, <1>4, <1>6, <1>7, LoginsKept DEF IInv

LEMMA CreateEmployeeChallengeKeeps ==
    ASSUME IInv, NEW r \in Requests, CreateEmployeeChallenge(r) PROVE IInv'
  <1>1. PICK p \in 1..Len(pins) :
             request' = [request EXCEPT ![r] = [Idle EXCEPT !.pc = "ask", !.at = p]]
    BY Typed, Domains DEF CreateEmployeeChallenge
  <1>2. PICK n : n = [Idle EXCEPT !.pc = "ask", !.at = p]
    OBVIOUS
  <1>3. Len(pins) \in Nat /\ p \in Nat /\ 0 \in 0..MaxTokens /\ 0 \in 0..MaxHops
    BY Typed, Domains
  <1>4. n \in Local /\ n.pc = "ask" /\ n.at = p /\ n.sweep = {}
    BY <1>2, <1>3 DEF Idle, Local, Steps
  <1>5. LocalInv(n)
    BY <1>4 DEF LocalInv, OnToken
  <1>6. \A q \in Requests \ {r} : Apart(n, request[q]) /\ Apart(request[q], n)
    BY <1>4 DEF Apart, OnToken
  <1> QED
    BY <1>1, <1>2, <1>5, <1>6, MovesOn DEF CreateEmployeeChallenge

LEMMA InvalidateChallengesKeeps ==
    ASSUME IInv, NEW r \in Requests, InvalidateChallenges(r) PROVE IInv'
  <1> DEFINE S == [pin : Nat, used : BOOLEAN]
             open == {c \in DOMAIN challenges :
                        challenges[c].pin = request[r].at /\ ~challenges[c].used}
  <1>1. /\ Tables /\ UNCHANGED <<pins, logins, tokens, forked, crashes>>
        /\ Len(challenges) \in Nat /\ DOMAIN challenges = 1..Len(challenges)
        /\ \A c \in 1..Len(challenges) : challenges[c] \in S
    BY Typed, Domains DEF InvalidateChallenges
  <1>2. challenges' = [c \in 1..Len(challenges) |->
             [challenges[c] EXCEPT !.used = challenges[c].used \/ c \in open]]
    BY <1>1 DEF InvalidateChallenges
  <1>3. \A c \in 1..Len(challenges) :
           challenges'[c] \in S /\ challenges'[c].pin = challenges[c].pin
    <2> TAKE c \in 1..Len(challenges)
    <2>1. PICK u \in BOOLEAN : u = (challenges[c].used \/ c \in open)
      OBVIOUS
    <2>2. challenges'[c] = [challenges[c] EXCEPT !.used = u]
      BY <1>2, <2>1
    <2> QED
      BY <1>1, <2>2
  <1>4. challenges' \in Seq(S) /\ Len(challenges') = Len(challenges)
    <2>1. challenges' \in [1..Len(challenges) -> S]
      BY <1>2, <1>3
    <2> QED
      BY <1>1, <2>1, Segment
  <1>5. PICK n : /\ n \in Local /\ n.pc = "create" /\ n.sweep = request[r].sweep
                 /\ n.at = request[r].at
                 /\ request' = [request EXCEPT ![r] = n] /\ request'[r] = n
                 /\ \A q \in Requests : q # r => request'[q] = request[q]
    <2>1. "create" \in Steps /\ Goes(r, "create")
      BY DEF Steps, InvalidateChallenges
    <2> QED
      BY <2>1, Gone
  <1>6. ChallengesKept
    BY <1>1, <1>3, <1>4 DEF ChallengesKept
  <1>7. Tables'
    BY <1>1, <1>3, <1>4 DEF Tables
  <1>8. LocalInvs'
    <2> SUFFICES ASSUME NEW q \in Requests PROVE LocalInv(request[q])'
      BY DEF LocalInvs
    <2>1. CASE q = r
      BY <1>1, <1>5, <2>1, Typed DEF LocalInv, OnToken, InvalidateChallenges, At
    <2>2. CASE q # r
      <3>1. request[q].pc = "sign" => ~pins'[challenges[request[q].at].pin]
        BY <1>1, Typed DEF LocalInv
      <3> QED
        BY <1>1, <1>5, <1>6, <1>7, <2>2, <3>1, FitsWithout, Domains
    <2> QED
      BY <2>1, <2>2
  <1>9. Separate'
    BY <1>5, <1>6, StillSeparate DEF Quiet
  <1> QED
    BY <1>1, <1>5, <1>7, <1>8, <1>9, LoginsKept, Typed DEF IInv

LEMMA CreateChallengeKeeps ==
    ASSUME IInv, NEW r \in Requests, CreateChallenge(r) PROVE IInv'
  <1> DEFINE S == [pin : Nat, used : BOOLEAN]
  <1>1. /\ Tables /\ UNCHANGED <<pins, logins, tokens, forked, crashes>>
        /\ Len(challenges) \in Nat /\ challenges \in Seq(S) /\ MaxAsked \in Nat
        /\ request[r].at \in 1..Len(pins) /\ request[r].at \in Nat
    BY Typed, Domains DEF CreateChallenge, Tables, LocalInv, At
  <1>2. /\ request'[r] = Idle /\ request' \in [Requests -> Local]
        /\ \A q \in Requests : q # r => request'[q] = request[q]
    BY Ended DEF CreateChallenge
  <1>3. /\ challenges' \in Seq(S) /\ Len(challenges) <= Len(challenges')
        /\ Len(challenges') <= MaxAsked
        /\ \A c \in 1..Len(challenges) : challenges'[c] = challenges[c]
        /\ \A c \in 1..Len(challenges') : challenges'[c].pin \in 1..Len(pins)
    <2>1. CASE Len(challenges) < MaxAsked
      <3>1. PICK x : x = [pin |-> request[r].at, used |-> FALSE]
        OBVIOUS
      <3>2. challenges' = Append(challenges, x) /\ x \in S /\ x.pin \in 1..Len(pins)
        BY <1>1, <2>1, <3>1 DEF CreateChallenge
      <3>3. /\ challenges' \in Seq(S) /\ Len(challenges') = Len(challenges) + 1
            /\ \A c \in 1..Len(challenges) : challenges'[c] = challenges[c]
            /\ challenges'[Len(challenges) + 1] = x
        BY <1>1, <3>2, AppendProperties
      <3>4. \A c \in 1..Len(challenges') : challenges'[c].pin \in 1..Len(pins)
        <4> TAKE c \in 1..Len(challenges')
        <4>1. c \in 1..Len(challenges) \/ c = Len(challenges) + 1
          BY <1>1, <3>3
        <4> QED
          BY <1>1, <3>2, <3>3, <4>1 DEF Tables
      <3> QED
        BY <1>1, <2>1, <3>3, <3>4
    <2>2. CASE ~(Len(challenges) < MaxAsked)
      <3>1. challenges' = challenges
        BY <2>2 DEF CreateChallenge
      <3> QED
        BY <1>1, <3>1 DEF Tables
    <2> QED
      BY <2>1, <2>2
  <1>4. Tables'
    BY <1>1, <1>3 DEF Tables
  <1>5. ChallengesKept
    BY <1>3 DEF ChallengesKept
  <1>6. LocalInvs'
    <2> SUFFICES ASSUME NEW q \in Requests PROVE LocalInv(request[q])'
      BY DEF LocalInvs
    <2>1. CASE q = r
      BY <1>2, <1>4, <2>1, IdleFits DEF LocalInv, Idle, OnToken
    <2>2. CASE q # r
      <3>1. request[q].pc = "sign" => ~pins'[challenges[request[q].at].pin]
        BY <1>1, Typed DEF LocalInv
      <3> QED
        BY <1>1, <1>2, <1>4, <1>5, <2>2, <3>1, FitsWithout, Domains
    <2> QED
      BY <2>1, <2>2
  <1>7. Separate'
    BY <1>2, <1>5, StillSeparate DEF Quiet, Idle
  <1> QED
    BY <1>1, <1>2, <1>4, <1>6, <1>7, LoginsKept DEF IInv

LEMMA VerifySignatureKeeps ==
    ASSUME IInv, NEW r \in Requests, VerifySignature(r) PROVE IInv'
  <1>1. PICK c \in 1..Len(challenges) :
             /\ ChallengeFree(r, c)
             /\ request' = [request EXCEPT ![r] = [Idle EXCEPT !.pc = "pin", !.at = c]]
    BY Typed, Domains DEF VerifySignature
  <1>2. PICK n : n = [Idle EXCEPT !.pc = "pin", !.at = c]
    OBVIOUS
  <1>3. Len(challenges) \in Nat /\ c \in Nat /\ 0 \in 0..MaxTokens /\ 0 \in 0..MaxHops
    BY Typed, Domains
  <1>4. n \in Local /\ n.pc = "pin" /\ n.at = c /\ n.sweep = {}
    BY <1>2, <1>3 DEF Idle, Local, Steps
  <1>5. LocalInv(n)
    BY <1>4 DEF LocalInv, OnToken
  <1>6. \A q \in Requests \ {r} : Apart(n, request[q]) /\ Apart(request[q], n)
    BY <1>1, <1>4 DEF Apart, OnToken, ChallengeFree, HeldChallenge, At
  <1> QED
    BY <1>1, <1>2, <1>5, <1>6, MovesOn DEF VerifySignature

LEMMA LockPinKeeps == ASSUME IInv, NEW r \in Requests, LockPin(r) PROVE IInv'
  <1> DEFINE p == challenges[request[r].at].pin
  <1>1. Tables /\ LocalInv(request[r]) /\ request[r].pc = "pin"
    BY Typed DEF LockPin, At
  <1>2. CASE pins[p]
    <2>1. request' = [request EXCEPT ![r] = Idle]
      BY <1>2 DEF LockPin, Ends
    <2>2. \A q \in Requests \ {r} : Apart(Idle, request[q]) /\ Apart(request[q], Idle)
      BY DEF Apart, OnToken, Idle
    <2> QED
      BY <1>1, <2>1, <2>2, IdleFits, MovesOn DEF LockPin
  <1>3. CASE ~pins[p]
    <2>1. "sign" \in Steps /\ Goes(r, "sign")
      BY <1>3 DEF LockPin, Steps
    <2>2. PICK n : /\ n \in Local /\ n.pc = "sign" /\ n.sweep = request[r].sweep
                   /\ n.at = request[r].at
                   /\ request' = [request EXCEPT ![r] = n]
      BY <2>1, Gone
    <2>3. LocalInv(n)
      BY <1>1, <1>3, <2>2 DEF LocalInv, OnToken
    <2>4. \A q \in Requests \ {r} : Apart(n, request[q]) /\ Apart(request[q], n)
      <3> TAKE q \in Requests \ {r}
      <3>1. Apart(request[r], request[q]) /\ Apart(request[q], request[r])
        BY DEF IInv, Separate
      <3>2. p \notin HeldPin(q)
        BY DEF LockPin, PinFree
      <3> QED
        BY <1>1, <2>2, <3>1, <3>2 DEF Apart, HeldPin, At, OnToken
    <2> QED
      BY <2>2, <2>3, <2>4, MovesOn DEF LockPin
  <1> QED
    BY <1>2, <1>3

(* The challenge and its PIN session are used up with the login. *)
LEMMA CommitLoginKeeps == ASSUME IInv, NEW r \in Requests, CommitLogin(r) PROVE IInv'
  <1> DEFINE c == request[r].at
             p == challenges[c].pin
             S == [pin : Nat, used : BOOLEAN]
             n == [Idle EXCEPT !.pc = "issue", !.at = Len(logins) + 1]
  <1>1. /\ Tables /\ LocalInv(request[r]) /\ request[r].pc = "sign"
        /\ UNCHANGED <<tokens, forked, crashes>>
    BY Typed DEF CommitLogin, At
  <1>2. CASE Ends(r) /\ UNCHANGED <<challenges, pins, logins>>
    <2>1. \A q \in Requests \ {r} : Apart(Idle, request[q]) /\ Apart(request[q], Idle)
      BY DEF Apart, OnToken, Idle
    <2> QED
      BY <1>1, <1>2, <2>1, IdleFits, MovesOn DEF Ends
  <1>3. CASE /\ challenges' = [challenges EXCEPT ![c].used = TRUE]
             /\ pins' = [pins EXCEPT ![p] = TRUE]
             /\ logins' = Append(logins, p)
             /\ request' = [request EXCEPT ![r] = n]
    <2>1. /\ c \in 1..Len(challenges) /\ challenges[c] \in S
          /\ challenges \in Seq(S) /\ pins \in Seq(BOOLEAN) /\ logins \in Seq(Nat)
          /\ p \in 1..Len(pins) /\ ~pins[p] /\ Len(pins) \in Nat /\ p \in Nat
          /\ Len(logins) \in Nat /\ Len(challenges) \in Nat
      BY <1>1, Domains DEF LocalInv, Tables
    <2>2. PICK x : x = [challenges[c] EXCEPT !.used = TRUE]
      OBVIOUS
    <2>3. x \in S /\ x.pin = p
      BY <2>1, <2>2
    <2>4. challenges' = [challenges EXCEPT ![c] = x]
      BY <1>1, <1>3, <2>2, Domains
    <2>5. /\ challenges' \in Seq(S) /\ Len(challenges') = Len(challenges)
          /\ \A d \in 1..Len(challenges) : challenges'[d].pin = challenges[d].pin
      BY <2>1, <2>3, <2>4, WriteOne
    <2>6. /\ pins' \in Seq(BOOLEAN) /\ Len(pins') = Len(pins)
          /\ \A d \in 1..Len(pins) : pins'[d] = IF d = p THEN TRUE ELSE pins[d]
      <3>1. PICK d : d = p
        OBVIOUS
      <3>2. /\ pins' = [pins EXCEPT ![d] = TRUE] /\ d \in 1..Len(pins)
            /\ TRUE \in BOOLEAN /\ pins \in Seq(BOOLEAN)
        BY <1>3, <2>1, <3>1
      <3>3. /\ pins' \in Seq(BOOLEAN) /\ Len(pins') = Len(pins)
            /\ \A e \in 1..Len(pins) : pins'[e] = IF e = d THEN TRUE ELSE pins[e]
        <4> HIDE DEF p
        <4>1. pins \in [1..Len(pins) -> BOOLEAN]
          BY <1>1, <2>1, Domains DEF Tables
        <4>2. /\ pins' \in [1..Len(pins) -> BOOLEAN]
              /\ \A e \in 1..Len(pins) : pins'[e] = IF e = d THEN TRUE ELSE pins[e]
          BY <3>2, <4>1
        <4>3. pins' \in Seq(BOOLEAN) /\ Len(pins') = Len(pins)
          BY <2>1, <4>2, Segment
        <4> QED
          BY <4>2, <4>3
      <3> QED
        BY <3>1, <3>3
    <2>7. /\ logins' \in Seq(Nat) /\ Len(logins') = Len(logins) + 1
          /\ \A i \in 1..Len(logins) : logins'[i] = logins[i]
          /\ logins'[Len(logins) + 1] = p
      BY <1>3, <2>1, AppendProperties
    <2>8. n \in Local /\ n.pc = "issue" /\ n.at = Len(logins) + 1 /\ n.sweep = {}
      <3>1. Len(logins) + 1 \in Nat /\ 0 \in 0..MaxTokens /\ 0 \in 0..MaxHops
        BY <1>1, <2>1, Domains
      <3> QED
        BY <3>1 DEF Idle, Local, Steps
    <2>9. PICK m : m = n
      OBVIOUS
    <2>10. /\ request'[r] = m /\ \A q \in Requests : q # r => request'[q] = request[q]
           /\ request' \in [Requests -> Local]
      BY <1>3, <2>8, <2>9, Typed
    <2>11. m.pc = "issue" /\ m.at = Len(logins) + 1 /\ m.sweep = {} /\ m \in Local
      BY <2>8, <2>9
    <2> HIDE DEF c, p, n, S
    <2>12. Tables'
      <3>1. \A i \in 1..Len(logins') : logins'[i] \in 1..Len(pins') /\ pins'[logins'[i]]
        <4> TAKE i \in 1..Len(logins')
        <4>1. CASE i \in 1..Len(logins)
          BY <1>1, <2>6, <2>7, <4>1 DEF Tables
        <4>2. CASE i \notin 1..Len(logins)
          <5>1. i = Len(logins) + 1
            BY <2>1, <2>7, <4>2
          <5> QED
            BY <2>1, <2>6, <2>7, <5>1
        <4> QED
          BY <4>1, <4>2
      <3>2. \A t \in 1..Len(tokens) : tokens[t].login \in 1..Len(logins')
        BY <1>1, <2>1, <2>7 DEF Tables
      <3>3. forked' \subseteq 1..Len(logins')
        BY <1>1, <2>1, <2>7 DEF Tables
      <3> QED
        BY <1>1, <2>5, <2>6, <2>7, <3>1, <3>2, <3>3 DEF Tables, S
    <2>13. ChallengesKept
      BY <2>1, <2>5 DEF ChallengesKept
    <2>14. \A t \in 1..Len(tokens) : tokens[t].login # Len(logins) + 1
      BY <1>1, <2>1 DEF Tables
    <2>15. LocalInvs'
      <3> SUFFICES ASSUME NEW q \in Requests PROVE LocalInv(request[q])'
        BY DEF LocalInvs
      <3>1. CASE q = r
        BY <1>1, <2>1, <2>7, <2>10, <2>11, <2>14, <3>1 DEF LocalInv, OnToken
      <3>2. CASE q # r
        <4>1. LocalInv(request[q]) /\ Apart(request[q], request[r])
          BY <3>2, Typed DEF IInv, Separate
        <4>2. request[q].pc = "sign" => ~pins'[challenges[request[q].at].pin]
          <5> SUFFICES ASSUME request[q].pc = "sign"
                       PROVE  ~pins'[challenges[request[q].at].pin]
            OBVIOUS
          <5>1. PICK d : d = challenges[request[q].at].pin
            OBVIOUS
          <5>2. d \in 1..Len(pins) /\ ~pins[d] /\ d # p
            BY <1>1, <4>1, <5>1 DEF LocalInv, Tables, Apart, p, c
          <5> QED
            BY <2>6, <5>1, <5>2
        <4>3. request[q].pc = "issue" =>
                \A t \in 1..Len(tokens') : tokens'[t].login # request[q].at
          BY <1>1, <4>1 DEF LocalInv
        <4>4. request[q].pc = "rotate" =>
                tokens'[request[q].at].state \in {"live", "expired"}
          BY <1>1, <4>1 DEF LocalInv, Open
        <4>5. /\ Len(pins) <= Len(pins') /\ Len(logins) <= Len(logins')
              /\ Len(tokens) <= Len(tokens')
          BY <1>1, <2>1, <2>6, <2>7, Domains
        <4> QED
          BY <2>10, <2>12, <2>13, <3>2, <4>2, <4>3, <4>4, <4>5, StillFits
      <3> QED
        BY <3>1, <3>2
    <2>16. Separate'
      <3> SUFFICES ASSUME NEW i \in Requests, NEW q \in Requests, i # q
                   PROVE  Apart(request[i], request[q])'
        BY DEF Separate
      <3>1. LocalInv(request[i]) /\ LocalInv(request[q]) /\ Apart(request[i], request[q])
        BY Typed DEF IInv, Separate
      <3>2. CASE i # r /\ q # r
        BY <2>5, <2>10, <3>1, <3>2 DEF Apart, LocalInv
      <3>3. CASE i = r
        BY <2>1, <2>10, <2>11, <3>1, <3>3 DEF Apart, LocalInv, OnToken
      <3>4. CASE q = r
        BY <2>1, <2>10, <2>11, <3>1, <3>4 DEF Apart, LocalInv, OnToken
      <3> QED
        BY <3>2, <3>3, <3>4
    <2>17. OneLoginPerPin'
      <3> SUFFICES ASSUME NEW i \in 1..Len(logins'), NEW j \in 1..Len(logins'),
                          logins'[i] = logins'[j]
                   PROVE  i = j
        <4>1. DOMAIN logins' = 1..Len(logins')
          BY <2>7, LenProperties
        <4> QED
          BY <4>1 DEF OneLoginPerPin
      <3>1. \A k \in 1..Len(logins) : logins'[k] # p
        BY <1>1, <2>1, <2>7 DEF Tables
      <3>2. \A k \in 1..Len(logins') : k \in 1..Len(logins) \/ k = Len(logins) + 1
        BY <2>1, <2>7
      <3> QED
        BY <1>1, <2>7, <3>1, <3>2, Domains DEF IInv, OneLoginPerPin
    <2>18. ChainsConnected'
      <3>1. DOMAIN logins = 1..Len(logins) /\ DOMAIN logins' = 1..Len(logins) \cup {Len(logins) + 1}
        BY <1>1, <2>1, <2>7, Domains, LenProperties
      <3>2. \A l : Chain(l)' = Chain(l)
        BY <1>1 DEF Chain
      <3>3. Chain(Len(logins) + 1) = {}
        BY <1>1, <2>14, Domains DEF Chain
      <3> QED
        BY <1>1, <3>1, <3>2, <3>3 DEF IInv, ChainsConnected, Unrevoked
    <2> QED
      BY <2>10, <2>12, <2>15, <2>16, <2>17, <2>18 DEF IInv
  <1> QED
    BY <1>2, <1>3 DEF CommitLogin

-----------------------------------------------------------------------------
(* Refresh tokens: what is done to them, and what that does to the chains  *)

TokenTyped(t) ==
    /\ tokens'[t].login \in 1..Len(logins)
    /\ tokens'[t].next # 0 => tokens'[t].next \in (t + 1)..Len(tokens')

(* Rows are changed but keep their login; what is added belongs to no      *)
(* login whose tokens another request has yet to issue.                    *)
TokensGoOn(keeper) ==
    /\ tokens' \in Seq(Token) /\ Len(tokens) <= Len(tokens') /\ Len(tokens') <= MaxTokens
    /\ \A t \in 1..Len(tokens') : TokenTyped(t)
    /\ \A t \in 1..Len(tokens) : tokens'[t].login = tokens[t].login
    /\ \A t \in 1..Len(tokens') : t \in 1..Len(tokens) \/
         \/ \E u \in 1..Len(tokens) : tokens[u].login = tokens'[t].login
         \/ keeper.pc = "issue" /\ keeper.at = tokens'[t].login
    /\ \A q \in Requests : request'[q] = request[q] /\ request[q].pc = "rotate" =>
         tokens'[request[q].at].state \in {"live", "expired"}

LEMMA TokensKeep ==
    ASSUME IInv, UNCHANGED <<pins, challenges, logins, crashes>>, Forks,
           request' \in [Requests -> Local],
           \A q \in Requests : request'[q] = request[q] \/ request'[q] = Idle,
           NEW keeper, TokensGoOn(keeper),
           keeper.pc = "issue" =>
             \A q \in Requests : request'[q] = request[q] /\ request[q].pc = "issue"
                                   => request[q].at # keeper.at,
           ChainsConnected'
    PROVE  IInv'
  <1>1. Tables
    BY DEF IInv
  <1>2. Tables'
    BY <1>1 DEF Tables, TokensGoOn, TokenTyped, Forks
  <1>3. ChallengesKept
    BY <1>1, Domains DEF ChallengesKept
  <1>4. Separate'
    BY <1>3, StillSeparate DEF Idle, Quiet
  <1>5. LocalInvs'
    <2> SUFFICES ASSUME NEW q \in Requests PROVE LocalInv(request[q])'
      BY DEF LocalInvs
    <2>1. CASE request'[q] = Idle
      BY <1>1, <2>1, IdleFits DEF LocalInv, Idle, OnToken
    <2>2. CASE request'[q] = request[q]
      <3>1. LocalInv(request[q])
        BY Typed
      <3>2. request[q].pc = "issue" =>
              \A t \in 1..Len(tokens') : tokens'[t].login # request[q].at
        BY <2>2, <3>1 DEF LocalInv, TokensGoOn
      <3>3. request[q].pc = "sign" => ~pins'[challenges[request[q].at].pin]
        BY <3>1 DEF LocalInv
      <3>4. request[q].pc = "rotate" =>
              tokens'[request[q].at].state \in {"live", "expired"}
        BY <2>2 DEF TokensGoOn
      <3>5. /\ Len(pins) <= Len(pins') /\ Len(logins) <= Len(logins')
            /\ Len(tokens) <= Len(tokens')
        BY <1>1, Domains DEF TokensGoOn
      <3> QED
        BY <1>2, <1>3, <2>2, <3>2, <3>3, <3>4, <3>5, StillFits
    <2> QED
      BY <2>1, <2>2
  <1>6. OneLoginPerPin'
    BY DEF IInv, OneLoginPerPin
  <1> QED
    BY <1>2, <1>4, <1>5, <1>6 DEF IInv

-----------------------------------------------------------------------------
(* The chains                                                              *)

(* Where no chain has forked, a token that is not revoked, or has no       *)
(* successor, is the end of its chain.                                     *)
LEMMA OpenIsEnd ==
    ASSUME IInv, NEW t \in 1..Len(tokens), tokens[t].login \notin forked,
           Open(t) \/ tokens[t].next = 0
    PROVE  /\ tokens[t].next = 0
           /\ \A u \in 1..Len(tokens) : u # t /\ tokens[u].login = tokens[t].login =>
                /\ tokens[u].next \in 1..Len(tokens)
                /\ tokens[tokens[u].next].login = tokens[t].login
                /\ ~Open(u)
  <1> DEFINE l == tokens[t].login
  <1>1. /\ Tables /\ l \in DOMAIN logins /\ DOMAIN tokens = 1..Len(tokens)
        /\ 0 \notin 1..Len(tokens)
    <2>1. Tables
      BY DEF IInv
    <2>2. DOMAIN tokens = 1..Len(tokens) /\ DOMAIN logins = 1..Len(logins)
      BY <2>1, Domains
    <2>3. l \in 1..Len(logins)
      BY <2>1 DEF Tables
    <2>4. 0 \notin 1..Len(tokens)
      BY <2>1, Domains
    <2> QED
      BY <2>1, <2>2, <2>3, <2>4
  <1>2. t \in Chain(l)
    BY <1>1 DEF Chain
  <1>3. PICK end \in Chain(l) :
            /\ tokens[end].next = 0
            /\ \A u \in Chain(l) \ {end} : tokens[u].next \in Chain(l) /\ u \notin Unrevoked
    BY <1>1, <1>2 DEF IInv, ChainsConnected
  <1>4. t = end
    BY <1>1, <1>2, <1>3 DEF Chain, Unrevoked, Open
  <1> QED
    BY <1>1, <1>3, <1>4 DEF Chain, Unrevoked, Open

(* Rows whose state changes.                                               *)
LEMMA StatesConnect ==
    ASSUME IInv, UNCHANGED logins, tokens' \in Seq(Token), Len(tokens') = Len(tokens),
           forked \subseteq forked',
           \A t \in 1..Len(tokens) :
               /\ tokens'[t].login = tokens[t].login /\ tokens'[t].next = tokens[t].next
               /\ tokens'[t].state \in {"live", "expired"} => Open(t)
    PROVE  ChainsConnected'
  <1> SUFFICES ASSUME NEW l \in DOMAIN logins, l \notin forked', Chain(l)' # {}
               PROVE  \E end \in Chain(l)' :
                        /\ tokens'[end].next = 0
                        /\ \A t \in Chain(l)' \ {end} :
                             tokens'[t].next \in Chain(l)' /\ t \notin Unrevoked'
    BY DEF ChainsConnected
  <1>1. DOMAIN tokens = 1..Len(tokens) /\ DOMAIN tokens' = 1..Len(tokens)
    BY Domains, LenProperties DEF IInv
  <1>2. Chain(l)' = Chain(l)
    BY <1>1 DEF Chain
  <1>3. PICK end \in Chain(l) :
            /\ tokens[end].next = 0
            /\ \A u \in Chain(l) \ {end} : tokens[u].next \in Chain(l) /\ u \notin Unrevoked
    BY <1>2 DEF IInv, ChainsConnected
  <1>4. \A t \in Chain(l) : t \in 1..Len(tokens)
    BY <1>1 DEF Chain
  <1>5. tokens'[end].next = 0
    BY <1>3, <1>4
  <1>6. \A t \in Chain(l) \ {end} : tokens'[t].next \in Chain(l) /\ t \notin Unrevoked'
    BY <1>1, <1>3, <1>4 DEF Unrevoked, Open
  <1> QED
    BY <1>2, <1>3, <1>5, <1>6

(* Steps that change rows and add none.                                    *)
LEMMA RowsChange ==
    ASSUME IInv, UNCHANGED <<pins, challenges, logins, crashes>>, Forks,
           request' \in [Requests -> Local],
           \A q \in Requests : request'[q] = request[q] \/ request'[q] = Idle,
           tokens' \in Seq(Token), Len(tokens') = Len(tokens),
           \A t \in 1..Len(tokens) :
               /\ tokens'[t].login = tokens[t].login /\ tokens'[t].next = tokens[t].next
               /\ tokens'[t].state \in {"live", "expired"} => Open(t),
           \A q \in Requests : request'[q] = request[q] /\ request[q].pc = "rotate" =>
               tokens'[request[q].at].state \in {"live", "expired"}
    PROVE  IInv'
  <1>1. Tables /\ Len(tokens) \in Nat /\ Idle.pc = "idle"
    BY IdleFits, Domains DEF IInv
  <1>2. \A t \in 1..Len(tokens') : TokenTyped(t)
    BY <1>1 DEF Tables, TokenTyped
  <1>3. TokensGoOn(Idle)
    BY <1>1, <1>2 DEF TokensGoOn, Tables
  <1>4. ChainsConnected'
    BY StatesConnect DEF Forks
  <1> QED
    BY <1>1, <1>3, <1>4, TokensKeep

(* What replaces the end of a chain is its new end. *)
LEMMA ReplaceConnects ==
    ASSUME IInv, UNCHANGED logins, NEW t \in 1..Len(tokens),
           tokens' \in Seq(Token), Len(tokens') = Len(tokens) + 1,
           \A u \in 1..Len(tokens) : u # t => tokens'[u] = tokens[u],
           tokens'[t].login = tokens[t].login, tokens'[t].state = "recent",
           tokens'[t].next = Len(tokens) + 1,
           tokens'[Len(tokens) + 1].login = tokens[t].login,
           tokens'[Len(tokens) + 1].next = 0,
           forked \subseteq forked',
           tokens[t].login \in forked' \/ Open(t) \/ tokens[t].next = 0
    PROVE  ChainsConnected'
  <1> SUFFICES ASSUME NEW l \in DOMAIN logins, l \notin forked', Chain(l)' # {}
               PROVE  \E end \in Chain(l)' :
                        /\ tokens'[end].next = 0
                        /\ \A u \in Chain(l)' \ {end} :
                             tokens'[u].next \in Chain(l)' /\ u \notin Unrevoked'
    BY DEF ChainsConnected
  <1> DEFINE N == Len(tokens) + 1
  <1>1. /\ Tables /\ DOMAIN tokens = 1..Len(tokens) /\ DOMAIN tokens' = 1..(Len(tokens) + 1)
        /\ Len(tokens) \in Nat
    BY Domains, LenProperties DEF IInv
  <1>2. /\ DOMAIN tokens' = 1..Len(tokens) \cup {N} /\ N \notin 1..Len(tokens)
        /\ tokens'[N].login = tokens[t].login /\ tokens'[N].next = 0 /\ tokens'[t].next = N
    BY <1>1
  <1> HIDE DEF N
  <1>3. CASE l = tokens[t].login
    <2>1. Chain(l)' = Chain(l) \cup {N}
      BY <1>1, <1>2, <1>3 DEF Chain
    <2>2. \A u \in Chain(l) : u = t \/ (tokens'[u].next \in Chain(l) /\ u \notin Unrevoked')
      <3> SUFFICES ASSUME NEW u \in Chain(l), u # t
                   PROVE  tokens'[u].next \in Chain(l) /\ u \notin Unrevoked'
        OBVIOUS
      <3>1. /\ u \in 1..Len(tokens) /\ tokens[u].login = tokens[t].login
            /\ tokens'[u] = tokens[u]
        BY <1>1, <1>3 DEF Chain
      <3>2. /\ tokens[u].next \in 1..Len(tokens)
            /\ tokens[tokens[u].next].login = tokens[t].login /\ ~Open(u)
        <4>1. tokens[t].login \notin forked /\ (Open(t) \/ tokens[t].next = 0)
          BY <1>3
        <4> QED
          BY <3>1, <4>1, OpenIsEnd
      <3> QED
        BY <1>1, <1>3, <3>1, <3>2 DEF Chain, Unrevoked, Open
    <2>3. t \notin Unrevoked'
      BY DEF Unrevoked
    <2> QED
      BY <1>2, <2>1, <2>2, <2>3
  <1>4. CASE l # tokens[t].login
    <2>1. Chain(l)' = Chain(l)
      BY <1>1, <1>2, <1>4 DEF Chain
    <2>2. PICK end \in Chain(l) :
            /\ tokens[end].next = 0
            /\ \A u \in Chain(l) \ {end} : tokens[u].next \in Chain(l) /\ u \notin Unrevoked
      BY <2>1 DEF IInv, ChainsConnected
    <2>3. \A u \in Chain(l) : u \in 1..Len(tokens) /\ tokens'[u] = tokens[u]
      BY <1>1, <1>4 DEF Chain
    <2> QED
      BY <1>1, <2>1, <2>2, <2>3 DEF Unrevoked
  <1> QED
    BY <1>3, <1>4

-----------------------------------------------------------------------------
(* Refresh tokens: the steps                                               *)

LEMMA IssueTokensKeeps == ASSUME IInv, NEW r \in Requests, IssueTokens(r) PROVE IInv'
  <1>1. /\ Tables /\ LocalInv(request[r]) /\ request[r].pc = "issue"
        /\ UNCHANGED <<pins, challenges, logins, forked, crashes>>
        /\ Len(tokens) \in Nat /\ Forks /\ MaxTokens \in Nat
        /\ tokens \in Seq(Token)
    BY Typed, Domains DEF IssueTokens, At, Tables, Forks
  <1>2. /\ request'[r] = Idle /\ request' \in [Requests -> Local]
        /\ \A q \in Requests : q # r => request'[q] = request[q]
    BY Ended DEF IssueTokens
  <1>3. /\ request[r].at \in 1..Len(logins) /\ request[r].at \in Nat
        /\ \A t \in 1..Len(tokens) : tokens[t].login # request[r].at
    BY <1>1, Typed DEF LocalInv
  <1>4. CASE ~(Len(tokens) < MaxTokens)
    <2>1. tokens' = tokens
      BY <1>4 DEF IssueTokens
    <2>2. \A q \in Requests : request[q].pc = "rotate" =>
               tokens[request[q].at].state \in {"live", "expired"}
      BY Typed DEF LocalInv, Open
    <2> QED
      BY <1>1, <1>2, <2>1, <2>2, RowsChange DEF Open
  <1>5. CASE Len(tokens) < MaxTokens
    <2> DEFINE N == Len(tokens) + 1
    <2>1. PICK x : x = Fresh(request[r].at)
      OBVIOUS
    <2>2. x \in Token /\ x.next = 0 /\ x.login = request[r].at
      BY <1>1, <1>3, <2>1 DEF Fresh, Token
    <2>3. tokens' = Append(tokens, x)
      BY <1>5, <2>1 DEF IssueTokens
    <2>4. /\ tokens' \in Seq(Token) /\ Len(tokens') = Len(tokens) + 1
          /\ \A u \in 1..Len(tokens) : tokens'[u] = tokens[u]
          /\ tokens'[N] = x
      BY <1>1, <2>2, <2>3, AppendProperties
    <2>5. /\ DOMAIN tokens = 1..Len(tokens) /\ DOMAIN tokens' = 1..Len(tokens) \cup {N}
          /\ 1..Len(tokens') = 1..Len(tokens) \cup {N} /\ N \notin 1..Len(tokens)
          /\ Len(tokens) <= Len(tokens') /\ Len(tokens') <= MaxTokens
      BY <1>1, <1>5, <2>4, Domains, LenProperties
    <2>6. \A u \in 1..Len(tokens') : TokenTyped(u)
      <3> TAKE u \in 1..Len(tokens')
      <3>1. CASE u = N
        BY <1>3, <2>2, <2>4, <3>1 DEF TokenTyped
      <3>2. CASE u \in 1..Len(tokens)
        <4>1. tokens[u].next # 0 => tokens[u].next \in (u + 1)..Len(tokens')
          BY <1>1, <2>4, <3>2 DEF Tables
        <4> QED
          BY <1>1, <2>4, <3>2, <4>1 DEF TokenTyped, Tables
      <3> QED
        BY <2>5, <3>1, <3>2
    <2> HIDE DEF N
    <2>7. PICK k : k = request[r]
      OBVIOUS
    <2>8. TokensGoOn(k)
      <3>1. \A q \in Requests : request'[q] = request[q] /\ request[q].pc = "rotate" =>
               tokens'[request[q].at].state \in {"live", "expired"}
        BY <2>4, Typed DEF LocalInv, Open, OnToken
      <3> QED
        BY <1>1, <2>2, <2>4, <2>5, <2>6, <2>7, <3>1 DEF TokensGoOn
    <2>9. k.pc = "issue" =>
             \A q \in Requests : request'[q] = request[q] /\ request[q].pc = "issue"
                                   => request[q].at # k.at
      BY <1>1, <1>2, <2>7 DEF IInv, Separate, Apart, Idle
    <2>10. ChainsConnected'
      <3> SUFFICES ASSUME NEW l \in DOMAIN logins, l \notin forked', Chain(l)' # {}
                   PROVE  \E end \in Chain(l)' :
                            /\ tokens'[end].next = 0
                            /\ \A u \in Chain(l)' \ {end} :
                                 tokens'[u].next \in Chain(l)' /\ u \notin Unrevoked'
        BY <1>1 DEF ChainsConnected
      <3>1. CASE l = request[r].at
        <4>1. Chain(l)' = {N}
          BY <1>3, <2>2, <2>4, <2>5, <3>1 DEF Chain
        <4> QED
          BY <2>2, <2>4, <4>1
      <3>2. CASE l # request[r].at
        <4>1. Chain(l)' = Chain(l)
          BY <2>2, <2>4, <2>5, <3>2 DEF Chain
        <4>2. PICK end \in Chain(l) :
                /\ tokens[end].next = 0
                /\ \A u \in Chain(l) \ {end} :
                     tokens[u].next \in Chain(l) /\ u \notin Unrevoked
          BY <1>1, <4>1 DEF IInv, ChainsConnected
        <4>3. \A u \in Chain(l) : u \in 1..Len(tokens) /\ tokens'[u] = tokens[u]
          BY <2>4, <2>5 DEF Chain
        <4> QED
          BY <2>5, <4>1, <4>2, <4>3 DEF Unrevoked
      <3> QED
        BY <3>1, <3>2
    <2> QED
      BY <1>1, <1>2, <2>8, <2>9, <2>10, TokensKeep
  <1> QED
    BY <1>4, <1>5

LEMMA ReplaceKeeps ==
    ASSUME IInv, NEW r \in Requests, NEW t \in 1..Len(tokens), Replace(r, t), Ends(r),
           UNCHANGED <<pins, challenges, logins, crashes>>, Forks,
           tokens[t].login \in forked' \/ Open(t) \/ tokens[t].next = 0,
           \A q \in Requests \ {r} : request[q].pc = "rotate" => request[q].at # t
    PROVE  IInv'
  <1>1. /\ Tables /\ Len(tokens) \in Nat /\ MaxTokens \in Nat /\ tokens \in Seq(Token)
        /\ Idle.pc = "idle" /\ DOMAIN tokens = 1..Len(tokens) /\ t \in Nat
    <2>1. Tables
      BY DEF IInv
    <2> QED
      BY <2>1, IdleFits, Domains DEF Tables
  <1>2. /\ request'[r] = Idle /\ request' \in [Requests -> Local]
        /\ \A q \in Requests : q # r => request'[q] = request[q]
    BY Ended
  <1>3. \A q \in Requests : request[q].pc = "rotate" =>
               /\ request[q].at \in 1..Len(tokens)
               /\ tokens[request[q].at].state \in {"live", "expired"}
    BY Typed DEF LocalInv, Open, OnToken
  <1>4. CASE ~(Len(tokens) < MaxTokens)
    <2>1. tokens' = tokens
      BY <1>4 DEF Replace
    <2> QED
      BY <1>1, <1>2, <1>3, <2>1, RowsChange DEF Open
  <1>5. CASE Len(tokens) < MaxTokens
    <2> DEFINE N == Len(tokens) + 1
    <2>1. PICK x : x = [tokens[t] EXCEPT !.state = "recent", !.next = Len(tokens) + 1]
      OBVIOUS
    <2>2. PICK y : y = Fresh(tokens[t].login)
      OBVIOUS
    <2>3. /\ tokens[t] \in Token /\ N \in 0..MaxTokens
          /\ tokens[t].login \in 1..Len(logins) /\ tokens[t].login \in Nat
      <3>1. tokens[t] \in Token /\ Len(logins) \in Nat
        BY <1>1, Domains
      <3>2. tokens[t].login \in 1..Len(logins)
        BY <1>1 DEF Tables
      <3>3. N \in 0..MaxTokens
        BY <1>1, <1>5
      <3> QED
        BY <3>1, <3>2, <3>3 DEF Token
    <2>4. x \in Token /\ x.next = N /\ x.login = tokens[t].login /\ x.state = "recent"
      BY <2>1, <2>3 DEF Token
    <2>5. y \in Token /\ y.next = 0 /\ y.login = tokens[t].login
      BY <1>1, <2>2, <2>3 DEF Fresh, Token
    <2>6. PICK s : s = [tokens EXCEPT ![t] = x]
      OBVIOUS
    <2>7. /\ s \in Seq(Token) /\ Len(s) = Len(tokens)
          /\ \A u \in 1..Len(tokens) : s[u] = IF u = t THEN x ELSE tokens[u]
      BY <1>1, <2>4, <2>6, WriteOne
    <2>8. [Revoked(t) EXCEPT ![t].next = Len(tokens) + 1] = s
      BY <1>1, <2>1, <2>6 DEF Revoked
    <2>9. tokens' = Append(s, y)
      BY <1>5, <2>2, <2>8 DEF Replace
    <2>10. /\ tokens' \in Seq(Token) /\ Len(tokens') = Len(tokens) + 1
           /\ \A u \in 1..Len(tokens) : u # t => tokens'[u] = tokens[u]
           /\ tokens'[t] = x /\ tokens'[N] = y
      BY <2>5, <2>7, <2>9, AppendProperties
    <2>11. /\ 1..Len(tokens') = 1..Len(tokens) \cup {N} /\ N \notin 1..Len(tokens)
           /\ Len(tokens) <= Len(tokens') /\ Len(tokens') <= MaxTokens
      BY <1>1, <1>5, <2>10
    <2>12. \A u \in 1..Len(tokens') : TokenTyped(u)
      <3> TAKE u \in 1..Len(tokens')
      <3>1. CASE u = N
        BY <2>3, <2>5, <2>10, <3>1 DEF TokenTyped
      <3>2. CASE u = t
        <4>1. N \in (t + 1)..Len(tokens')
          BY <1>1, <2>10
        <4> QED
          BY <2>3, <2>4, <2>10, <3>2, <4>1 DEF TokenTyped
      <3>3. CASE u \in 1..Len(tokens) /\ u # t
        <4>1. tokens[u].next # 0 => tokens[u].next \in (u + 1)..Len(tokens')
          BY <1>1, <2>10, <3>3 DEF Tables
        <4> QED
          BY <1>1, <2>10, <3>3, <4>1 DEF TokenTyped, Tables
      <3> QED
        BY <2>11, <3>1, <3>2, <3>3
    <2>13. ChainsConnected'
      BY <2>4, <2>5, <2>10, ReplaceConnects DEF Forks
    <2> HIDE DEF N
    <2>14. TokensGoOn(Idle)
      <3>1. \A u \in 1..Len(tokens) : tokens'[u].login = tokens[u].login
        BY <2>4, <2>10
      <3>2. \A u \in 1..Len(tokens') : u \in 1..Len(tokens) \/
               \E v \in 1..Len(tokens) : tokens[v].login = tokens'[u].login
        BY <2>5, <2>10, <2>11
      <3>3. \A q \in Requests : request'[q] = request[q] /\ request[q].pc = "rotate" =>
               tokens'[request[q].at].state \in {"live", "expired"}
        BY <1>1, <1>2, <1>3, <2>10
      <3> QED
        BY <2>10, <2>11, <2>12, <3>1, <3>2, <3>3 DEF TokensGoOn
    <2> QED
      BY <1>1, <1>2, <2>13, <2>14, TokensKeep
  <1> QED
    BY <1>4, <1>5

(* One row is written and none is added.                                   *)
LEMMA RowChanges ==
    ASSUME IInv, UNCHANGED <<pins, challenges, logins, crashes>>, Forks,
           request' \in [Requests -> Local],
           \A q \in Requests : request'[q] = request[q] \/ request'[q] = Idle,
           NEW t \in 1..Len(tokens), NEW x \in Token,
           tokens' = [tokens EXCEPT ![t] = x],
           x.login = tokens[t].login, x.next = tokens[t].next,
           x.state \in {"live", "expired"} => Open(t),
           \A q \in Requests : request'[q] = request[q] /\ request[q].pc = "rotate" =>
               request[q].at # t \/ x.state \in {"live", "expired"}
    PROVE  IInv'
  <1>1. Tables /\ tokens \in Seq(Token)
    BY DEF IInv, Tables
  <1>2. /\ tokens' \in Seq(Token) /\ Len(tokens') = Len(tokens)
        /\ \A u \in 1..Len(tokens) : tokens'[u] = IF u = t THEN x ELSE tokens[u]
    BY <1>1, WriteOne
  <1>3. \A u \in 1..Len(tokens) :
            /\ tokens'[u].login = tokens[u].login /\ tokens'[u].next = tokens[u].next
            /\ tokens'[u].state \in {"live", "expired"} => Open(u)
    BY <1>2 DEF Open
  <1>4. \A q \in Requests : request'[q] = request[q] /\ request[q].pc = "rotate" =>
               tokens'[request[q].at].state \in {"live", "expired"}
    BY <1>2, Typed DEF LocalInv, Open, OnToken
  <1> QED
    BY <1>2, <1>3, <1>4, RowsChange

(* A free row that is no longer held by anybody else.                      *)
LEMMA NotRotated ==
    ASSUME IInv, NEW r \in Requests, NEW t, TokenFree(r, t)
    PROVE  \A q \in Requests \ {r} :
              request[q].pc \in OnToken \ {"logout"} => request[q].at # t
  BY DEF TokenFree, HeldToken, At, OnToken

(* A request that takes a row, with what it has read of it.                *)
LEMMA Takes ==
    ASSUME IInv, NEW r \in Requests, NEW n, LocalInv(n), n.pc \in OnToken \ {"logout"},
           \A q \in Requests \ {r} :
              request[q].pc \in OnToken \ {"logout"} => request[q].at # n.at,
           request' = [request EXCEPT ![r] = n],
           UNCHANGED <<pins, challenges, logins, tokens, forked, crashes>>
    PROVE  IInv'
  <1>1. \A q \in Requests \ {r} : Apart(n, request[q]) /\ Apart(request[q], n)
    BY DEF Apart, OnToken
  <1> QED
    BY <1>1, MovesOn

LEMMA SweepFits ==
    ASSUME IInv, NEW t \in 1..Len(tokens), NEW n,
           n = [Idle EXCEPT !.pc = "sweep", !.at = t, !.sweep = Unrevoked]
    PROVE  LocalInv(n) /\ n.pc = "sweep" /\ n.at = t
  <1>1. /\ Tables /\ t \in Nat /\ 0 \in 0..MaxTokens /\ 0 \in 0..MaxHops
        /\ Unrevoked \subseteq 1..Len(tokens) /\ 1..Len(tokens) \subseteq 1..MaxTokens
    <2>1. Tables
      BY DEF IInv
    <2>2. /\ DOMAIN tokens = 1..Len(tokens) /\ Len(tokens) \in Nat
          /\ MaxTokens \in Nat /\ MaxHops \in Nat
      BY <2>1, Domains
    <2>3. Len(tokens) <= MaxTokens
      BY <2>1 DEF Tables
    <2> QED
      BY <2>1, <2>2, <2>3 DEF Unrevoked
  <1>2. /\ n \in Local /\ n.pc = "sweep" /\ n.at = t /\ n.sweep = Unrevoked
    BY <1>1 DEF Idle, Local, Steps
  <1> QED
    BY <1>1, <1>2 DEF LocalInv, OnToken

LEMMA RotateRefreshTokenKeeps ==
    ASSUME IInv, NEW r \in Requests, RotateRefreshToken(r) PROVE IInv'
  <1>1. PICK t \in 1..Len(tokens) : TokenFree(r, t) /\ Examine(r, t)
    BY Typed, Domains DEF RotateRefreshToken
  <1>2. /\ Tables /\ request[r].pc = "idle" /\ request \in [Requests -> Local]
        /\ UNCHANGED <<pins, challenges, logins, forked, crashes>>
        /\ Forks
        /\ t \in Nat /\ tokens[t] \in Token /\ Len(tokens) \in Nat /\ MaxTokens \in Nat
        /\ 0 \in 0..MaxTokens /\ 0 \in 0..MaxHops /\ 1 \in 0..MaxHops
        /\ DOMAIN tokens = 1..Len(tokens) /\ Len(tokens) <= MaxTokens
    BY Typed, Domains, SMTT(30) DEF RotateRefreshToken, At, Tables, Forks
  <1>3. \A q \in Requests \ {r} :
              request[q].pc \in OnToken \ {"logout"} => request[q].at # t
    BY <1>1, NotRotated
  <1>4. CASE /\ tokens[t].state = "live"
             /\ request' = [request EXCEPT ![r] = [Idle EXCEPT !.pc = "rotate", !.at = t]]
             /\ UNCHANGED tokens
    <2>1. PICK n : n = [Idle EXCEPT !.pc = "rotate", !.at = t]
      OBVIOUS
    <2>2. n \in Local /\ n.pc = "rotate" /\ n.at = t /\ n.sweep = {}
      BY <1>2, <2>1 DEF Idle, Local, Steps
    <2>3. LocalInv(n)
      BY <1>4, <2>2 DEF LocalInv, OnToken, Open
    <2>4. n.pc \in OnToken \ {"logout"} /\ request' = [request EXCEPT ![r] = n]
      BY <1>4, <2>1, <2>2 DEF OnToken
    <2> QED
      BY <1>2, <1>3, <1>4, <2>2, <2>3, <2>4, Takes
  <1>5. CASE tokens[t].state = "expired" /\ tokens' = Revoked(t) /\ UNCHANGED request
    <2>1. PICK x : x = [tokens[t] EXCEPT !.state = "recent"]
      OBVIOUS
    <2>2. /\ x \in Token /\ x.login = tokens[t].login /\ x.next = tokens[t].next
          /\ x.state = "recent"
      BY <1>2, <2>1 DEF Token
    <2>3. tokens' = [tokens EXCEPT ![t] = x]
      BY <1>2, <1>5, <2>1 DEF Revoked
    <2>4. \A q \in Requests : request[q].pc = "rotate" => request[q].at # t
      BY <1>2, <1>3 DEF OnToken
    <2>5. request' \in [Requests -> Local] /\ \A q \in Requests : request'[q] = request[q]
      BY <1>2, <1>5
    <2> QED
      <3>1. UNCHANGED <<pins, challenges, logins, crashes>> /\ Forks
        BY <1>2
      <3>2. x.state \in {"live", "expired"} => Open(t)
        BY <2>2
      <3>3. \A q \in Requests : request'[q] = request[q] /\ request[q].pc = "rotate" =>
                request[q].at # t \/ x.state \in {"live", "expired"}
        BY <2>4
      <3> QED
        BY <2>2, <2>3, <2>5, <3>1, <3>2, <3>3, RowChanges
  <1>6. CASE /\ tokens[t].state = "recent" /\ tokens[t].next # 0
             /\ request' = [request EXCEPT ![r] =
                    [Idle EXCEPT !.pc = "replay", !.at = t, !.latest = tokens[t].next,
                                 !.hops = 1]]
             /\ UNCHANGED tokens
    <2>1. PICK n : n = [Idle EXCEPT !.pc = "replay", !.at = t, !.latest = tokens[t].next,
                                    !.hops = 1]
      OBVIOUS
    <2>2. tokens[t].next \in 1..Len(tokens) /\ tokens[t].next \in 0..MaxTokens
      BY <1>2, <1>6 DEF Tables
    <2>3. /\ n \in Local /\ n.pc = "replay" /\ n.at = t /\ n.sweep = {}
          /\ n.latest = tokens[t].next
      BY <1>2, <2>1, <2>2 DEF Idle, Local, Steps
    <2>4. LocalInv(n)
      BY <2>2, <2>3 DEF LocalInv, OnToken
    <2>5. n.pc \in OnToken \ {"logout"} /\ request' = [request EXCEPT ![r] = n]
      BY <1>6, <2>1, <2>3 DEF OnToken
    <2> QED
      BY <1>2, <1>3, <1>6, <2>3, <2>4, <2>5, Takes
  <1>7. CASE request' = Sweeping(r, t) /\ UNCHANGED tokens
    <2>1. PICK n : n = [Idle EXCEPT !.pc = "sweep", !.at = t, !.sweep = Unrevoked]
      OBVIOUS
    <2>2. LocalInv(n) /\ n.pc = "sweep" /\ n.at = t
      BY <2>1, SweepFits
    <2>3. n.pc \in OnToken \ {"logout"} /\ request' = [request EXCEPT ![r] = n]
      BY <1>7, <2>1, <2>2 DEF OnToken, Sweeping
    <2> QED
      BY <1>2, <1>3, <1>7, <2>2, <2>3, Takes
  <1> QED
    BY <1>1, <1>4, <1>5, <1>6, <1>7 DEF Examine

LEMMA CommitRotationKeeps ==
    ASSUME IInv, NEW r \in Requests, CommitRotation(r) PROVE IInv'
  <1>1. PICK t : t = request[r].at
    OBVIOUS
  <1>2. /\ Tables /\ t \in 1..Len(tokens) /\ Open(t) /\ request[r].pc = "rotate"
    BY <1>1, Typed DEF CommitRotation, At, LocalInv, OnToken
  <1>3. \A q \in Requests \ {r} : request[q].pc = "rotate" => request[q].at # t
    BY <1>1, <1>2 DEF IInv, Separate, Apart, OnToken
  <1>4. /\ Replace(r, t) /\ Ends(r) /\ Forks
        /\ UNCHANGED <<pins, challenges, logins, crashes>>
    BY <1>1, <1>2 DEF CommitRotation, Tables, Forks
  <1> QED
    BY <1>2, <1>3, <1>4, ReplaceKeeps

LEMMA FindLatestInChainKeeps ==
    ASSUME IInv, NEW r \in Requests, FindLatestInChain(r) PROVE IInv'
  <1> DEFINE t == request[r].latest
  <1>1. /\ Tables /\ LocalInv(request[r]) /\ request[r].pc = "replay"
        /\ request[r] \in Local /\ request[r].hops \in 0..MaxHops
        /\ UNCHANGED <<pins, challenges, logins, tokens, forked, crashes>>
        /\ t \in 1..Len(tokens) /\ tokens[t] \in Token
        /\ request \in [Requests -> Local]
        /\ request[r].at \in 1..Len(tokens) /\ request[r].at \in Nat
        /\ Len(tokens) \in Nat /\ Len(tokens) <= MaxTokens /\ MaxTokens \in Nat
        /\ MaxHops \in Nat
    BY Typed, Domains DEF FindLatestInChain, At, LocalInv, OnToken, Tables
  <1>2. \A q \in Requests \ {r} :
              request[q].pc \in OnToken \ {"logout"} => request[q].at # request[r].at
    BY <1>1 DEF IInv, Separate, Apart, OnToken
  <1>3. CASE tokens[t].next = 0 /\ tokens[t].state = "live" /\ Goes(r, "extend")
    <2>1. "extend" \in Steps
      BY DEF Steps
    <2>2. PICK n : /\ n \in Local /\ n.pc = "extend" /\ n.at = request[r].at
                   /\ n.latest = request[r].latest /\ n.sweep = request[r].sweep
                   /\ request' = [request EXCEPT ![r] = n]
      BY <1>3, <2>1, Gone
    <2>3. LocalInv(n) /\ n.pc \in OnToken \ {"logout"}
      BY <1>1, <2>2 DEF LocalInv, OnToken
    <2> QED
      BY <1>1, <1>2, <2>2, <2>3, Takes
  <1>4. CASE /\ tokens[t].next # 0 /\ request[r].hops + 1 < MaxHops
             /\ request' = [request EXCEPT ![r].latest = tokens[t].next,
                                           ![r].hops = request[r].hops + 1]
    <2>1. PICK n : n = [request[r] EXCEPT !.latest = tokens[t].next,
                                          !.hops = request[r].hops + 1]
      OBVIOUS
    <2>2. /\ tokens[t].next \in 1..Len(tokens) /\ tokens[t].next \in 0..MaxTokens
          /\ request[r].hops + 1 \in 0..MaxHops
      <3>1. PICK u \in 1..Len(tokens) : u = t
        BY <1>1
      <3>2. tokens[u].next \in (u + 1)..Len(tokens) /\ u \in Nat
        BY <1>1, <1>4, <3>1 DEF Tables
      <3>3. tokens[u].next \in 1..Len(tokens) /\ tokens[u].next \in 0..MaxTokens
        BY <1>1, <3>2
      <3>4. request[r].hops + 1 \in 0..MaxHops
        BY <1>1, <1>4
      <3> QED
        BY <3>1, <3>3, <3>4
    <2>3. /\ n \in Local /\ n.pc = "replay" /\ n.at = request[r].at
          /\ n.latest = tokens[t].next /\ n.sweep = request[r].sweep
      BY <1>1, <2>1, <2>2 DEF Local
    <2>4. request' = [request EXCEPT ![r] = n]
      BY <1>1, <1>4, <2>1
    <2>5. LocalInv(n) /\ n.pc \in OnToken \ {"logout"}
      BY <1>1, <2>2, <2>3 DEF LocalInv, OnToken
    <2> QED
      BY <1>1, <1>2, <2>3, <2>4, <2>5, Takes
  <1>5. CASE request' = Sweeping(r, request[r].at)
    <2>1. PICK n : n = [Idle EXCEPT !.pc = "sweep", !.at = request[r].at,
                                    !.sweep = Unrevoked]
      OBVIOUS
    <2>2. LocalInv(n) /\ n.pc = "sweep" /\ n.at = request[r].at
      <3>1. PICK a \in 1..Len(tokens) : a = request[r].at
        BY <1>1
      <3>2. n = [Idle EXCEPT !.pc = "sweep", !.at = a, !.sweep = Unrevoked]
        BY <2>1, <3>1
      <3>3. LocalInv(n) /\ n.pc = "sweep" /\ n.at = a
        BY <3>2, SweepFits
      <3> QED
        BY <3>1, <3>3
    <2>3. n.pc \in OnToken \ {"logout"} /\ request' = [request EXCEPT ![r] = n]
      BY <1>5, <2>1, <2>2 DEF OnToken, Sweeping
    <2> QED
      BY <1>1, <1>2, <2>2, <2>3, Takes
  <1> QED
    BY <1>3, <1>4, <1>5 DEF FindLatestInChain

LEMMA ExtendKeeps == ASSUME IInv, NEW r \in Requests, Extend(r) PROVE IInv'
  <1>1. PICK t : t = request[r].latest
    OBVIOUS
  <1>2. /\ Tables /\ t \in 1..Len(tokens) /\ request[r].pc = "extend"
    BY <1>1, Typed DEF Extend, At, LocalInv
  <1>3. /\ TokenFree(r, t) /\ Replace(r, t) /\ Ends(r)
        /\ forked' = IF tokens[t].next # 0 THEN forked \cup {tokens[t].login} ELSE forked
        /\ UNCHANGED <<pins, challenges, logins, crashes>>
    BY <1>1 DEF Extend
  <1>4. \A q \in Requests \ {r} : request[q].pc = "rotate" => request[q].at # t
    BY <1>3, NotRotated DEF OnToken
  <1>5. Forks /\ (tokens[t].login \in forked' \/ tokens[t].next = 0)
    BY <1>2, <1>3 DEF Forks, Tables
  <1> QED
    BY <1>2, <1>3, <1>4, <1>5, ReplaceKeeps

LEMMA RevokeAllForUserKeeps ==
    ASSUME IInv, NEW r \in Requests, RevokeAllForUser(r) PROVE IInv'
  <1>1. /\ Tables /\ Len(tokens) \in Nat /\ DOMAIN tokens = 1..Len(tokens)
        /\ UNCHANGED <<pins, challenges, logins, forked, crashes>>
        /\ Forks /\ tokens \in Seq(Token) /\ Idle.pc = "idle"
        /\ \A t \in 1..Len(tokens) : tokens[t] \in Token
    BY Typed, Domains, IdleFits DEF RevokeAllForUser, Tables, Forks
  <1>2. /\ request'[r] = Idle /\ request' \in [Requests -> Local]
        /\ \A q \in Requests : q # r => request'[q] = request[q]
    BY Ended DEF RevokeAllForUser
  <1>3. \A t \in 1..Len(tokens) :
          tokens'[t] = IF t \in request[r].sweep \cap Unrevoked
                       THEN [tokens[t] EXCEPT !.state = "recent"] ELSE tokens[t]
    BY <1>1 DEF RevokeAllForUser
  <1>4. \A t \in 1..Len(tokens) :
          /\ tokens'[t] \in Token
          /\ tokens'[t].login = tokens[t].login /\ tokens'[t].next = tokens[t].next
          /\ tokens'[t].state \in {"live", "expired"} => Open(t)
          /\ t \notin request[r].sweep => tokens'[t] = tokens[t]
    <2> TAKE t \in 1..Len(tokens)
    <2>1. CASE t \in request[r].sweep \cap Unrevoked
      <3>1. PICK x : x = [tokens[t] EXCEPT !.state = "recent"]
        OBVIOUS
      <3>2. x \in Token /\ x.login = tokens[t].login /\ x.next = tokens[t].next
        BY <1>1, <3>1 DEF Token
      <3>3. x.state = "recent"
        BY <1>1, <3>1 DEF Token
      <3> QED
        BY <1>3, <2>1, <3>1, <3>2, <3>3
    <2>2. CASE t \notin request[r].sweep \cap Unrevoked
      <3>1. tokens'[t] = tokens[t]
        BY <1>3, <2>2
      <3> QED
        BY <1>1, <3>1 DEF Open
    <2> QED
      BY <2>1, <2>2
  <1>5. tokens' \in Seq(Token) /\ Len(tokens') = Len(tokens)
    <2>1. tokens' \in [1..Len(tokens) -> Token]
      BY <1>1, <1>4 DEF RevokeAllForUser
    <2> QED
      BY <1>1, <2>1, Segment
  <1>6. \A q \in Requests : request'[q] = request[q] /\ request[q].pc = "rotate" =>
               tokens'[request[q].at].state \in {"live", "expired"}
    <2> TAKE q \in Requests
    <2> HAVE request'[q] = request[q] /\ request[q].pc = "rotate"
    <2>1. q # r
      BY <1>1, <1>2
    <2>2. \A t \in request[r].sweep : request[q].at # t
      BY <2>1, NotRotated DEF RevokeAllForUser, OnToken
    <2>3. request[q].at \in 1..Len(tokens) /\ Open(request[q].at)
      BY Typed DEF LocalInv, OnToken
    <2> QED
      BY <1>4, <2>2, <2>3 DEF Open
  <1> QED
    BY <1>1, <1>2, <1>4, <1>5, <1>6, RowsChange

LEMMA LogoutKeeps == ASSUME IInv, NEW r \in Requests, Logout(r) PROVE IInv'
  <1>1. PICK t \in 1..Len(tokens) :
            request' = [request EXCEPT ![r] = [Idle EXCEPT !.pc = "logout", !.at = t]]
    BY Typed, Domains DEF Logout, Unrevoked
  <1>2. PICK n : n = [Idle EXCEPT !.pc = "logout", !.at = t]
    OBVIOUS
  <1>3. Len(tokens) \in Nat /\ t \in Nat /\ 0 \in 0..MaxTokens /\ 0 \in 0..MaxHops
    BY Typed, Domains
  <1>4. n \in Local /\ n.pc = "logout" /\ n.at = t /\ n.sweep = {}
    BY <1>2, <1>3 DEF Idle, Local, Steps
  <1>5. LocalInv(n)
    BY <1>4 DEF LocalInv, OnToken
  <1>6. \A q \in Requests \ {r} : Apart(n, request[q]) /\ Apart(request[q], n)
    BY <1>4 DEF Apart, OnToken
  <1> QED
    BY <1>1, <1>2, <1>5, <1>6, MovesOn DEF Logout

LEMMA RevokeRefreshTokenKeeps ==
    ASSUME IInv, NEW r \in Requests, RevokeRefreshToken(r) PROVE IInv'
  <1>1. PICK t : t = request[r].at
    OBVIOUS
  <1>2. /\ Tables /\ t \in 1..Len(tokens) /\ request[r].pc = "logout"
        /\ DOMAIN tokens = 1..Len(tokens) /\ tokens[t] \in Token /\ 0 \in 0..MaxTokens
    BY <1>1, Typed, Domains DEF RevokeRefreshToken, At, LocalInv, OnToken
  <1>3. /\ TokenFree(r, t) /\ tokens' = Revoked(t)
        /\ UNCHANGED <<pins, challenges, logins, forked, crashes>>
    BY <1>1 DEF RevokeRefreshToken
  <1>4. /\ request'[r] = Idle /\ request' \in [Requests -> Local]
        /\ \A q \in Requests : q # r => request'[q] = request[q]
    BY Ended DEF RevokeRefreshToken
  <1>5. PICK x : x = [tokens[t] EXCEPT !.state = "recent"]
    OBVIOUS
  <1>6. /\ x \in Token /\ x.login = tokens[t].login /\ x.next = tokens[t].next
        /\ x.state = "recent"
    BY <1>2, <1>5 DEF Token
  <1>7. tokens' = [tokens EXCEPT ![t] = x]
    BY <1>2, <1>3, <1>5 DEF Revoked
  <1>8. Forks
    BY <1>2, <1>3 DEF Forks, Tables
  <1>9. \A q \in Requests : request'[q] = request[q] /\ request[q].pc = "rotate" =>
              request[q].at # t
    <2>1. \A q \in Requests \ {r} : request[q].pc = "rotate" => request[q].at # t
      BY <1>3, NotRotated DEF OnToken
    <2> QED
      BY <1>2, <2>1
  <1>10. \A q \in Requests : request'[q] = request[q] \/ request'[q] = Idle
    BY <1>4
  <1>11. UNCHANGED <<pins, challenges, logins, crashes>> /\ t \in 1..Len(tokens)
    BY <1>2, <1>3
  <1>12. x.state \in {"live", "expired"} => Open(t)
    BY <1>6
  <1>13. request' \in [Requests -> Local] /\ x \in Token
    BY <1>4, <1>6
  <1>14. x.login = tokens[t].login /\ x.next = tokens[t].next
    BY <1>6
  <1>15. \A q \in Requests : request'[q] = request[q] /\ request[q].pc = "rotate" =>
              request[q].at # t \/ x.state \in {"live", "expired"}
    BY <1>9
  <1> QED
    BY <1>7, <1>8, <1>10, <1>11, <1>12, <1>13, <1>14, <1>15, RowChanges

-----------------------------------------------------------------------------
(* Time and restarts                                                       *)

LEMMA GraceEndsKeeps ==
    ASSUME IInv, NEW t \in DOMAIN tokens, GraceEnds(t) PROVE IInv'
  <1>1. /\ Tables /\ t \in 1..Len(tokens) /\ tokens[t] \in Token
        /\ DOMAIN tokens = 1..Len(tokens) /\ tokens[t].state = "recent"
        /\ request \in [Requests -> Local]
        /\ UNCHANGED <<pins, challenges, logins, request, forked, crashes>>
        /\ Forks
    BY Domains DEF IInv, Tables, GraceEnds, Forks
  <1>2. PICK x : x = [tokens[t] EXCEPT !.state = "old"]
    OBVIOUS
  <1>3. /\ x \in Token /\ x.login = tokens[t].login /\ x.next = tokens[t].next
        /\ x.state = "old"
    BY <1>1, <1>2 DEF Token
  <1>4. tokens' = [tokens EXCEPT ![t] = x]
    BY <1>1, <1>2 DEF GraceEnds
  <1>5. \A q \in Requests : request[q].pc = "rotate" => request[q].at # t
    BY <1>1, Typed DEF LocalInv, Open
  <1> QED
    BY <1>1, <1>3, <1>4, <1>5, RowChanges

LEMMA ExpireKeeps == ASSUME IInv, NEW t \in DOMAIN tokens, Expire(t) PROVE IInv'
  <1>1. /\ Tables /\ t \in 1..Len(tokens) /\ tokens[t] \in Token
        /\ DOMAIN tokens = 1..Len(tokens) /\ tokens[t].state = "live"
        /\ request \in [Requests -> Local]
        /\ UNCHANGED <<pins, challenges, logins, request, forked, crashes>>
        /\ Forks
    BY Domains DEF IInv, Tables, Expire, Forks
  <1>2. PICK x : x = [tokens[t] EXCEPT !.state = "expired"]
    OBVIOUS
  <1>3. /\ x \in Token /\ x.login = tokens[t].login /\ x.next = tokens[t].next
        /\ x.state = "expired"
    BY <1>1, <1>2 DEF Token
  <1>4. tokens' = [tokens EXCEPT ![t] = x] /\ Open(t)
    BY <1>1, <1>2 DEF Expire, Open
  <1> QED
    BY <1>1, <1>3, <1>4, RowChanges

LEMMA PinExpiresKeeps == ASSUME IInv, NEW p \in DOMAIN pins, PinExpires(p) PROVE IInv'
  <1>1. /\ Tables /\ Len(pins) \in Nat /\ DOMAIN pins = 1..Len(pins)
        /\ UNCHANGED <<challenges, logins, tokens, request, forked, crashes>>
        /\ pins' = [pins EXCEPT ![p] = TRUE]
        /\ \A e \in 1..Len(pins) : pins[e] \in BOOLEAN
        /\ \A q \in Requests : p \notin HeldPin(q)
        /\ pins \in Seq(BOOLEAN)
    BY Domains DEF IInv, Tables, PinExpires
  <1>2. /\ pins' \in [1..Len(pins) -> BOOLEAN]
        /\ \A e \in 1..Len(pins) : pins'[e] = IF e = p THEN TRUE ELSE pins[e]
    <2>1. pins \in [1..Len(pins) -> BOOLEAN]
      BY <1>1
    <2> QED
      BY <1>1, <2>1
  <1>3. pins' \in Seq(BOOLEAN) /\ Len(pins') = Len(pins)
    BY <1>1, <1>2, Segment
  <1>4. Tables'
    <2>1. \A i \in 1..Len(logins) : logins[i] \in 1..Len(pins') /\ pins'[logins[i]]
      BY <1>1, <1>2, <1>3 DEF Tables
    <2> QED
      BY <1>1, <1>3, <2>1 DEF Tables
  <1>5. ChallengesKept
    BY <1>1, Domains DEF ChallengesKept
  <1>6. LocalInvs'
    <2> SUFFICES ASSUME NEW q \in Requests PROVE LocalInv(request[q])'
      BY DEF LocalInvs
    <2>1. LocalInv(request[q])
      BY Typed
    <2>2. request[q].pc = "sign" => ~pins'[challenges[request[q].at].pin]
      <3> SUFFICES ASSUME request[q].pc = "sign"
                   PROVE  ~pins'[challenges[request[q].at].pin]
        OBVIOUS
      <3>1. PICK d : d = challenges[request[q].at].pin
        OBVIOUS
      <3>2. d \in 1..Len(pins) /\ ~pins[d]
        BY <1>1, <2>1, <3>1 DEF LocalInv, Tables
      <3>3. d \in HeldPin(q)
        BY <3>1 DEF HeldPin, At
      <3>4. d # p
        BY <1>1, <3>3
      <3> QED
        BY <1>2, <3>1, <3>2, <3>4
    <2>3. request[q].pc = "issue" =>
            \A t \in 1..Len(tokens') : tokens'[t].login # request[q].at
      BY <1>1, <2>1 DEF LocalInv
    <2>4. request[q].pc = "rotate" =>
            tokens'[request[q].at].state \in {"live", "expired"}
      BY <1>1, <2>1 DEF LocalInv, Open
    <2>5. /\ Len(pins) <= Len(pins') /\ Len(logins) <= Len(logins')
          /\ Len(tokens) <= Len(tokens') /\ request'[q] = request[q]
      BY <1>1, <1>3, Domains
    <2> QED
      BY <1>4, <1>5, <2>2, <2>3, <2>4, <2>5, StillFits
  <1>7. Separate'
    BY <1>1, <1>5, StillSeparate
  <1>8. request' \in [Requests -> Local] /\ OneLoginPerPin' /\ ChainsConnected'
    BY <1>1 DEF IInv, OneLoginPerPin, ChainsConnected, Chain, Unrevoked
  <1> QED
    BY <1>4, <1>6, <1>7, <1>8 DEF IInv

(* The transactions under way are rolled back, and their locks are free.   *)
LEMMA CrashKeeps == ASSUME IInv, Crash PROVE IInv'
  <1>1. /\ Tables /\ UNCHANGED <<pins, challenges, logins, tokens, forked>>
        /\ \A q \in Requests : request'[q] = Idle
        /\ request' = [q \in Requests |-> Idle]
        /\ crashes' = crashes + 1 /\ crashes < MaxCrashes /\ MaxCrashes \in Nat
        /\ crashes \in 0..MaxCrashes
    BY Domains DEF IInv, Crash, Tables
  <1>2. crashes' \in 0..MaxCrashes
    BY <1>1
  <1>3. Tables'
    BY <1>1, <1>2 DEF Tables
  <1>4. /\ Idle \in Local /\ Idle.pc = "idle" /\ Idle.sweep = {}
    BY <1>1, IdleFits DEF Idle
  <1>5. LocalInvs' /\ request' \in [Requests -> Local]
    BY <1>1, <1>4 DEF LocalInvs, LocalInv, OnToken
  <1>6. Separate'
    BY <1>1, <1>4 DEF Separate, Apart, OnToken
  <1>7. OneLoginPerPin' /\ ChainsConnected'
    BY <1>1 DEF IInv, OneLoginPerPin, ChainsConnected, Chain, Unrevoked
  <1> QED
    BY <1>3, <1>5, <1>6, <1>7 DEF IInv

LEMMA StutterKeeps == ASSUME IInv, UNCHANGED vars PROVE IInv'
  <1>1. /\ UNCHANGED <<pins, challenges, logins, tokens, forked, crashes>>
        /\ UNCHANGED request
    BY DEF vars
  <1>2. Tables'
    BY <1>1 DEF IInv, Tables
  <1>3. request' \in [Requests -> Local] /\ LocalInvs' /\ Separate'
    BY <1>1 DEF IInv, LocalInvs, LocalInv, Open, Separate, Apart
  <1> QED
    BY <1>1, <1>2, <1>3, LoginsKept DEF IInv

LEMMA StepKeeps == ASSUME IInv, NEW r \in Requests, Step(r) PROVE IInv'
  <1>1. CASE CreatePin(r) \/ InvalidateChallenges(r) \/ CreateChallenge(r)
    BY <1>1, CreatePinKeeps, InvalidateChallengesKeeps, CreateChallengeKeeps
  <1>2. CASE LockPin(r) \/ CommitLogin(r) \/ IssueTokens(r)
    BY <1>2, LockPinKeeps, CommitLoginKeeps, IssueTokensKeeps
  <1>3. CASE CommitRotation(r) \/ FindLatestInChain(r) \/ Extend(r)
    BY <1>3, CommitRotationKeeps, FindLatestInChainKeeps, ExtendKeeps
  <1>4. CASE RevokeAllForUser(r) \/ RevokeRefreshToken(r)
    BY <1>4, RevokeAllForUserKeeps, RevokeRefreshTokenKeeps
  <1> QED
    BY <1>1, <1>2, <1>3, <1>4 DEF Step

LEMMA NextKeeps == IInv /\ [Next]_vars => IInv'
  <1> SUFFICES ASSUME IInv, [Next]_vars PROVE IInv'
    OBVIOUS
  <1>1. ASSUME NEW r \in Requests,
               \/ EmployeeVerifyPin(r) \/ CreateEmployeeChallenge(r) \/ VerifySignature(r)
               \/ RotateRefreshToken(r) \/ Logout(r) \/ Step(r)
        PROVE  IInv'
    BY <1>1, EmployeeVerifyPinKeeps, CreateEmployeeChallengeKeeps, VerifySignatureKeeps,
       RotateRefreshTokenKeeps, LogoutKeeps, StepKeeps
  <1>2. ASSUME NEW t \in DOMAIN tokens, GraceEnds(t) \/ Expire(t) PROVE IInv'
    BY <1>2, GraceEndsKeeps, ExpireKeeps
  <1>3. ASSUME NEW p \in DOMAIN pins, PinExpires(p) PROVE IInv'
    BY <1>3, PinExpiresKeeps
  <1>4. CASE Crash
    BY <1>4, CrashKeeps
  <1>5. CASE UNCHANGED vars
    BY <1>5, StutterKeeps
  <1> QED
    BY <1>1, <1>2, <1>3, <1>4, <1>5 DEF Next

-----------------------------------------------------------------------------
(* The theorems                                                            *)

LEMMA Inductive == Spec => []IInv
  BY InitiallyFine, NextKeeps, PTL DEF Spec

(***************************************************************************)
(* The rows that requests work on exist, the successor of a token is       *)
(* younger than it, and no two requests hold the same token, challenge or  *)
(* PIN session (rotateRefreshToken, verifyEmployeeSignature).              *)
(***************************************************************************)
THEOREM TypeCorrect == Spec => []TypeOK
  BY Inductive, InvariantTypes, PTL

(***************************************************************************)
(* A PIN session opens one login at most, however many challenges of it    *)
(* are open and whatever requests do at the same time                      *)
(* (verifyEmployeeSignature).                                              *)
(***************************************************************************)
THEOREM LoginsDiffer == Spec => []OneLoginPerPin
  <1>1. IInv => OneLoginPerPin
    BY DEF IInv
  <1> QED
    BY <1>1, Inductive, PTL

(***************************************************************************)
(* Each chain of refresh tokens has one end that all its tokens lead to,   *)
(* and only the end may be unrevoked (rotateRefreshToken,                  *)
(* resolveReplayWithinGrace, revokeRefreshToken), but for the logins where *)
(* a replay has written over a successor.                                  *)
(***************************************************************************)
THEOREM ChainsHold == Spec => []ChainsConnected
  <1>1. IInv => ChainsConnected
    BY DEF IInv
  <1> QED
    BY <1>1, Inductive, PTL
=============================================================================
