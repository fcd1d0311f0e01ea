------------------------------- MODULE Sessions -------------------------------
(***************************************************************************)
(* The sessions of one employee: the login with password, challenge and    *)
(* signature (challengeAuthService) and the refresh tokens with their      *)
(* rotation, the answer to a repeated request, logout and the end of all   *)
(* sessions (tokenService).  Several requests may be under way.            *)
(***************************************************************************)
EXTENDS Naturals, Sequences, FiniteSets

CONSTANTS
    Requests,     \* requests under way at one time
    MaxTokens,    \* bound on refresh tokens
    MaxPins,      \* bound on PIN sessions
    MaxAsked,     \* bound on challenges
    MaxHops,      \* MAX_HOPS of findLatestInChain
    MaxCrashes    \* bound on restarts

ASSUME SessionsAssumption ==
    /\ IsFiniteSet(Requests)
    /\ {MaxTokens, MaxPins, MaxAsked, MaxHops, MaxCrashes} \subseteq Nat
    /\ MaxHops > 1

VARIABLES
    pins,       \* auth_pin_sessions: used (or expired) or not
    challenges, \* auth_challenges: their PIN session, used or not
    logins,     \* history: the PIN sessions of the logins, in their order
    tokens,     \* refresh_tokens: state, replaced_by_id, and their login
    request,
    forked,     \* history: the logins where a replay has replaced a replaced token
    crashes

vars == <<pins, challenges, logins, tokens, request, forked, crashes>>

\* A token revoked within the last 60 seconds is "recent", before that "old".
Token == [state : {"live", "expired", "recent", "old"}, next : 0..MaxTokens,
          login : Nat]

Steps == {"idle", "newpin", "ask", "create", "pin", "sign", "issue", "rotate",
          "replay", "extend", "sweep", "logout"}

\* at: the row the request works on.  latest: how far it has followed the
\* chain, after hops of it.  sweep: what an UPDATE of all tokens has found.
Local == [pc: Steps, at: Nat, latest: 0..MaxTokens, hops: 0..MaxHops,
          sweep: SUBSET (1..MaxTokens)]

Idle == [pc |-> "idle", at |-> 0, latest |-> 0, hops |-> 0, sweep |-> {}]

At(r, pcs) == request[r].pc \in pcs

\* The rows that a request's database transaction has locked.
HeldToken(r) == IF At(r, {"rotate", "replay", "extend", "sweep"}) THEN {request[r].at} ELSE {}
HeldChallenge(r) == IF At(r, {"pin", "sign"}) THEN {request[r].at} ELSE {}
HeldPin(r) == IF At(r, {"sign"}) THEN {challenges[request[r].at].pin} ELSE {}

TypeOK ==
    /\ pins \in Seq(BOOLEAN) /\ Len(pins) <= MaxPins
    /\ challenges \in Seq([pin : DOMAIN pins, used : BOOLEAN])
    /\ Len(challenges) <= MaxAsked
    /\ logins \in Seq(DOMAIN pins)
    /\ tokens \in Seq(Token) /\ Len(tokens) <= MaxTokens
    /\ \A t \in DOMAIN tokens :
         /\ tokens[t].login \in DOMAIN logins
         /\ tokens[t].next # 0 => tokens[t].next \in (t + 1)..Len(tokens)
    /\ request \in [Requests -> Local]
    /\ \A r \in Requests :
         /\ At(r, {"ask", "create"}) => request[r].at \in DOMAIN pins
         /\ At(r, {"pin", "sign"}) => request[r].at \in DOMAIN challenges
         /\ At(r, {"issue"}) => request[r].at \in DOMAIN logins
         /\ At(r, {"rotate", "replay", "extend", "sweep", "logout"}) =>
              request[r].at \in DOMAIN tokens
         /\ At(r, {"replay", "extend"}) => request[r].latest \in DOMAIN tokens
         /\ request[r].sweep \subseteq DOMAIN tokens
    /\ \A r, q \in Requests : r # q =>
         /\ HeldToken(r) \cap HeldToken(q) = {}
         /\ HeldChallenge(r) \cap HeldChallenge(q) = {}
         /\ HeldPin(r) \cap HeldPin(q) = {}
    /\ forked \subseteq DOMAIN logins
    /\ crashes \in 0..MaxCrashes

Init ==
    /\ pins = <<>>
    /\ challenges = <<>>
    /\ logins = <<>>
    /\ tokens = <<>>
    /\ request = [r \in Requests |-> Idle]
    /\ forked = {}
    /\ crashes = 0

TokenFree(r, t) == \A q \in Requests \ {r} : t \notin HeldToken(q)
ChallengeFree(r, c) == \A q \in Requests \ {r} : c \notin HeldChallenge(q)
PinFree(r, p) == \A q \in Requests \ {r} : p \notin HeldPin(q)

Goes(r, pc) == request' = [request EXCEPT ![r].pc = pc]
Ends(r) == request' = [request EXCEPT ![r] = Idle]

-----------------------------------------------------------------------------
(* Login                                                                   *)

\* employeeVerifyPin with the right password: the sessions before are void.
EmployeeVerifyPin(r) ==
    /\ At(r, {"idle"})
    /\ Len(pins) < MaxPins
    /\ \A p \in DOMAIN pins : pins[p] \/ PinFree(r, p)
    /\ pins' = [p \in DOMAIN pins |-> TRUE]
    /\ Goes(r, "newpin")
    /\ UNCHANGED <<challenges, logins, tokens, forked, crashes>>

CreatePin(r) ==
    /\ At(r, {"newpin"})
    /\ IF Len(pins) < MaxPins THEN pins' = Append(pins, FALSE) ELSE UNCHANGED pins
    /\ Ends(r)
    /\ UNCHANGED <<challenges, logins, tokens, forked, crashes>>

\* createEmployeeChallenge reads the PIN session without locking it.
CreateEmployeeChallenge(r) ==
    /\ At(r, {"idle"})
    /\ Len(challenges) < MaxAsked
    /\ \E p \in DOMAIN pins :
         /\ ~pins[p]
         /\ request' = [request EXCEPT ![r] = [Idle EXCEPT !.pc = "ask", !.at = p]]
    /\ UNCHANGED <<pins, challenges, logins, tokens, forked, crashes>>

InvalidateChallenges(r) ==
    LET open == {c \in DOMAIN challenges :
                    challenges[c].pin = request[r].at /\ ~challenges[c].used}
    IN /\ At(r, {"ask"})
       /\ \A c \in open : ChallengeFree(r, c)
       /\ challenges' = [c \in DOMAIN challenges |->
             [challenges[c] EXCEPT !.used = @ \/ c \in open]]
       /\ Goes(r, "create")
       /\ UNCHANGED <<pins, logins, tokens, forked, crashes>>

CreateChallenge(r) ==
    /\ At(r, {"create"})
    /\ challenges' = IF Len(challenges) < MaxAsked
                     THEN Append(challenges, [pin |-> request[r].at, used |-> FALSE])
                     ELSE challenges
    /\ Ends(r)
    /\ UNCHANGED <<pins, logins, tokens, forked, crashes>>

\* verifyEmployeeSignature: the challenge is locked, then its PIN session.
VerifySignature(r) ==
    /\ At(r, {"idle"})
    /\ \E c \in DOMAIN challenges :
         /\ ChallengeFree(r, c)
         /\ ~challenges[c].used
         /\ request' = [request EXCEPT ![r] = [Idle EXCEPT !.pc = "pin", !.at = c]]
    /\ UNCHANGED <<pins, challenges, logins, tokens, forked, crashes>>

\* Mutant: the challenge's own check is relied on.
LockPinUnchecked(r) ==
    /\ At(r, {"pin"})
    /\ PinFree(r, challenges[request[r].at].pin)
    /\ Goes(r, "sign")
    /\ UNCHANGED <<pins, challenges, logins, tokens, forked, crashes>>

LockPin(r) ==
    LET p == challenges[request[r].at].pin IN
    /\ At(r, {"pin"})
    /\ PinFree(r, p)
    /\ IF pins[p] THEN Ends(r) ELSE Goes(r, "sign")
    /\ UNCHANGED <<pins, challenges, logins, tokens, forked, crashes>>

\* A wrong signature or an inactive key or user rolls back.
CommitLogin(r) ==
    LET c == request[r].at IN
    /\ At(r, {"sign"})
    /\ \/ /\ challenges' = [challenges EXCEPT ![c].used = TRUE]
          /\ pins' = [pins EXCEPT ![challenges[c].pin] = TRUE]
          /\ logins' = Append(logins, challenges[c].pin)
          /\ request' = [request EXCEPT ![r] =
                [Idle EXCEPT !.pc = "issue", !.at = Len(logins) + 1]]
       \/ Ends(r) /\ UNCHANGED <<challenges, pins, logins>>
    /\ UNCHANGED <<tokens, forked, crashes>>

Fresh(login) == [state |-> "live", next |-> 0, login |-> login]

\* issueTokens, after the commit.
IssueTokens(r) ==
    /\ At(r, {"issue"})
    /\ tokens' = IF Len(tokens) < MaxTokens
                 THEN Append(tokens, Fresh(request[r].at)) ELSE tokens
    /\ Ends(r)
    /\ UNCHANGED <<pins, challenges, logins, forked, crashes>>

-----------------------------------------------------------------------------
(* Refresh tokens                                                          *)

\* Rows with revoked_at NULL, as the UPDATE of revokeAllForUser finds them.
Unrevoked == {t \in DOMAIN tokens : tokens[t].state \in {"live", "expired"}}

Sweeping(r, t) == [request EXCEPT ![r] =
    [Idle EXCEPT !.pc = "sweep", !.at = t, !.sweep = Unrevoked]]

\* revoke without a successor writes revoked_at only: in the copy that was
\* read replaced_by_id is null already, and only changed columns are saved.
Revoked(t) == [tokens EXCEPT ![t].state = "recent"]

\* What rotateRefreshToken does with the row that it has locked.
Examine(r, t) ==
    \/ /\ tokens[t].state = "live"
       /\ request' = [request EXCEPT ![r] = [Idle EXCEPT !.pc = "rotate", !.at = t]]
       /\ UNCHANGED tokens
    \/ /\ tokens[t].state = "expired"
       /\ tokens' = Revoked(t)
       /\ UNCHANGED request
    \/ /\ tokens[t].state = "recent" /\ tokens[t].next # 0
       /\ request' = [request EXCEPT ![r] =
              [Idle EXCEPT !.pc = "replay", !.at = t, !.latest = tokens[t].next, !.hops = 1]]
       /\ UNCHANGED tokens
    \/ /\ \/ tokens[t].state = "old"
          \/ tokens[t].state = "recent" /\ tokens[t].next = 0
       /\ request' = Sweeping(r, t)
       /\ UNCHANGED tokens

\* Mutant: the row is read without a lock.
RotateUnlocked(r) ==
    /\ At(r, {"idle"})
    /\ \E t \in DOMAIN tokens : Examine(r, t)
    /\ UNCHANGED <<pins, challenges, logins, forked, crashes>>

RotateRefreshToken(r) ==
    /\ At(r, {"idle"})
    /\ \E t \in DOMAIN tokens : TokenFree(r, t) /\ Examine(r, t)
    /\ UNCHANGED <<pins, challenges, logins, forked, crashes>>

\* The new row and the revocation of the old one are committed together.
Replace(r, t) ==
    IF Len(tokens) < MaxTokens
    THEN tokens' = Append([Revoked(t) EXCEPT ![t].next = Len(tokens) + 1],
                          Fresh(tokens[t].login))
    ELSE UNCHANGED tokens

CommitRotation(r) ==
    /\ At(r, {"rotate"})
    /\ Replace(r, request[r].at)
    /\ Ends(r)
    /\ UNCHANGED <<pins, challenges, logins, forked, crashes>>

\* findLatestInChain: one hop, whose row is read without a lock.  It sees the
\* end of a chain within MAX_HOPS - 1 hops.
FindLatestInChain(r) ==
    LET t == request[r].latest IN
    /\ At(r, {"replay"})
    /\ \/ /\ tokens[t].next = 0 /\ tokens[t].state = "live"
          /\ Goes(r, "extend")
       \/ /\ tokens[t].next # 0 /\ request[r].hops + 1 < MaxHops
          /\ request' = [request EXCEPT ![r].latest = tokens[t].next,
                                        ![r].hops = request[r].hops + 1]
       \/ /\ IF tokens[t].next = 0 THEN tokens[t].state # "live"
                                   ELSE request[r].hops + 1 >= MaxHops
          /\ request' = Sweeping(r, request[r].at)
    /\ UNCHANGED <<pins, challenges, logins, tokens, forked, crashes>>

\* Mutant: the token that was presented is replaced again.
ExtendPresented(r) ==
    /\ At(r, {"extend"})
    /\ Replace(r, request[r].at)
    /\ Ends(r)
    /\ UNCHANGED <<pins, challenges, logins, forked, crashes>>

\* resolveReplayWithinGrace: the end of the chain is replaced, whatever has
\* become of it since it was read.
Extend(r) ==
    LET t == request[r].latest IN
    /\ At(r, {"extend"})
    /\ TokenFree(r, t)
    /\ Replace(r, t)
    /\ forked' = IF tokens[t].next # 0 THEN forked \cup {tokens[t].login} ELSE forked
    /\ Ends(r)
    /\ UNCHANGED <<pins, challenges, logins, crashes>>

\* revokeAllForUser: the UPDATE waits for the rows it has found, and skips
\* those that are revoked by then.
RevokeAllForUser(r) ==
    /\ At(r, {"sweep"})
    /\ \A t \in request[r].sweep : TokenFree(r, t)
    /\ tokens' = [t \in DOMAIN tokens |->
          IF t \in request[r].sweep \cap Unrevoked
          THEN [tokens[t] EXCEPT !.state = "recent"] ELSE tokens[t]]
    /\ Ends(r)
    /\ UNCHANGED <<pins, challenges, logins, forked, crashes>>

\* revokeRefreshToken, the logout: read without a lock, then written.  A token
\* rotated meanwhile keeps its successor, and its period of grace begins anew.
Logout(r) ==
    /\ At(r, {"idle"})
    /\ \E t \in Unrevoked :
         request' = [request EXCEPT ![r] = [Idle EXCEPT !.pc = "logout", !.at = t]]
    /\ UNCHANGED <<pins, challenges, logins, tokens, forked, crashes>>

RevokeRefreshToken(r) ==
    LET t == request[r].at IN
    /\ At(r, {"logout"})
    /\ TokenFree(r, t)
    /\ tokens' = Revoked(t)
    /\ Ends(r)
    /\ UNCHANGED <<pins, challenges, logins, forked, crashes>>

-----------------------------------------------------------------------------
(* Time and restarts                                                       *)

\* The period of grace of a revoked token ends.
GraceEnds(t) ==
    /\ tokens[t].state = "recent"
    /\ tokens' = [tokens EXCEPT ![t].state = "old"]
    /\ UNCHANGED <<pins, challenges, logins, request, forked, crashes>>

Expire(t) ==
    /\ tokens[t].state = "live"
    /\ tokens' = [tokens EXCEPT ![t].state = "expired"]
    /\ UNCHANGED <<pins, challenges, logins, request, forked, crashes>>

PinExpires(p) ==
    /\ ~pins[p] /\ \A q \in Requests : p \notin HeldPin(q)
    /\ pins' = [pins EXCEPT ![p] = TRUE]
    /\ UNCHANGED <<challenges, logins, tokens, request, forked, crashes>>

Crash ==
    /\ crashes < MaxCrashes
    /\ crashes' = crashes + 1
    /\ request' = [r \in Requests |-> Idle]
    /\ UNCHANGED <<pins, challenges, logins, tokens, forked>>

Step(r) ==
    \/ CreatePin(r) \/ InvalidateChallenges(r) \/ CreateChallenge(r)
    \/ LockPin(r) \/ CommitLogin(r) \/ IssueTokens(r)
    \/ CommitRotation(r) \/ FindLatestInChain(r) \/ Extend(r)
    \/ RevokeAllForUser(r) \/ RevokeRefreshToken(r)

Next ==
    \/ \E r \in Requests :
         \/ EmployeeVerifyPin(r) \/ CreateEmployeeChallenge(r) \/ VerifySignature(r)
         \/ RotateRefreshToken(r) \/ Logout(r) \/ Step(r)
    \/ \E t \in DOMAIN tokens : GraceEnds(t) \/ Expire(t)
    \/ \E p \in DOMAIN pins : PinExpires(p)
    \/ Crash

Spec == Init /\ [][Next]_vars

-----------------------------------------------------------------------------
(* Properties                                                              *)

(***************************************************************************)
(* A PIN session opens one login at most, although several challenges of   *)
(* it may be open: the old ones are voided and the new one is created by   *)
(* statements that two requests can interleave (createEmployeeChallenge).  *)
(***************************************************************************)
OneLoginPerPin ==
    \A i, j \in DOMAIN logins : logins[i] = logins[j] => i = j

Chain(l) == {t \in DOMAIN tokens : tokens[t].login = l}

(***************************************************************************)
(* Whatever token of a login a client still has, the successors, each      *)
(* younger than the one before, lead to the one end of the chain, and only *)
(* the end is not revoked (resolveReplayWithinGrace), over rotations at    *)
(* the same time, answers that were lost, logouts and the end of all       *)
(* sessions.  Only a login where a replay has written over a successor is  *)
(* not meant: see OneTokenLive.                                            *)
(***************************************************************************)
ChainsConnected ==
    \A l \in DOMAIN logins \ forked : Chain(l) # {} =>
        \E end \in Chain(l) :
            /\ tokens[end].next = 0
            /\ \A t \in Chain(l) \ {end} :
                 tokens[t].next \in Chain(l) /\ t \notin Unrevoked

(***************************************************************************)
(* The claim of the comment in resolveReplayWithinGrace that the chain     *)
(* stays connected and one token of it is live.  It fails: the end of the  *)
(* chain is read without a lock and may be rotated before it is replaced.  *)
(***************************************************************************)
OneTokenLive ==
    \A l \in DOMAIN logins :
        Cardinality({t \in Chain(l) : tokens[t].state = "live"}) <= 1
=============================================================================
