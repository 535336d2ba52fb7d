-------------------------------- MODULE Sessions --------------------------------
(***************************************************************************)
(* User accounts and refresh tokens (services/user_service.py,             *)
(* services/auth/token_service.py, api/routers/auth.py, users.py).         *)
(*                                                                         *)
(* A request is a READ COMMITTED transaction that get_db commits at its    *)
(* end.  Login and the two kinds of logout write what one statement finds, *)
(* so each is one step.  A rotation reads the old token without locking it *)
(* and commits later: other requests run in between, a second rotation of  *)
(* the same token among them.                                              *)
(***************************************************************************)
EXTENDS Integers, Sequences, FiniteSets

CONSTANTS
    Users,              \* users, each created and deleted at most once
    RotationRequests,   \* slots for rotations in flight
    TokenLife,          \* ticks a refresh token lives
    Second,             \* ticks in a second
    MaxTokens,          \* bound: tokens issued
    MaxClock            \* bound: ticks

ASSUME SessionsAssumption ==
    /\ 0 \notin RotationRequests
    /\ TokenLife \in Nat \ {0}
    /\ Second \in Nat \ {0}
    /\ MaxTokens \in Nat
    /\ MaxClock \in Nat

VARIABLES
    accounts,   \* for each user: "unborn", "here" or "gone"
    tokens,     \* the rows of refresh_tokens, in the order they were issued
    rotating,   \* for each slot: the token it has read, and the new expiry
    clock,
    overtaken,  \* history: logins with a rotation whose token was revoked under it
    ended       \* history: logins that a logout has ended

sessionVars == <<accounts, tokens, rotating, clock, overtaken, ended>>

Token == [user : Users, login : 1..MaxTokens, expires : Nat,
          state : {"live", "revoked", "deleted"}]

NoRotation == [token |-> 0, expires |-> 0]

(* login is the first token of the row's family; the table does not keep it *)
NewToken(u, login, expires) ==
    [user |-> u, login |-> login, expires |-> expires, state |-> "live"]

Live(t) == tokens[t].state = "live"
LiveOf(login) == {t \in DOMAIN tokens : Live(t) /\ tokens[t].login = login}

(* revoke the live ones of some tokens                                     *)
Revoked(S) ==
    [t \in DOMAIN tokens |->
        IF t \in S /\ Live(t) THEN [tokens[t] EXCEPT !.state = "revoked"] ELSE tokens[t]]

(* the logins of the tokens of S that a rotation other than q has read     *)
OvertakenBy(S, q) ==
    {tokens[t].login : t \in {u \in S : \E r \in RotationRequests \ {q} : rotating[r].token = u}}

-----------------------------------------------------------------------------

CreateUser(u) ==
    /\ accounts[u] = "unborn"
    /\ accounts' = [accounts EXCEPT ![u] = "here"]
    /\ UNCHANGED <<tokens, rotating, clock, overtaken, ended>>

(* the foreign key deletes the user's tokens                               *)
DeleteUser(u) ==
    /\ accounts[u] = "here"
    /\ accounts' = [accounts EXCEPT ![u] = "gone"]
    /\ tokens' = [t \in DOMAIN tokens |->
           IF tokens[t].user = u THEN [tokens[t] EXCEPT !.state = "deleted"] ELSE tokens[t]]
    /\ UNCHANGED <<rotating, clock, overtaken, ended>>

(* what login and a verified passkey do: the first token of a new family   *)
StartSession(u) ==
    /\ accounts[u] = "here"
    /\ Len(tokens) < MaxTokens
    /\ tokens' = Append(tokens, NewToken(u, Len(tokens) + 1, clock + TokenLife))
    /\ UNCHANGED <<accounts, rotating, clock, overtaken, ended>>

Login(u) == StartSession(u)

(* whole seconds, one at least: what is left of less than a second grows   *)
RemainingLife(t) ==
    LET seconds == (tokens[t].expires - clock) \div Second
    IN  Second * (IF seconds < 1 THEN 1 ELSE seconds)

RotateRead(q, t) ==
    /\ rotating[q] = NoRotation
    /\ Live(t)
    /\ ~(tokens[t].expires < clock)
    /\ rotating' = [rotating EXCEPT ![q] =
           [token |-> t, expires |-> clock + RemainingLife(t)]]
    /\ UNCHANGED <<accounts, tokens, clock, overtaken, ended>>

(* a mutated form of RotateCommit: the old token stays live                *)
RotateKeepsOld(q) ==
    LET t == rotating[q].token IN
    /\ t # 0
    /\ accounts[tokens[t].user] = "here"
    /\ Len(tokens) < MaxTokens
    /\ tokens' = Append(tokens,
                        NewToken(tokens[t].user, tokens[t].login, rotating[q].expires))
    /\ overtaken' = overtaken \cup OvertakenBy({t}, q)
    /\ rotating' = [rotating EXCEPT ![q] = NoRotation]
    /\ UNCHANGED <<accounts, clock, ended>>

(* The new row and the revocation of the old one, by id, are committed     *)
(* together; nothing looks at the old row again.                           *)
RotateCommit(q) ==
    LET t == rotating[q].token IN
    /\ t # 0
    /\ accounts[tokens[t].user] = "here"
    /\ Len(tokens) < MaxTokens
    /\ tokens' = Append(Revoked({t}),
                        NewToken(tokens[t].user, tokens[t].login, rotating[q].expires))
    /\ overtaken' = overtaken \cup OvertakenBy({t}, q)
    /\ rotating' = [rotating EXCEPT ![q] = NoRotation]
    /\ UNCHANGED <<accounts, clock, ended>>

(* 401 if the user is gone, and any failure: the transaction is rolled back *)
RotateAbort(q) ==
    /\ rotating[q] # NoRotation
    /\ rotating' = [rotating EXCEPT ![q] = NoRotation]
    /\ UNCHANGED <<accounts, tokens, clock, overtaken, ended>>

EndSessions(S) ==
    /\ S # {}
    /\ tokens' = Revoked(S)
    /\ overtaken' = overtaken \cup UNION {OvertakenBy({t}, 0) : t \in S}
    /\ ended' = ended \cup {tokens[t].login : t \in S}
    /\ UNCHANGED <<accounts, rotating, clock>>

Logout(t) == EndSessions({t} \cap {x \in DOMAIN tokens : Live(x)})

LogoutAll(u) == EndSessions({t \in DOMAIN tokens : tokens[t].user = u /\ Live(t)})

SessionTick ==
    /\ clock < MaxClock
    /\ clock' = clock + 1
    /\ UNCHANGED <<accounts, tokens, rotating, overtaken, ended>>

SessionInit ==
    /\ accounts = [u \in Users |-> "unborn"]
    /\ tokens = <<>>
    /\ rotating = [q \in RotationRequests |-> NoRotation]
    /\ clock = 0
    /\ overtaken = {}
    /\ ended = {}

(* everything but the deletion of a user, which Passkeys extends           *)
SessionStep ==
    \/ \E u \in Users : CreateUser(u) \/ Login(u) \/ LogoutAll(u)
    \/ \E t \in DOMAIN tokens :
          \/ Logout(t)
          \/ \E q \in RotationRequests : RotateRead(q, t)
    \/ \E q \in RotationRequests : RotateCommit(q) \/ RotateAbort(q)
    \/ SessionTick

SessionNext ==
    \/ SessionStep
    \/ \E u \in Users : DeleteUser(u)

SessionSpec == SessionInit /\ [][SessionNext]_sessionVars

-----------------------------------------------------------------------------

SessionTypeOK ==
    /\ accounts \in [Users -> {"unborn", "here", "gone"}]
    /\ tokens \in Seq(Token)
    /\ Len(tokens) <= MaxTokens
    /\ rotating \in [RotationRequests -> [token : 0..MaxTokens, expires : Nat]]
    /\ \A q \in RotationRequests : rotating[q].token <= Len(tokens)
    /\ clock \in 0..MaxClock
    /\ overtaken \subseteq 1..MaxTokens
    /\ ended \subseteq 1..MaxTokens

(* A login has one refresh token that can be used, however often it is     *)
(* rotated, and none after a logout: rotate_refresh_token replaces a token *)
(* ("Atomically rotate a refresh token": token_service.py:208), logout and *)
(* logout-all end the family.  The exception is a token revoked while a    *)
(* rotation that has read it is on its way: that rotation commits all the  *)
(* same.                                                                   *)
SessionsStaySingle ==
    \A t \in DOMAIN tokens :
        LET login == tokens[t].login IN
        login \notin overtaken =>
            Cardinality(LiveOf(login)) <= (IF login \in ended THEN 0 ELSE 1)
=============================================================================
