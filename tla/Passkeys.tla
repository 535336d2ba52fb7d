-------------------------------- MODULE Passkeys --------------------------------
(***************************************************************************)
(* WebAuthn challenges, credentials and trusted devices                    *)
(* (services/auth/webauthn_service.py, device_trust_service.py and their   *)
(* endpoints in api/routers/auth.py), on top of users and sessions.        *)
(*                                                                         *)
(* A verification finds its challenge (SELECT), marks it consumed (UPDATE, *)
(* which locks the row until the transaction ends), reads the credential,  *)
(* checks and writes its signature counter and checks the device.  What    *)
(* the client answers a challenge with, a new credential id or a signature *)
(* counter, comes with the request; the same answer may come twice.        *)
(***************************************************************************)
EXTENDS Sessions

CONSTANTS
    Credentials,        \* authenticators
    Counts,             \* signature counters in the answers
    Devices,            \* fingerprints
    PasskeyRequests,    \* slots for requests in flight
    ChallengeLife,      \* ticks a challenge can be used
    MaxChallenges       \* bound: challenges created

NoUser == "no user"
NoKey == "no credential"

ASSUME PasskeysAssumption ==
    /\ NoUser \notin Users
    /\ NoKey \notin Credentials
    /\ Counts \subseteq Nat
    /\ Devices # {}
    /\ ChallengeLife \in Nat
    /\ MaxChallenges \in Nat

VARIABLES
    challenges,     \* the rows of webauthn_challenges, in order
    credentials,    \* for each authenticator: the row of its credential
    trust,          \* the users' trusted devices, pairs <<user, device>>
    passkeyWork,    \* for each slot: what the request has read
    setBack         \* history: credentials whose stored counter went back

passkeyVars == <<challenges, credentials, trust, passkeyWork, setBack>>
accountVars == <<accounts, tokens, rotating, clock, overtaken, ended, challenges, credentials, trust, passkeyWork, setBack>>

(* credential and counter; a registration stores the counter 0             *)
Answer == Credentials \X Nat

(* answers and repeats are history: what the challenge was used with, and  *)
(* what it was used with once more                                         *)
Challenge == [user : Users, purpose : {"registration", "assertion"},
              credential : Credentials \cup {NoKey}, expires : Nat,
              answers : SUBSET Answer, repeats : SUBSET Answer]

NoCredential == [user |-> NoUser, enabled |-> FALSE, count |-> 0]
NoWork == [phase |-> "idle", challenge |-> 0, count |-> 0, device |-> CHOOSE d \in Devices : TRUE]

Consumed(c) == challenges[c].answers # {}

CreateChallenge(u, purpose, k) ==
    /\ accounts[u] = "here"
    /\ Len(challenges) < MaxChallenges
    /\ challenges' = Append(challenges,
           [user |-> u, purpose |-> purpose, credential |-> k,
            expires |-> clock + ChallengeLife, answers |-> {}, repeats |-> {}])
    /\ UNCHANGED <<credentials, trust, passkeyWork, setBack>>
    /\ UNCHANGED sessionVars

(* which credential it will be, the answer says                            *)
StartRegistration(u) == CreateChallenge(u, "registration", NoKey)

StartAssertion(u, k) == CreateChallenge(u, "assertion", k)

-----------------------------------------------------------------------------

Finish(q) == passkeyWork' = [passkeyWork EXCEPT ![q] = NoWork]

FindChallenge(q, c, d) ==
    /\ passkeyWork[q].phase = "idle"
    /\ ~Consumed(c)
    /\ ~(challenges[c].expires < clock)
    /\ passkeyWork' = [passkeyWork EXCEPT ![q] =
           [phase |-> "found", challenge |-> c, count |-> 0, device |-> d]]
    /\ UNCHANGED <<challenges, credentials, trust, setBack>>
    /\ UNCHANGED sessionVars

(* a mutated form of RowIsFree: consuming a challenge locks nothing        *)
NoRowLock(q) == q \in PasskeyRequests

(* the UPDATE waits for the transaction that holds the row                 *)
RowIsFree(q) ==
    \A r \in PasskeyRequests \ {q} :
        passkeyWork[r].phase = "checked" =>
            passkeyWork[r].challenge # passkeyWork[q].challenge

UseChallenge(c, answer) ==
    challenges' = [challenges EXCEPT
        ![c].answers = @ \cup {answer},
        ![c].repeats = @ \cup (challenges[c].answers \cap {answer})]

(* The credential and the trust in the device are stored with the use of   *)
(* the challenge; a credential id is stored once.                          *)
FinishRegistration(q, k) ==
    LET c == passkeyWork[q].challenge
        u == challenges[c].user
    IN
    /\ passkeyWork[q].phase = "found"
    /\ challenges[c].purpose = "registration"
    /\ RowIsFree(q)
    /\ accounts[u] = "here"
    /\ credentials[k] = NoCredential
    /\ UseChallenge(c, <<k, 0>>)
    /\ credentials' = [credentials EXCEPT ![k] = [user |-> u, enabled |-> TRUE, count |-> 0]]
    /\ trust' = trust \cup {<<u, passkeyWork[q].device>>}
    /\ Finish(q)
    /\ UNCHANGED setBack
    /\ UNCHANGED sessionVars

CounterMoves(k, count) == credentials[k].count > 0 => count > credentials[k].count

(* The challenge's row is locked from here on.  The credential is the      *)
(* challenge's, the counter that of the answer.                            *)
CheckCredential(q, count) ==
    LET c == passkeyWork[q].challenge
        k == challenges[c].credential
    IN
    /\ passkeyWork[q].phase = "found"
    /\ challenges[c].purpose = "assertion"
    /\ RowIsFree(q)
    /\ credentials[k].user = challenges[c].user
    /\ credentials[k].enabled
    /\ CounterMoves(k, count)
    /\ passkeyWork' = [passkeyWork EXCEPT ![q].phase = "checked", ![q].count = count]
    /\ UNCHANGED <<challenges, credentials, trust, setBack>>
    /\ UNCHANGED sessionVars

VerifyAssertion(q) ==
    LET c == passkeyWork[q].challenge
        u == challenges[c].user
        k == challenges[c].credential
        count == passkeyWork[q].count
    IN
    /\ passkeyWork[q].phase = "checked"
    /\ <<u, passkeyWork[q].device>> \in trust
    /\ UseChallenge(c, <<k, count>>)
    /\ credentials' = [credentials EXCEPT ![k].count = count]
    /\ setBack' = setBack \cup (IF count < credentials[k].count THEN {k} ELSE {})
    /\ StartSession(u)
    /\ Finish(q)
    /\ UNCHANGED trust

(* A refusal at any point (a spurious address or device: 403, a counter    *)
(* that does not move, a row that is gone) rolls everything back, the use  *)
(* of the challenge too.                                                   *)
Refuse(q) ==
    /\ passkeyWork[q].phase # "idle"
    /\ Finish(q)
    /\ UNCHANGED <<challenges, credentials, trust, setBack>>
    /\ UNCHANGED sessionVars

DisableCredential(k) ==
    /\ credentials[k].enabled
    /\ credentials' = [credentials EXCEPT ![k].enabled = FALSE]
    /\ UNCHANGED <<challenges, trust, passkeyWork, setBack>>
    /\ UNCHANGED sessionVars

Distrust(pairs) ==
    /\ pairs \cap trust # {}
    /\ trust' = trust \ pairs
    /\ UNCHANGED <<challenges, credentials, passkeyWork, setBack>>
    /\ UNCHANGED sessionVars

(* the user's challenges, credentials and devices go with the user         *)
RemoveUser(u) ==
    /\ DeleteUser(u)
    /\ credentials' = [k \in Credentials |->
           IF credentials[k].user = u THEN NoCredential ELSE credentials[k]]
    /\ trust' = {p \in trust : p[1] # u}
    /\ UNCHANGED <<challenges, passkeyWork, setBack>>

PasskeyInit ==
    /\ SessionInit
    /\ challenges = <<>>
    /\ credentials = [k \in Credentials |-> NoCredential]
    /\ trust = {}
    /\ passkeyWork = [q \in PasskeyRequests |-> NoWork]
    /\ setBack = {}

PasskeyNext ==
    \/ SessionStep /\ UNCHANGED passkeyVars
    \/ \E u \in Users :
          \/ RemoveUser(u)
          \/ StartRegistration(u)
          \/ \E k \in Credentials : StartAssertion(u, k)
          \/ \E d \in Devices : Distrust({<<u, d>>})
          \/ Distrust({u} \X Devices)
    \/ \E q \in PasskeyRequests :
          \/ \E c \in DOMAIN challenges, d \in Devices : FindChallenge(q, c, d)
          \/ \E k \in Credentials : FinishRegistration(q, k)
          \/ \E count \in Counts : CheckCredential(q, count)
          \/ VerifyAssertion(q)
          \/ Refuse(q)
    \/ \E k \in Credentials : DisableCredential(k)

PasskeySpec == PasskeyInit /\ [][PasskeyNext]_accountVars

-----------------------------------------------------------------------------

PasskeyTypeOK ==
    /\ challenges \in Seq(Challenge)
    /\ Len(challenges) <= MaxChallenges
    /\ credentials \in [Credentials ->
           [user : Users \cup {NoUser}, enabled : BOOLEAN, count : Nat]]
    /\ trust \subseteq Users \X Devices
    /\ passkeyWork \in [PasskeyRequests ->
           [phase : {"idle", "found", "checked"}, challenge : 0..MaxChallenges,
            count : Nat, device : Devices]]
    /\ setBack \subseteq Credentials

(* An answer is accepted once, although it may be submitted twice and both *)
(* requests may find the challenge unused: each waits for the row of the   *)
(* challenge and reads the credential only then, so that it meets the      *)
(* counter the one before has written; and a credential id is stored once. *)
(* Two cases are not covered: a counter that stays 0, and one that an      *)
(* overlapping verification of another challenge has set back.  Nor are    *)
(* two different answers to one challenge: see ChallengeIsNotReused.       *)
AnswerIsUsedOnce ==
    \A c \in DOMAIN challenges : \A answer \in challenges[c].repeats :
        /\ challenges[c].purpose = "assertion"
        /\ answer[2] = 0 \/ answer[1] \in setBack

(* "Consume challenge from DB (validates existence, TTL, not reused)"      *)
(* (webauthn_service.py:252), and "Returns None if challenge is [...]      *)
(* already consumed" (:126): no challenge is used twice.                   *)
ChallengeIsNotReused ==
    \A c \in DOMAIN challenges :
        Cardinality(challenges[c].answers) <= 1 /\ challenges[c].repeats = {}
=============================================================================
