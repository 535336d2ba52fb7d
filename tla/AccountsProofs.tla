----------------------------- MODULE AccountsProofs -----------------------------
(***************************************************************************)
(* Theorems about Sessions and Passkeys: for any users, authenticators,    *)
(* requests in flight and lifetimes, a login has one usable refresh token  *)
(* at most, and the same answer to a challenge is accepted once, but for   *)
(* the two cases AnswerIsUsedOnce names.                                   *)
(***************************************************************************)
EXTENDS Passkeys, FiniteSetTheorems, SequenceTheorems, TLAPS

Row == [user : Users, login : Nat, expires : Int, state : {"live", "revoked", "deleted"}]

Typed ==
    /\ accounts \in [Users -> {"unborn", "here", "gone"}]
    /\ tokens \in Seq(Row)
    /\ rotating \in [RotationRequests -> [token : Nat, expires : Int]]
    /\ clock \in Nat

(* A family is named by its first token; a row is deleted with its user.   *)
Known ==
    /\ \A t \in DOMAIN tokens :
          /\ tokens[t].login \in 1..t
          /\ tokens[t].state = "deleted" => accounts[tokens[t].user] = "gone"
    /\ ended \cup overtaken \subseteq DOMAIN tokens

Single ==
    \A t \in DOMAIN tokens : Live(t) /\ tokens[t].login \notin overtaken =>
        /\ tokens[t].login \notin ended
        /\ \A u \in DOMAIN tokens : Live(u) /\ tokens[u].login = tokens[t].login => u = t

(* Unless it was overtaken, the token a rotation has read is not revoked.  *)
Current ==
    \A q \in RotationRequests :
        LET t == rotating[q].token IN
        t # 0 => /\ t \in DOMAIN tokens
                 /\ tokens[t].login \notin overtaken => tokens[t].state # "revoked"

SInv == Typed /\ Known /\ Single /\ Current

-----------------------------------------------------------------------------

LEMMA TokenRows ==
  ASSUME SInv
  PROVE  /\ tokens \in Seq(Row) /\ Len(tokens) \in Nat /\ DOMAIN tokens = 1..Len(tokens)
         /\ \A t \in DOMAIN tokens : tokens[t] \in Row
BY DEF SInv, Typed

(* Revoking or deleting tokens touches nothing but their state.            *)
LEMMA StatesOnly ==
  ASSUME SInv, NEW s \in [DOMAIN tokens -> Row]
  PROVE  s \in Seq(Row) /\ Len(s) = Len(tokens) /\ DOMAIN s = DOMAIN tokens
<1>1. s \in [1..Len(tokens) -> Row] /\ Len(tokens) \in Nat
  BY TokenRows
<1>2. s \in Seq(Row)
  BY <1>1, SeqDef
<1> QED BY <1>1, <1>2

LEMMA RevokedRows ==
  ASSUME SInv, NEW S
  PROVE  /\ Revoked(S) \in Seq(Row) /\ Len(Revoked(S)) = Len(tokens)
         /\ DOMAIN Revoked(S) = DOMAIN tokens
         /\ \A t \in DOMAIN tokens :
               /\ Revoked(S)[t].user = tokens[t].user
               /\ Revoked(S)[t].login = tokens[t].login
               /\ Revoked(S)[t].state =
                     IF t \in S /\ Live(t) THEN "revoked" ELSE tokens[t].state
<1>1. \A t \in DOMAIN tokens : [tokens[t] EXCEPT !.state = "revoked"] \in Row
  BY TokenRows DEF Row
<1>2. Revoked(S) \in [DOMAIN tokens -> Row]
  BY <1>1, TokenRows DEF Revoked
<1>3. Revoked(S) \in Seq(Row) /\ Len(Revoked(S)) = Len(tokens)
      /\ DOMAIN Revoked(S) = DOMAIN tokens
  BY <1>2, StatesOnly
<1>4. ASSUME NEW t \in DOMAIN tokens
      PROVE  /\ Revoked(S)[t].user = tokens[t].user
             /\ Revoked(S)[t].login = tokens[t].login
             /\ Revoked(S)[t].state =
                   IF t \in S /\ Live(t) THEN "revoked" ELSE tokens[t].state
  BY TokenRows DEF Revoked, Row
<1> QED BY <1>3, <1>4

LEMMA InitSInv == SessionInit => SInv
<1> SUFFICES ASSUME SessionInit
             PROVE  SInv
  OBVIOUS
<1>1. tokens \in Seq(Row) /\ DOMAIN tokens = {}
  BY EmptySeq DEF SessionInit
<1>2. Typed
  BY <1>1 DEF SessionInit, Typed, NoRotation
<1> QED BY <1>1, <1>2 DEF SInv, Known, Single, Current, SessionInit, NoRotation

(* Nothing depends on the clock, or on a user who is not gone.             *)
LEMMA QuietStep ==
  ASSUME SInv, UNCHANGED <<tokens, rotating, overtaken, ended>>, clock' \in Nat,
         accounts' \in [Users -> {"unborn", "here", "gone"}],
         \A u \in Users : accounts[u] = "gone" => accounts'[u] = "gone"
  PROVE  SInv'
<1>1. Typed'
  BY DEF SInv, Typed
<1>2. Known'
  BY TokenRows DEF SInv, Known, Row
<1>3. Single' /\ Current'
  BY DEF SInv, Single, Current, Live
<1> QED BY <1>1, <1>2, <1>3 DEF SInv

LEMMA CreateUserStep ==
  ASSUME SInv, NEW u \in Users, CreateUser(u)
  PROVE  SInv'
BY QuietStep DEF CreateUser, SInv, Typed

LEMMA TickStep ==
  ASSUME SInv, SessionTick
  PROVE  SInv'
BY QuietStep DEF SessionTick, SInv, Typed

LEMMA DeleteUserStep ==
  ASSUME SInv, NEW u \in Users, DeleteUser(u)
  PROVE  SInv'
<1>1. \A t \in DOMAIN tokens : [tokens[t] EXCEPT !.state = "deleted"] \in Row
  BY TokenRows DEF Row
<1>2. tokens' \in [DOMAIN tokens -> Row]
  BY <1>1, TokenRows DEF DeleteUser
<1>3. tokens' \in Seq(Row) /\ DOMAIN tokens' = DOMAIN tokens
  BY <1>2, StatesOnly
<1>4. \A t \in DOMAIN tokens :
          /\ tokens'[t].user = tokens[t].user /\ tokens'[t].login = tokens[t].login
          /\ tokens'[t].state = IF tokens[t].user = u THEN "deleted" ELSE tokens[t].state
          /\ tokens[t].user \in Users
  BY TokenRows DEF DeleteUser, Row
<1>5. accounts' = [accounts EXCEPT ![u] = "gone"]
      /\ UNCHANGED <<rotating, clock, overtaken, ended>>
  BY DEF DeleteUser
<1>6. Typed'
  BY <1>3, <1>5 DEF SInv, Typed
<1>7. Known'
  BY <1>3, <1>4, <1>5 DEF SInv, Typed, Known
<1>8. Single'
  BY <1>3, <1>4, <1>5 DEF SInv, Single, Live
<1>9. Current'
  BY <1>3, <1>4, <1>5 DEF SInv, Current
<1> QED BY <1>6, <1>7, <1>8, <1>9 DEF SInv

LEMMA LoginStep ==
  ASSUME SInv, NEW u \in Users, Login(u)
  PROVE  SInv'
<1> DEFINE n == Len(tokens) + 1
           new == NewToken(u, n, clock + TokenLife)
<1>1. new \in Row /\ new.login = n /\ new.state = "live" /\ n \in Nat
  BY TokenRows, SessionsAssumption DEF NewToken, Row, SInv, Typed
<1>2. tokens' = Append(tokens, new) /\ UNCHANGED <<accounts, rotating, clock, overtaken, ended>>
  BY DEF Login, StartSession
<1> HIDE DEF new
<1>3. /\ tokens' \in Seq(Row) /\ DOMAIN tokens' = DOMAIN tokens \cup {n} /\ n \notin DOMAIN tokens
      /\ tokens'[n] = new /\ \A t \in DOMAIN tokens : tokens'[t] = tokens[t]
  BY <1>1, <1>2, TokenRows
<1>4. Typed'
  BY <1>2, <1>3 DEF SInv, Typed
<1>5. Known'
  BY <1>1, <1>2, <1>3 DEF SInv, Known
<1>6. n \notin ended \cup overtaken /\ \A t \in DOMAIN tokens : tokens[t].login # n
  <2>1. \A t \in DOMAIN tokens : t \in Nat /\ t < n
    BY TokenRows
  <2> QED BY <2>1 DEF SInv, Known
<1> HIDE DEF n
<1>7. Single'
  BY <1>1, <1>2, <1>3, <1>6 DEF SInv, Single, Live
<1>8. Current'
  BY <1>2, <1>3 DEF SInv, Current
<1> QED BY <1>4, <1>5, <1>7, <1>8 DEF SInv

LEMMA LifeIsANumber ==
  ASSUME SInv, NEW t \in DOMAIN tokens
  PROVE  clock + RemainingLife(t) \in Int
<1>1. tokens[t].expires - clock \in Int
  BY TokenRows DEF SInv, Typed, Row
<1> DEFINE seconds == (tokens[t].expires - clock) \div Second
<1>2. seconds \in Int
  BY <1>1, SessionsAssumption
<1> DEFINE whole == IF seconds < 1 THEN 1 ELSE seconds
<1>3. whole \in Int
  BY <1>2
<1>4. RemainingLife(t) = Second * whole
  BY DEF RemainingLife
<1> HIDE DEF whole
<1>5. Second * whole \in Int
  BY <1>3, SessionsAssumption
<1> QED BY <1>4, <1>5 DEF SInv, Typed

LEMMA RotateReadStep ==
  ASSUME SInv, NEW t \in DOMAIN tokens, NEW q \in RotationRequests, RotateRead(q, t)
  PROVE  SInv'
<1> DEFINE read == [token |-> t, expires |-> clock + RemainingLife(t)]
<1>1. read \in [token : Nat, expires : Int] /\ read.token = t
  BY LifeIsANumber, TokenRows
<1>2. rotating' = [rotating EXCEPT ![q] = read]
      /\ UNCHANGED <<accounts, tokens, clock, overtaken, ended>> /\ Live(t)
  BY DEF RotateRead
<1> HIDE DEF read
<1>3. Typed'
  BY <1>1, <1>2 DEF SInv, Typed
<1>4. Known' /\ Single'
  BY <1>2 DEF SInv, Known, Single, Live
<1>5. Current'
  BY <1>1, <1>2 DEF SInv, Typed, Current, Live
<1> QED BY <1>3, <1>4, <1>5 DEF SInv

LEMMA RotateAbortStep ==
  ASSUME SInv, NEW q \in RotationRequests, RotateAbort(q)
  PROVE  SInv'
<1>1. rotating' = [rotating EXCEPT ![q] = NoRotation]
      /\ UNCHANGED <<accounts, tokens, clock, overtaken, ended>>
  BY DEF RotateAbort
<1>2. Typed'
  BY <1>1 DEF SInv, Typed, NoRotation
<1>3. Known' /\ Single'
  BY <1>1 DEF SInv, Known, Single, Live
<1>4. Current'
  BY <1>1 DEF SInv, Typed, Current, NoRotation
<1> QED BY <1>2, <1>3, <1>4 DEF SInv

(* The old token is revoked with the new one issued; another rotation that *)
(* has read it makes the login an overtaken one.                           *)
LEMMA RotateCommitStep ==
  ASSUME SInv, NEW q \in RotationRequests, RotateCommit(q)
  PROVE  SInv'
<1> DEFINE t == rotating[q].token
           n == Len(tokens) + 1
           new == NewToken(tokens[t].user, tokens[t].login, rotating[q].expires)
           old == Revoked({t})
<1>1. /\ t \in DOMAIN tokens /\ tokens[t] \in Row /\ accounts[tokens[t].user] = "here"
      /\ tokens[t].login \notin overtaken => Live(t)
  <2>1. t # 0
    BY DEF RotateCommit
  <2>2. t \in DOMAIN tokens /\ (tokens[t].login \notin overtaken => tokens[t].state # "revoked")
    BY <2>1 DEF SInv, Current
  <2>3. tokens[t] \in Row /\ accounts[tokens[t].user] = "here"
    BY <2>2, TokenRows DEF RotateCommit
  <2> QED BY <2>2, <2>3 DEF SInv, Known, Live, Row
<1>2. /\ new \in Row /\ new.login = tokens[t].login /\ new.state = "live"
      /\ new.user = tokens[t].user
  BY <1>1 DEF NewToken, Row, SInv, Typed
<1>3. /\ tokens' = Append(old, new)
      /\ overtaken' = overtaken \cup OvertakenBy({t}, q)
      /\ rotating' = [rotating EXCEPT ![q] = NoRotation]
      /\ UNCHANGED <<accounts, clock, ended>>
  BY DEF RotateCommit
<1>4. /\ old \in Seq(Row) /\ Len(old) = Len(tokens) /\ DOMAIN old = DOMAIN tokens
      /\ \A u \in DOMAIN tokens :
            /\ old[u].user = tokens[u].user /\ old[u].login = tokens[u].login
            /\ old[u].state = IF u \in {t} /\ Live(u) THEN "revoked" ELSE tokens[u].state
  BY RevokedRows
<1> HIDE DEF new, old
<1>5. /\ tokens' \in Seq(Row) /\ DOMAIN tokens' = DOMAIN tokens \cup {n} /\ n \notin DOMAIN tokens
      /\ tokens'[n] = new /\ \A u \in DOMAIN tokens : tokens'[u] = old[u]
      /\ n \in Nat /\ \A u \in DOMAIN tokens : u \in Nat /\ u < n
  BY <1>2, <1>3, <1>4, TokenRows
<1>6. \A r \in RotationRequests \ {q} :
          rotating[r].token = t => tokens[t].login \in overtaken'
  BY <1>3 DEF OvertakenBy
<1>7. overtaken' \subseteq overtaken \cup {tokens[t].login}
  BY <1>3 DEF OvertakenBy
<1>8. tokens[t].login \in 1..t /\ tokens[t].login \in DOMAIN tokens
  <2>1. tokens[t].login \in 1..t
    BY <1>1 DEF SInv, Known
  <2> QED BY <1>1, <2>1, TokenRows
<1>9. tokens'[n].login \in 1..n
  BY <1>1, <1>2, <1>5, <1>8
<1> HIDE DEF n
<1>10. Typed'
  BY <1>3, <1>5 DEF SInv, Typed, NoRotation
<1>11. Known'
  <2>1. ASSUME NEW u \in DOMAIN tokens'
        PROVE  /\ tokens'[u].login \in 1..u
               /\ tokens'[u].state = "deleted" => accounts[tokens'[u].user] = "gone"
    <3>1. CASE u = n
      BY <1>2, <1>5, <1>9, <3>1
    <3>2. CASE u \in DOMAIN tokens
      BY <1>4, <1>5, <3>2 DEF SInv, Known
    <3> QED BY <1>5, <3>1, <3>2
  <2>2. ended \cup overtaken' \subseteq DOMAIN tokens'
    BY <1>5, <1>7, <1>8 DEF SInv, Known
  <2> QED BY <1>3, <2>1, <2>2 DEF Known
<1>12. Single'
  <2> SUFFICES ASSUME NEW u \in DOMAIN tokens', tokens'[u].state = "live",
                      tokens'[u].login \notin overtaken'
               PROVE  /\ tokens'[u].login \notin ended
                      /\ \A v \in DOMAIN tokens' :
                            tokens'[v].state = "live" /\ tokens'[v].login = tokens'[u].login => v = u
    BY <1>3 DEF Single, Live
  <2>1. tokens'[u].login \notin overtaken
    BY <1>3
  <2>2. CASE tokens'[u].login = tokens[t].login
    <3>1. Live(t) /\ tokens[t].login \notin ended
      BY <1>1, <2>1, <2>2 DEF SInv, Single
    <3>2. ASSUME NEW v \in DOMAIN tokens, tokens'[v].login = tokens[t].login
          PROVE  tokens'[v].state # "live"
      <4>1. Live(v) => v = t
        BY <1>1, <1>4, <1>5, <2>1, <2>2, <3>1, <3>2 DEF SInv, Single
      <4> QED BY <1>4, <1>5, <3>1, <4>1 DEF Live
    <3>3. u = n
      BY <1>5, <2>2, <3>2
    <3> QED BY <1>5, <2>2, <3>1, <3>2, <3>3
  <2>3. CASE tokens'[u].login # tokens[t].login
    <3>1. u \in DOMAIN tokens
      BY <1>2, <1>5, <2>3
    <3>2. Live(u) /\ tokens[u].login = tokens'[u].login
      BY <1>4, <1>5, <3>1 DEF Live
    <3>3. ASSUME NEW v \in DOMAIN tokens', tokens'[v].state = "live",
                 tokens'[v].login = tokens'[u].login
          PROVE  v \in DOMAIN tokens /\ Live(v) /\ tokens[v].login = tokens[u].login
      BY <1>2, <1>4, <1>5, <2>3, <3>2, <3>3 DEF Live
    <3> QED BY <2>1, <3>1, <3>2, <3>3 DEF SInv, Single
  <2> QED BY <2>2, <2>3
<1>13. Current'
  <2> SUFFICES ASSUME NEW r \in RotationRequests, rotating'[r].token # 0
               PROVE  /\ rotating'[r].token \in DOMAIN tokens'
                      /\ tokens'[rotating'[r].token].login \notin overtaken' =>
                            tokens'[rotating'[r].token].state # "revoked"
    BY DEF Current
  <2>1. r # q /\ rotating'[r] = rotating[r]
    BY <1>3 DEF SInv, Typed, NoRotation
  <2> DEFINE u == rotating[r].token
  <2>2. u \in DOMAIN tokens /\ (tokens[u].login \notin overtaken => tokens[u].state # "revoked")
    BY <2>1 DEF SInv, Current
  <2>3. overtaken \subseteq overtaken'
    BY <1>3
  <2> QED BY <1>4, <1>5, <1>6, <2>1, <2>2, <2>3
<1> QED BY <1>10, <1>11, <1>12, <1>13 DEF SInv

(* A logout revokes the live tokens of S; the rotations under way that     *)
(* have read one of them are overtaken.                                    *)
LEMMA EndSessionsStep ==
  ASSUME SInv, NEW S \in SUBSET DOMAIN tokens, \A t \in S : Live(t), EndSessions(S)
  PROVE  SInv'
<1>1. /\ tokens' = Revoked(S)
      /\ overtaken' = overtaken \cup UNION {OvertakenBy({t}, 0) : t \in S}
      /\ ended' = ended \cup {tokens[t].login : t \in S}
      /\ UNCHANGED <<accounts, rotating, clock>>
  BY DEF EndSessions
<1>2. /\ tokens' \in Seq(Row) /\ DOMAIN tokens' = DOMAIN tokens
      /\ \A u \in DOMAIN tokens :
            /\ tokens'[u].user = tokens[u].user /\ tokens'[u].login = tokens[u].login
            /\ tokens'[u].state = IF u \in S THEN "revoked" ELSE tokens[u].state
  BY <1>1, RevokedRows
<1>3. ASSUME NEW r \in RotationRequests, rotating[r].token \in S
      PROVE  tokens[rotating[r].token].login \in overtaken'
  <2> DEFINE t == rotating[r].token
  <2>1. r \in RotationRequests \ {0}
    BY SessionsAssumption
  <2>2. tokens[t].login \in OvertakenBy({t}, 0)
    BY <2>1 DEF OvertakenBy
  <2> QED BY <1>1, <1>3, <2>2
<1>4. overtaken' \cup ended' \subseteq DOMAIN tokens
  <2>1. \A t \in DOMAIN tokens : tokens[t].login \in DOMAIN tokens
    BY TokenRows DEF SInv, Known
  <2>2. \A t \in S : OvertakenBy({t}, 0) \subseteq DOMAIN tokens
    BY <2>1 DEF OvertakenBy
  <2>3. UNION {OvertakenBy({t}, 0) : t \in S} \subseteq DOMAIN tokens
    BY <2>2
  <2>4. {tokens[t].login : t \in S} \subseteq DOMAIN tokens
    BY <2>1
  <2> QED BY <1>1, <2>3, <2>4 DEF SInv, Known
<1>5. Typed'
  BY <1>1, <1>2 DEF SInv, Typed
<1>6. Known'
  BY <1>1, <1>2, <1>4 DEF SInv, Known
<1>7. Single'
  <2> SUFFICES ASSUME NEW u \in DOMAIN tokens, tokens'[u].state = "live",
                      tokens[u].login \notin overtaken'
               PROVE  /\ tokens[u].login \notin ended'
                      /\ \A v \in DOMAIN tokens :
                            tokens'[v].state = "live" /\ tokens[v].login = tokens[u].login => v = u
    BY <1>2 DEF Single, Live
  <2>1. Live(u) /\ u \notin S /\ tokens[u].login \notin overtaken
    BY <1>1, <1>2 DEF Live
  <2>2. /\ tokens[u].login \notin ended
        /\ \A v \in DOMAIN tokens : Live(v) /\ tokens[v].login = tokens[u].login => v = u
    BY <2>1 DEF SInv, Single
  <2>3. \A t \in S : tokens[t].login # tokens[u].login
    BY <2>1, <2>2
  <2> QED BY <1>1, <1>2, <2>2, <2>3 DEF Live
<1>8. Current'
  BY <1>1, <1>2, <1>3 DEF SInv, Current
<1> QED BY <1>5, <1>6, <1>7, <1>8 DEF SInv

LEMMA StepSInv == SInv /\ [SessionNext]_sessionVars => SInv'
<1> SUFFICES ASSUME SInv, [SessionNext]_sessionVars
             PROVE  SInv'
  OBVIOUS
<1>1. CASE UNCHANGED sessionVars
  BY <1>1, QuietStep DEF sessionVars, SInv, Typed
<1>2. ASSUME NEW u \in Users, LogoutAll(u)
      PROVE  SInv'
  BY <1>2, EndSessionsStep DEF LogoutAll
<1>3. ASSUME NEW t \in DOMAIN tokens, Logout(t)
      PROVE  SInv'
  BY <1>3, EndSessionsStep DEF Logout
<1>4. CASE SessionStep
  BY <1>2, <1>3, <1>4, CreateUserStep, LoginStep, RotateReadStep, RotateCommitStep,
     RotateAbortStep, TickStep
  DEF SessionStep
<1>5. CASE \E u \in Users : DeleteUser(u)
  BY <1>5, DeleteUserStep
<1> QED BY <1>1, <1>4, <1>5 DEF SessionNext

LEMMA SInvIsSingle == SInv => SessionsStaySingle
<1> SUFFICES ASSUME SInv, NEW t \in DOMAIN tokens, tokens[t].login \notin overtaken
             PROVE  Cardinality(LiveOf(tokens[t].login)) <=
                        (IF tokens[t].login \in ended THEN 0 ELSE 1)
  BY DEF SessionsStaySingle
<1> DEFINE L == LiveOf(tokens[t].login)
<1>1. CASE L = {}
  BY <1>1, FS_EmptySet
<1>2. CASE L # {}
  <2>1. PICK u \in L : TRUE
    BY <1>2
  <2>2. u \in DOMAIN tokens /\ Live(u) /\ tokens[u].login = tokens[t].login
    BY <2>1 DEF LiveOf
  <2>3. L = {u} /\ tokens[t].login \notin ended
    BY <2>2 DEF LiveOf, SInv, Single
  <2>4. Cardinality(L) = 1
    BY <2>3, FS_Singleton
  <2> QED BY <2>3, <2>4
<1> QED BY <1>1, <1>2

(* A login has one refresh token that can be used, however often it is     *)
(* rotated, and none after a logout, except a login with a rotation whose  *)
(* token was revoked under it (rotate_refresh_token, revoke_all).          *)
THEOREM SessionsAlwaysSingle == SessionSpec => []SessionsStaySingle
BY InitSInv, StepSInv, SInvIsSingle, PTL DEF SessionSpec

-----------------------------------------------------------------------------
(* Challenges.                                                             *)

ChallengeOf(q) == passkeyWork[q].challenge
OwnerOf(c) == challenges[c].user
KeyOf(c) == challenges[c].credential
AnswersOf(c) == challenges[c].answers
RepeatsOf(c) == challenges[c].repeats

WorkTyped ==
    /\ challenges \in Seq(Challenge)
    /\ credentials \in [Credentials ->
           [user : Users \cup {NoUser}, enabled : BOOLEAN, count : Nat]]
    /\ passkeyWork \in [PasskeyRequests ->
           [phase : {"idle", "found", "checked"}, challenge : Nat, count : Nat,
            device : Devices \cup {NoWork.device}]]

(* A user's challenges were created while the user was here.               *)
Issued ==
    \A c \in DOMAIN challenges :
        /\ accounts[OwnerOf(c)] # "unborn"
        /\ challenges[c].purpose = "assertion" => KeyOf(c) \in Credentials

(* A counter is past those the answers A have left.                        *)
Past(count, k, A) ==
    k \notin setBack => \A answer \in A : answer[2] = 0 \/ answer[2] < count

(* At most one request is past the row lock of a challenge, and its        *)
(* counter past those the challenge was used with.                         *)
Checked ==
    \A q \in PasskeyRequests :
        /\ passkeyWork[q].phase # "idle" => ChallengeOf(q) \in DOMAIN challenges
        /\ passkeyWork[q].phase = "checked" =>
              /\ challenges[ChallengeOf(q)].purpose = "assertion"
              /\ \A r \in PasskeyRequests \ {q} :
                    passkeyWork[r].phase = "checked" => ChallengeOf(r) # ChallengeOf(q)
              /\ accounts[OwnerOf(ChallengeOf(q))] = "here" =>
                    /\ credentials[KeyOf(ChallengeOf(q))].user = OwnerOf(ChallengeOf(q))
                    /\ Past(passkeyWork[q].count, KeyOf(ChallengeOf(q)), AnswersOf(ChallengeOf(q)))

(* While the user is here, an answer that was accepted has left its mark   *)
(* in the row of its credential.                                           *)
Mark(c, answer) ==
    /\ credentials[answer[1]].user = OwnerOf(c)
    /\ challenges[c].purpose = "assertion" =>
          /\ answer[1] = KeyOf(c)
          /\ answer[1] \notin setBack => answer[2] <= credentials[answer[1]].count

Marked ==
    \A c \in DOMAIN challenges : accounts[OwnerOf(c)] = "here" =>
        \A answer \in AnswersOf(c) : Mark(c, answer)

PInv == SInv /\ WorkTyped /\ Issued /\ Checked /\ Marked /\ AnswerIsUsedOnce

LEMMA ChallengeRows ==
  ASSUME PInv
  PROVE  /\ challenges \in Seq(Challenge) /\ Len(challenges) \in Nat
         /\ DOMAIN challenges = 1..Len(challenges)
         /\ \A c \in DOMAIN challenges : challenges[c] \in Challenge
BY DEF PInv, WorkTyped

LEMMA InitPInv == PasskeyInit => PInv
<1> SUFFICES ASSUME PasskeyInit
             PROVE  PInv
  OBVIOUS
<1>1. SInv
  BY InitSInv DEF PasskeyInit
<1>2. challenges \in Seq(Challenge) /\ DOMAIN challenges = {}
  BY EmptySeq DEF PasskeyInit
<1>3. WorkTyped
  BY <1>2 DEF PasskeyInit, WorkTyped, NoCredential, NoWork
<1>4. Issued /\ Checked /\ Marked /\ AnswerIsUsedOnce
  BY <1>2 DEF PasskeyInit, Issued, Checked, Marked, AnswerIsUsedOnce, NoWork
<1> QED BY <1>1, <1>3, <1>4 DEF PInv

(* What the sessions do to users: only one who was never here comes.       *)
LEMMA AccountsOnly ==
  ASSUME SInv, SessionStep \/ UNCHANGED sessionVars
  PROVE  \A u \in Users : accounts[u] # "unborn" => accounts'[u] = accounts[u]
<1>1. ASSUME NEW u \in Users, CreateUser(u)
      PROVE  \A v \in Users : accounts[v] # "unborn" => accounts'[v] = accounts[v]
  BY <1>1 DEF CreateUser, SInv, Typed
<1>2. ASSUME SessionStep, ~ \E u \in Users : CreateUser(u)
      PROVE  UNCHANGED accounts
  BY <1>2 DEF SessionStep, Login, StartSession, LogoutAll, Logout, EndSessions, RotateRead,
              RotateCommit, RotateAbort, SessionTick
<1> QED BY <1>1, <1>2 DEF sessionVars

(* Nothing of the passkeys changes but what a request has read.            *)
LEMMA ReadingStep ==
  ASSUME PInv, SInv', UNCHANGED <<challenges, credentials, setBack>>,
         \A u \in Users : accounts[u] # "unborn" => accounts'[u] = accounts[u],
         WorkTyped', Checked'
  PROVE  PInv'
<1>1. \A c \in DOMAIN challenges : OwnerOf(c) \in Users
  BY ChallengeRows DEF Challenge, OwnerOf
<1>2. Issued' /\ Marked' /\ AnswerIsUsedOnce'
  BY <1>1 DEF PInv, Issued, Marked, Mark, AnswerIsUsedOnce, OwnerOf, KeyOf, AnswersOf
<1> QED BY <1>2 DEF PInv

LEMMA SessionsQuiet ==
  ASSUME PInv, SessionStep \/ UNCHANGED sessionVars, UNCHANGED passkeyVars
  PROVE  PInv'
<1>1. SInv'
  BY StepSInv DEF PInv, SessionNext
<1>2. \A u \in Users : accounts[u] # "unborn" => accounts'[u] = accounts[u]
  BY AccountsOnly DEF PInv
<1>3. \A c \in DOMAIN challenges : OwnerOf(c) \in Users /\ accounts[OwnerOf(c)] # "unborn"
  BY ChallengeRows DEF Challenge, OwnerOf, PInv, Issued
<1>4. UNCHANGED <<challenges, credentials, setBack, passkeyWork>>
  BY DEF passkeyVars
<1>5. WorkTyped'
  BY <1>4 DEF PInv, WorkTyped, NoWork
<1>6. Checked'
  BY <1>2, <1>3, <1>4 DEF PInv, Checked, ChallengeOf, OwnerOf, KeyOf, AnswersOf, Past
<1> QED BY <1>1, <1>2, <1>4, <1>5, <1>6, ReadingStep

LEMMA CreateChallengeStep ==
  ASSUME PInv, NEW u \in Users, NEW k \in Credentials \cup {NoKey},
         NEW purpose \in {"registration", "assertion"},
         purpose = "assertion" => k \in Credentials,
         CreateChallenge(u, purpose, k)
  PROVE  PInv'
<1> DEFINE n == Len(challenges) + 1
           new == [user |-> u, purpose |-> purpose, credential |-> k,
                   expires |-> clock + ChallengeLife, answers |-> {}, repeats |-> {}]
<1>1. new \in Challenge
  BY PasskeysAssumption DEF Challenge, PInv, SInv, Typed
<1>2. /\ new.user = u /\ new.purpose = purpose /\ new.credential = k
      /\ new.answers = {} /\ new.repeats = {}
  OBVIOUS
<1>3. /\ challenges' = Append(challenges, new) /\ accounts[u] = "here"
      /\ UNCHANGED <<credentials, trust, passkeyWork, setBack>> /\ UNCHANGED sessionVars
  BY DEF CreateChallenge
<1> HIDE DEF new
<1>4. /\ challenges' \in Seq(Challenge) /\ DOMAIN challenges' = DOMAIN challenges \cup {n}
      /\ n \notin DOMAIN challenges /\ challenges'[n] = new
      /\ \A c \in DOMAIN challenges : challenges'[c] = challenges[c]
  BY <1>1, <1>3, ChallengeRows
<1> HIDE DEF n
<1>5. SInv' /\ UNCHANGED accounts
  BY <1>3, StepSInv DEF PInv, sessionVars
<1>6. WorkTyped'
  BY <1>3, <1>4 DEF PInv, WorkTyped, NoWork
<1>7. Issued'
  BY <1>2, <1>3, <1>4, <1>5 DEF PInv, Issued, OwnerOf, KeyOf
<1>8. Checked'
  BY <1>3, <1>4, <1>5 DEF PInv, Checked, ChallengeOf, OwnerOf, KeyOf, AnswersOf, Past
<1>9. Marked' /\ AnswerIsUsedOnce'
  BY <1>2, <1>3, <1>4, <1>5 DEF PInv, Marked, Mark, AnswerIsUsedOnce, OwnerOf, KeyOf, AnswersOf
<1> QED BY <1>5, <1>6, <1>7, <1>8, <1>9 DEF PInv

LEMMA StartRegistrationStep ==
  ASSUME PInv, NEW u \in Users, StartRegistration(u)
  PROVE  PInv'
BY CreateChallengeStep DEF StartRegistration

LEMMA StartAssertionStep ==
  ASSUME PInv, NEW u \in Users, NEW k \in Credentials, StartAssertion(u, k)
  PROVE  PInv'
BY CreateChallengeStep DEF StartAssertion

LEMMA Quiet ==
  ASSUME PInv, UNCHANGED sessionVars
  PROVE  SInv' /\ UNCHANGED accounts
BY StepSInv DEF PInv, sessionVars

LEMMA FindChallengeStep ==
  ASSUME PInv, NEW q \in PasskeyRequests, NEW c \in DOMAIN challenges, NEW d \in Devices,
         FindChallenge(q, c, d)
  PROVE  PInv'
<1>1. UNCHANGED <<challenges, credentials, setBack>> /\ UNCHANGED sessionVars
  BY DEF FindChallenge
<1>2. /\ passkeyWork[q].phase = "idle"
      /\ passkeyWork' = [passkeyWork EXCEPT ![q] = [phase |-> "found", challenge |-> c, count |-> 0, device |-> d]]
  BY DEF FindChallenge
<1>3. c \in Nat
  BY ChallengeRows
<1>4. WorkTyped'
  BY <1>1, <1>2, <1>3 DEF PInv, WorkTyped, NoWork
<1>5. \A r \in PasskeyRequests \ {q} : passkeyWork'[r] = passkeyWork[r]
  BY <1>2 DEF PInv, WorkTyped
<1>6. passkeyWork'[q].phase = "found" /\ ChallengeOf(q)' = c
  BY <1>2 DEF PInv, WorkTyped, ChallengeOf
<1>7. Checked'
  BY <1>1, <1>5, <1>6, Quiet DEF PInv, Checked, ChallengeOf, OwnerOf, KeyOf, AnswersOf, Past
<1> QED BY <1>1, <1>4, <1>7, Quiet, ReadingStep

LEMMA RefuseStep ==
  ASSUME PInv, NEW q \in PasskeyRequests, Refuse(q)
  PROVE  PInv'
<1>1. UNCHANGED <<challenges, credentials, setBack>> /\ UNCHANGED sessionVars
      /\ passkeyWork' = [passkeyWork EXCEPT ![q] = NoWork]
  BY DEF Refuse, Finish
<1>2. WorkTyped'
  BY <1>1 DEF PInv, WorkTyped, NoWork
<1>3. /\ \A r \in PasskeyRequests \ {q} : passkeyWork'[r] = passkeyWork[r]
      /\ passkeyWork'[q].phase = "idle"
  BY <1>1 DEF PInv, WorkTyped, NoWork
<1>4. Checked'
  BY <1>1, <1>3, Quiet DEF PInv, Checked, ChallengeOf, OwnerOf, KeyOf, AnswersOf, Past
<1> QED BY <1>1, <1>2, <1>4, Quiet, ReadingStep

(* An answer that was accepted has left its counter, which the check is    *)
(* past.                                                                   *)
LEMMA CheckCredentialStep ==
  ASSUME PInv, NEW q \in PasskeyRequests, NEW count \in Counts, CheckCredential(q, count)
  PROVE  PInv'
<1> DEFINE c == ChallengeOf(q)
           k == KeyOf(c)
<1>1. UNCHANGED <<challenges, credentials, setBack>> /\ UNCHANGED sessionVars
      /\ passkeyWork' = [passkeyWork EXCEPT ![q].phase = "checked", ![q].count = count]
  BY DEF CheckCredential
<1>2. count \in Nat
  BY PasskeysAssumption
<1>3. WorkTyped'
  <2> DEFINE old == passkeyWork[q]
             new == [old EXCEPT !.phase = "checked", !.count = count]
             row == [phase : {"idle", "found", "checked"}, challenge : Nat, count : Nat,
                     device : Devices \cup {NoWork.device}]
  <2>1. old \in row
    BY DEF PInv, WorkTyped
  <2>2. passkeyWork' = [passkeyWork EXCEPT ![q] = new]
    BY <1>1
  <2> HIDE DEF old
  <2>3. new \in row
    BY <1>2, <2>1
  <2> HIDE DEF new
  <2>4. passkeyWork' \in [PasskeyRequests -> row]
    BY <2>2, <2>3 DEF PInv, WorkTyped
  <2> QED BY <1>1, <2>4 DEF PInv, WorkTyped, NoWork
<1>4. /\ \A r \in PasskeyRequests \ {q} : passkeyWork'[r] = passkeyWork[r]
      /\ passkeyWork'[q].phase = "checked" /\ ChallengeOf(q)' = c /\ passkeyWork'[q].count = count
  BY <1>1 DEF PInv, WorkTyped, ChallengeOf
<1>5. /\ c \in DOMAIN challenges /\ challenges[c].purpose = "assertion"
      /\ credentials[k].user = OwnerOf(c)
      /\ \A r \in PasskeyRequests \ {q} : passkeyWork[r].phase = "checked" => ChallengeOf(r) # c
      /\ CounterMoves(k, count)
  BY DEF CheckCredential, ChallengeOf, KeyOf, OwnerOf, RowIsFree, PInv, Checked
<1>6. challenges[c] \in Challenge /\ k \in Credentials
  BY <1>5, ChallengeRows DEF PInv, Issued
<1>7. ASSUME accounts[OwnerOf(c)] = "here"
      PROVE  Past(count, k, AnswersOf(c))
  <2> SUFFICES ASSUME k \notin setBack, NEW answer \in AnswersOf(c), answer[2] # 0
               PROVE  answer[2] < count
    BY DEF Past
  <2>1. answer[2] \in Nat
    BY <1>6 DEF Challenge, Answer, AnswersOf
  <2>2. answer[2] <= credentials[k].count
    BY <1>5, <1>7 DEF PInv, Marked, Mark
  <2>3. credentials[k].count \in Nat
    BY <1>6 DEF PInv, WorkTyped
  <2> QED BY <1>2, <1>5, <2>1, <2>2, <2>3 DEF CounterMoves
<1> HIDE DEF c, k
<1>8. Checked'
  <2> SUFFICES ASSUME NEW r \in PasskeyRequests
               PROVE  /\ passkeyWork'[r].phase # "idle" => ChallengeOf(r)' \in DOMAIN challenges
                      /\ passkeyWork'[r].phase = "checked" =>
                            /\ challenges[ChallengeOf(r)'].purpose = "assertion"
                            /\ \A p \in PasskeyRequests \ {r} :
                                  passkeyWork'[p].phase = "checked" => ChallengeOf(p)' # ChallengeOf(r)'
                            /\ accounts[OwnerOf(ChallengeOf(r)')] = "here" =>
                                  /\ credentials[KeyOf(ChallengeOf(r)')].user = OwnerOf(ChallengeOf(r)')
                                  /\ Past(passkeyWork'[r].count, KeyOf(ChallengeOf(r)'),
                                          AnswersOf(ChallengeOf(r)'))
    BY <1>1, Quiet DEF Checked, ChallengeOf, OwnerOf, KeyOf, AnswersOf, Past
  <2>1. \A p \in PasskeyRequests \ {q} : ChallengeOf(p)' = ChallengeOf(p)
    BY <1>4 DEF ChallengeOf
  <2>2. CASE r = q
    BY <1>4, <1>5, <1>7, <2>1, <2>2 DEF k
  <2>3. CASE r # q
    BY <1>4, <1>5, <2>1, <2>3 DEF PInv, Checked
  <2> QED BY <2>2, <2>3
<1> QED BY <1>1, <1>3, <1>8, Quiet, ReadingStep

(* What using a challenge changes in its row, and finishing in the slot.   *)
LEMMA UseAndFinish ==
  ASSUME PInv, NEW q \in PasskeyRequests, NEW answer \in Answer,
         UseChallenge(ChallengeOf(q), answer), Finish(q), passkeyWork[q].phase # "idle"
  PROVE  /\ ChallengeOf(q) \in DOMAIN challenges
         /\ challenges' \in Seq(Challenge) /\ DOMAIN challenges' = DOMAIN challenges
         /\ \A c \in DOMAIN challenges :
               /\ OwnerOf(c)' = OwnerOf(c) /\ KeyOf(c)' = KeyOf(c)
               /\ challenges'[c].purpose = challenges[c].purpose
               /\ AnswersOf(c)' = AnswersOf(c) \cup (IF c = ChallengeOf(q) THEN {answer} ELSE {})
               /\ RepeatsOf(c)' = RepeatsOf(c) \cup
                     (IF c = ChallengeOf(q) THEN AnswersOf(c) \cap {answer} ELSE {})
               /\ AnswersOf(c) \subseteq Answer /\ OwnerOf(c) \in Users
         /\ \A r \in PasskeyRequests \ {q} : passkeyWork'[r] = passkeyWork[r]
         /\ passkeyWork'[q].phase = "idle"
         /\ passkeyWork' \in [PasskeyRequests ->
                [phase : {"idle", "found", "checked"}, challenge : Nat, count : Nat,
                 device : Devices \cup {NoWork.device}]]
<1> DEFINE c == ChallengeOf(q)
           new == [challenges[c] EXCEPT !.answers = @ \cup {answer},
                                        !.repeats = @ \cup (challenges[c].answers \cap {answer})]
<1>1. c \in DOMAIN challenges
  BY DEF PInv, Checked
<1>2. /\ challenges' = [challenges EXCEPT ![c] = new]
      /\ passkeyWork' = [passkeyWork EXCEPT ![q] = NoWork]
  BY DEF UseChallenge, Finish
<1>3. challenges[c] \in Challenge
  BY <1>1, ChallengeRows
<1>4. /\ new \in Challenge
      /\ new.user = OwnerOf(c) /\ new.credential = KeyOf(c) /\ new.purpose = challenges[c].purpose
      /\ new.answers = AnswersOf(c) \cup {answer}
      /\ new.repeats = RepeatsOf(c) \cup (AnswersOf(c) \cap {answer})
  BY <1>3 DEF Challenge, OwnerOf, KeyOf, AnswersOf, RepeatsOf
<1> HIDE DEF c, new
<1>5. challenges' \in Seq(Challenge) /\ DOMAIN challenges' = DOMAIN challenges
  BY <1>1, <1>2, <1>4, ChallengeRows
<1>6. challenges'[c] = new /\ \A e \in DOMAIN challenges \ {c} : challenges'[e] = challenges[e]
  BY <1>1, <1>2, ChallengeRows
<1>7. ASSUME NEW e \in DOMAIN challenges
      PROVE  /\ OwnerOf(e)' = OwnerOf(e) /\ KeyOf(e)' = KeyOf(e)
             /\ challenges'[e].purpose = challenges[e].purpose
             /\ AnswersOf(e)' = AnswersOf(e) \cup (IF e = c THEN {answer} ELSE {})
             /\ RepeatsOf(e)' = RepeatsOf(e) \cup
                   (IF e = c THEN AnswersOf(e) \cap {answer} ELSE {})
             /\ AnswersOf(e) \subseteq Answer /\ OwnerOf(e) \in Users
  <2>1. AnswersOf(e) \subseteq Answer /\ OwnerOf(e) \in Users
    BY ChallengeRows DEF Challenge, AnswersOf, OwnerOf
  <2>2. CASE e = c
    BY <1>4, <1>6, <2>1, <2>2 DEF OwnerOf, KeyOf, AnswersOf, RepeatsOf
  <2>3. CASE e # c
    BY <1>6, <2>1, <2>3 DEF OwnerOf, KeyOf, AnswersOf, RepeatsOf
  <2> QED BY <2>2, <2>3
<1>8. /\ \A r \in PasskeyRequests \ {q} : passkeyWork'[r] = passkeyWork[r]
      /\ passkeyWork'[q].phase = "idle"
      /\ passkeyWork' \in [PasskeyRequests ->
             [phase : {"idle", "found", "checked"}, challenge : Nat, count : Nat,
              device : Devices \cup {NoWork.device}]]
  BY <1>2 DEF PInv, WorkTyped, NoWork
<1> QED BY <1>1, <1>5, <1>7, <1>8 DEF c

LEMMA CheckedAfterUse ==
  ASSUME PInv, NEW q \in PasskeyRequests, NEW answer \in Answer,
         UseChallenge(ChallengeOf(q), answer), Finish(q),
         passkeyWork[q].phase # "idle", UNCHANGED accounts, setBack \subseteq setBack',
         \A r \in PasskeyRequests \ {q} : passkeyWork[r].phase = "checked" =>
             /\ ChallengeOf(r) # ChallengeOf(q)
             /\ accounts[OwnerOf(ChallengeOf(r))] = "here" =>
                   credentials'[KeyOf(ChallengeOf(r))].user = credentials[KeyOf(ChallengeOf(r))].user
  PROVE  Checked'
<1>1. /\ DOMAIN challenges' = DOMAIN challenges
      /\ \A c \in DOMAIN challenges :
            /\ OwnerOf(c)' = OwnerOf(c) /\ KeyOf(c)' = KeyOf(c)
            /\ challenges'[c].purpose = challenges[c].purpose
            /\ c # ChallengeOf(q) => AnswersOf(c)' = AnswersOf(c)
      /\ \A r \in PasskeyRequests \ {q} : passkeyWork'[r] = passkeyWork[r]
      /\ passkeyWork'[q].phase = "idle"
  <2>1. \A c \in DOMAIN challenges :
            AnswersOf(c)' = AnswersOf(c) \cup (IF c = ChallengeOf(q) THEN {answer} ELSE {})
    BY UseAndFinish
  <2>2. \A c \in DOMAIN challenges : c # ChallengeOf(q) => AnswersOf(c)' = AnswersOf(c)
    BY <2>1
  <2> QED BY <2>2, UseAndFinish
<1>2. ASSUME NEW r \in PasskeyRequests, passkeyWork'[r].phase # "idle"
      PROVE  /\ ChallengeOf(r)' \in DOMAIN challenges'
             /\ passkeyWork'[r].phase = "checked" =>
                   /\ challenges'[ChallengeOf(r)'].purpose = "assertion"
                   /\ \A p \in PasskeyRequests \ {r} :
                         passkeyWork'[p].phase = "checked" => ChallengeOf(p)' # ChallengeOf(r)'
                   /\ accounts'[OwnerOf(ChallengeOf(r))'] = "here" =>
                         /\ credentials'[KeyOf(ChallengeOf(r))'].user = OwnerOf(ChallengeOf(r))'
                         /\ Past(passkeyWork[r].count, KeyOf(ChallengeOf(r)), AnswersOf(ChallengeOf(r)))'
  <2> DEFINE e == ChallengeOf(r)
  <2>1. r # q /\ passkeyWork'[r] = passkeyWork[r] /\ e' = e /\ e \in DOMAIN challenges
    BY <1>1, <1>2 DEF ChallengeOf, PInv, Checked
  <2>2. CASE passkeyWork[r].phase = "checked"
    <3>1. /\ challenges[e].purpose = "assertion" /\ e # ChallengeOf(q)
          /\ \A p \in PasskeyRequests \ {r} : passkeyWork[p].phase = "checked" => ChallengeOf(p) # e
          /\ accounts[OwnerOf(e)] = "here" =>
                /\ credentials'[KeyOf(e)].user = OwnerOf(e)
                /\ Past(passkeyWork[r].count, KeyOf(e), AnswersOf(e))
      BY <2>1, <2>2 DEF PInv, Checked
    <3> HIDE DEF e
    <3>2. /\ challenges'[e].user = OwnerOf(e) /\ challenges'[e].credential = KeyOf(e)
          /\ challenges'[e].purpose = challenges[e].purpose
          /\ challenges'[e].answers = AnswersOf(e)
      BY <1>1, <2>1, <3>1 DEF OwnerOf, KeyOf, AnswersOf
    <3>3. OwnerOf(e)' = OwnerOf(e) /\ KeyOf(e)' = KeyOf(e) /\ AnswersOf(e)' = AnswersOf(e)
      BY <2>1, <3>2 DEF OwnerOf, KeyOf, AnswersOf
    <3>4. \A p \in PasskeyRequests \ {r} : passkeyWork'[p].phase = "checked" => ChallengeOf(p)' # e
      BY <1>1, <3>1 DEF ChallengeOf
    <3>5. Past(passkeyWork[r].count, KeyOf(e), AnswersOf(e))
          => Past(passkeyWork[r].count, KeyOf(e), AnswersOf(e))'
      BY <2>1, <3>3 DEF Past
    <3>6. /\ challenges'[e'].purpose = "assertion"
          /\ accounts'[OwnerOf(e)'] = "here" =>
                /\ credentials'[KeyOf(e)'].user = OwnerOf(e)'
                /\ Past(passkeyWork[r].count, KeyOf(e), AnswersOf(e))'
      BY <2>1, <3>1, <3>2, <3>3, <3>5
    <3> QED BY <1>1, <2>1, <3>4, <3>6 DEF e
  <2>3. CASE passkeyWork[r].phase # "checked"
    BY <1>1, <2>1, <2>3
  <2> QED BY <2>2, <2>3
<1> QED BY <1>2 DEF Checked

(* The credential was not stored, so no answer with it has been accepted   *)
(* of a user who is here.                                                  *)
LEMMA FinishRegistrationStep ==
  ASSUME PInv, NEW q \in PasskeyRequests, NEW k \in Credentials, FinishRegistration(q, k)
  PROVE  PInv'
<1> DEFINE c == ChallengeOf(q)
           u == OwnerOf(c)
           new == [user |-> u, enabled |-> TRUE, count |-> 0]
           answer == <<k, 0>>
<1>1. /\ passkeyWork[q].phase = "found" /\ challenges[c].purpose = "registration"
      /\ RowIsFree(q) /\ accounts[u] = "here" /\ credentials[k] = NoCredential
      /\ UseChallenge(c, answer) /\ Finish(q) /\ UNCHANGED setBack /\ UNCHANGED sessionVars
      /\ credentials' = [credentials EXCEPT ![k] = new]
  BY DEF FinishRegistration, ChallengeOf, OwnerOf
<1>2. answer \in Answer /\ answer[1] = k /\ answer[2] = 0
  BY DEF Answer
<1> HIDE DEF answer
<1>3. /\ c \in DOMAIN challenges
      /\ challenges' \in Seq(Challenge) /\ DOMAIN challenges' = DOMAIN challenges
      /\ \A e \in DOMAIN challenges :
            /\ OwnerOf(e)' = OwnerOf(e) /\ KeyOf(e)' = KeyOf(e)
            /\ challenges'[e].purpose = challenges[e].purpose
            /\ AnswersOf(e)' = AnswersOf(e) \cup (IF e = c THEN {answer} ELSE {})
            /\ RepeatsOf(e)' = RepeatsOf(e) \cup (IF e = c THEN AnswersOf(e) \cap {answer} ELSE {})
            /\ AnswersOf(e) \subseteq Answer /\ OwnerOf(e) \in Users
      /\ \A r \in PasskeyRequests \ {q} : passkeyWork'[r] = passkeyWork[r]
      /\ passkeyWork'[q].phase = "idle"
  BY <1>1, <1>2, UseAndFinish
<1>4. new \in [user : Users \cup {NoUser}, enabled : BOOLEAN, count : Nat] /\ new.user = u
      /\ NoCredential.user = NoUser
  BY <1>3 DEF NoCredential
<1>5. UNCHANGED accounts /\ SInv'
  BY <1>1, Quiet
<1> HIDE DEF c, u, new
<1>6. credentials'[k] = new /\ \A l \in Credentials \ {k} : credentials'[l] = credentials[l]
  BY <1>1, <1>4 DEF PInv, WorkTyped
<1>7. WorkTyped'
  BY <1>1, <1>2, <1>3, <1>4, UseAndFinish DEF PInv, WorkTyped, NoWork, c
<1>8. Issued'
  BY <1>1, <1>3, <1>5 DEF PInv, Issued
<1>9. \A e \in DOMAIN challenges : accounts[OwnerOf(e)] = "here" =>
          \A a \in AnswersOf(e) : a[1] # k /\ a[1] \in Credentials
  <2> SUFFICES ASSUME NEW e \in DOMAIN challenges, accounts[OwnerOf(e)] = "here",
                      NEW a \in AnswersOf(e)
               PROVE  a[1] # k /\ a[1] \in Credentials
    OBVIOUS
  <2>1. credentials[a[1]].user \in Users /\ a[1] \in Credentials
    BY <1>3 DEF PInv, Marked, Mark, Answer
  <2> QED BY <1>1, <1>4, <2>1, PasskeysAssumption
<1>10. \A r \in PasskeyRequests : passkeyWork[r].phase = "checked" =>
          ChallengeOf(r) # c /\ ~(accounts[OwnerOf(ChallengeOf(r))] = "here" /\ KeyOf(ChallengeOf(r)) = k)
  <2> SUFFICES ASSUME NEW r \in PasskeyRequests, passkeyWork[r].phase = "checked"
               PROVE  ChallengeOf(r) # c
                      /\ ~(accounts[OwnerOf(ChallengeOf(r))] = "here" /\ KeyOf(ChallengeOf(r)) = k)
    OBVIOUS
  <2>1. ChallengeOf(r) \in DOMAIN challenges /\ OwnerOf(ChallengeOf(r)) \in Users
    BY <1>3 DEF PInv, Checked
  <2> QED BY <1>1, <1>4, <2>1, PasskeysAssumption DEF PInv, Checked
<1>11. Checked'
  <2>1. \A r \in PasskeyRequests \ {q} : passkeyWork[r].phase = "checked" =>
            /\ ChallengeOf(r) # c
            /\ accounts[OwnerOf(ChallengeOf(r))] = "here" =>
                  credentials'[KeyOf(ChallengeOf(r))].user = credentials[KeyOf(ChallengeOf(r))].user
    <3> SUFFICES ASSUME NEW r \in PasskeyRequests, passkeyWork[r].phase = "checked",
                        accounts[OwnerOf(ChallengeOf(r))] = "here"
                 PROVE  credentials'[KeyOf(ChallengeOf(r))].user = credentials[KeyOf(ChallengeOf(r))].user
      BY <1>10
    <3>1. KeyOf(ChallengeOf(r)) \in Credentials
      BY DEF PInv, Checked, Issued
    <3> QED BY <1>6, <1>10, <3>1
  <2> QED BY <1>1, <1>2, <1>5, <2>1, CheckedAfterUse DEF c
<1>12. Marked'
  <2> SUFFICES ASSUME NEW e \in DOMAIN challenges, accounts[OwnerOf(e)] = "here",
                      NEW a \in AnswersOf(e)'
               PROVE  Mark(e, a)'
    BY <1>3, <1>5 DEF Marked
  <2>1. CASE a \in AnswersOf(e)
    <3>1. Mark(e, a) /\ credentials'[a[1]] = credentials[a[1]]
      BY <1>6, <1>9, <2>1 DEF PInv, Marked
    <3> QED BY <1>1, <1>3, <3>1 DEF Mark
  <2>2. CASE a \notin AnswersOf(e)
    <3>1. e = c /\ a = answer
      BY <1>3, <2>2
    <3>2. credentials'[a[1]].user = OwnerOf(e)
      BY <1>2, <1>4, <1>6, <3>1 DEF u
    <3> QED BY <1>1, <1>3, <3>1, <3>2 DEF Mark
  <2> QED BY <2>1, <2>2
<1>13. AnswerIsUsedOnce'
  <2> SUFFICES ASSUME NEW e \in DOMAIN challenges, NEW a \in RepeatsOf(e)'
               PROVE  challenges[e].purpose = "assertion" /\ (a[2] = 0 \/ a[1] \in setBack)
    BY <1>1, <1>3 DEF AnswerIsUsedOnce, RepeatsOf
  <2>1. a \in RepeatsOf(e)
    BY <1>1, <1>2, <1>3, <1>9 DEF u
  <2> QED BY <2>1 DEF PInv, AnswerIsUsedOnce, RepeatsOf
<1> QED BY <1>5, <1>7, <1>8, <1>11, <1>12, <1>13 DEF PInv

(* The stored counter becomes the answer's: unless it goes back, it is at  *)
(* least that of every answer accepted before.                             *)
LEMMA VerifyAssertionStep ==
  ASSUME PInv, NEW q \in PasskeyRequests, VerifyAssertion(q)
  PROVE  PInv'
<1> DEFINE c == ChallengeOf(q)
           k == KeyOf(c)
           u == OwnerOf(c)
           count == passkeyWork[q].count
           answer == <<k, count>>
<1>1. /\ passkeyWork[q].phase = "checked"
      /\ UseChallenge(c, answer) /\ Finish(q) /\ StartSession(u)
      /\ credentials' = [credentials EXCEPT ![k].count = count]
      /\ setBack' = setBack \cup (IF count < credentials[k].count THEN {k} ELSE {})
  BY DEF VerifyAssertion, ChallengeOf, KeyOf, OwnerOf
<1>2. UNCHANGED accounts /\ accounts[u] = "here"
  BY <1>1 DEF StartSession
<1>3. /\ c \in DOMAIN challenges
      /\ challenges[c].purpose = "assertion" /\ credentials[k].user = u
      /\ Past(count, k, AnswersOf(c))
      /\ \A r \in PasskeyRequests \ {q} : passkeyWork[r].phase = "checked" => ChallengeOf(r) # c
  BY <1>1, <1>2 DEF PInv, Checked
<1>4. k \in Credentials /\ count \in Nat
  BY <1>3 DEF PInv, Issued, WorkTyped
<1>5. answer \in Answer /\ answer[1] = k /\ answer[2] = count
  BY <1>4 DEF Answer
<1> HIDE DEF answer
<1>6. /\ challenges' \in Seq(Challenge) /\ DOMAIN challenges' = DOMAIN challenges
      /\ \A e \in DOMAIN challenges :
            /\ OwnerOf(e)' = OwnerOf(e) /\ KeyOf(e)' = KeyOf(e)
            /\ challenges'[e].purpose = challenges[e].purpose
            /\ AnswersOf(e)' = AnswersOf(e) \cup (IF e = c THEN {answer} ELSE {})
            /\ RepeatsOf(e)' = RepeatsOf(e) \cup (IF e = c THEN AnswersOf(e) \cap {answer} ELSE {})
            /\ AnswersOf(e) \subseteq Answer /\ OwnerOf(e) \in Users
      /\ \A r \in PasskeyRequests \ {q} : passkeyWork'[r] = passkeyWork[r]
      /\ passkeyWork'[q].phase = "idle"
      /\ passkeyWork' \in [PasskeyRequests ->
             [phase : {"idle", "found", "checked"}, challenge : Nat, count : Nat,
              device : Devices \cup {NoWork.device}]]
  BY <1>1, <1>5, UseAndFinish
<1>7. SInv'
  BY <1>1, <1>3, <1>6, StepSInv DEF PInv, SessionNext, SessionStep, Login
<1> HIDE DEF c, k, u, count
<1>8. /\ credentials'[k].user = credentials[k].user /\ credentials'[k].count = count
      /\ credentials[k].count \in Nat
      /\ \A l \in Credentials \ {k} : credentials'[l] = credentials[l]
  BY <1>1, <1>4 DEF PInv, WorkTyped
<1>9. WorkTyped'
  <2>1. [credentials[k] EXCEPT !.count = count]
            \in [user : Users \cup {NoUser}, enabled : BOOLEAN, count : Nat]
    <3>1. credentials[k] \in [user : Users \cup {NoUser}, enabled : BOOLEAN, count : Nat]
      BY <1>4 DEF PInv, WorkTyped
    <3> QED BY <1>4, <3>1
  <2>2. credentials' \in [Credentials ->
            [user : Users \cup {NoUser}, enabled : BOOLEAN, count : Nat]]
    BY <1>1, <1>4, <2>1 DEF PInv, WorkTyped
  <2> QED BY <1>6, <2>2 DEF WorkTyped, NoWork
<1>10. Issued'
  BY <1>2, <1>6 DEF PInv, Issued
<1>11. setBack \subseteq setBack'
  BY <1>1
<1>12. Checked'
  <2>1. \A r \in PasskeyRequests \ {q} : passkeyWork[r].phase = "checked" =>
            /\ ChallengeOf(r) # c
            /\ credentials'[KeyOf(ChallengeOf(r))].user = credentials[KeyOf(ChallengeOf(r))].user
    <3> SUFFICES ASSUME NEW r \in PasskeyRequests \ {q}, passkeyWork[r].phase = "checked"
                 PROVE  credentials'[KeyOf(ChallengeOf(r))].user = credentials[KeyOf(ChallengeOf(r))].user
      BY <1>3
    <3>1. KeyOf(ChallengeOf(r)) \in Credentials
      BY DEF PInv, Checked, Issued
    <3> QED BY <1>8, <3>1
  <2> QED BY <1>1, <1>2, <1>5, <1>11, <2>1, CheckedAfterUse DEF c
<1>13. Marked'
  <2> SUFFICES ASSUME NEW e \in DOMAIN challenges, accounts[OwnerOf(e)] = "here",
                      NEW a \in AnswersOf(e)'
               PROVE  Mark(e, a)'
    BY <1>2, <1>6 DEF Marked
  <2>1. CASE a \in AnswersOf(e)
    <3>1. Mark(e, a) /\ a[1] \in Credentials /\ a[2] \in Nat
      BY <1>6, <2>1 DEF PInv, Marked, Answer
    <3>2. CASE a[1] # k
      <4>1. credentials'[a[1]] = credentials[a[1]]
        BY <1>8, <3>1, <3>2
      <4> QED BY <1>6, <1>11, <3>1, <4>1 DEF Mark
    <3>3. CASE a[1] = k
      <4>1. k \notin setBack' => credentials[k].count <= count
        BY <1>1, <1>4, <1>8
      <4>2. challenges[e].purpose = "assertion" /\ k \notin setBack' => a[2] <= count
        BY <1>4, <1>8, <1>11, <3>1, <3>3, <4>1 DEF Mark
      <4> QED BY <1>6, <1>8, <3>1, <3>3, <4>2 DEF Mark
    <3> QED BY <3>2, <3>3
  <2>2. CASE a \notin AnswersOf(e)
    <3>1. e = c /\ a[1] = k /\ a[2] = count
      BY <1>5, <1>6, <2>2
    <3> QED BY <1>3, <1>4, <1>6, <1>8, <3>1 DEF Mark, k, u
  <2> QED BY <2>1, <2>2
<1>14. AnswerIsUsedOnce'
  <2> SUFFICES ASSUME NEW e \in DOMAIN challenges, NEW a \in RepeatsOf(e)'
               PROVE  challenges[e].purpose = "assertion" /\ (a[2] = 0 \/ a[1] \in setBack')
    BY <1>6 DEF AnswerIsUsedOnce, RepeatsOf
  <2>1. CASE a \in RepeatsOf(e)
    BY <1>11, <2>1 DEF PInv, AnswerIsUsedOnce, RepeatsOf
  <2>2. CASE a \notin RepeatsOf(e)
    <3>1. e = c /\ a = answer /\ answer \in AnswersOf(c)
      BY <1>6, <2>2
    <3>2. k \in setBack \/ count = 0
      BY <1>3, <1>4, <1>5, <3>1 DEF Past
    <3> QED BY <1>3, <1>5, <1>11, <3>1, <3>2
  <2> QED BY <2>1, <2>2
<1> QED BY <1>7, <1>9, <1>10, <1>12, <1>13, <1>14 DEF PInv

LEMMA DisableCredentialStep ==
  ASSUME PInv, NEW k \in Credentials, DisableCredential(k)
  PROVE  PInv'
<1>1. /\ credentials' = [credentials EXCEPT ![k].enabled = FALSE]
      /\ UNCHANGED <<challenges, trust, passkeyWork, setBack>> /\ UNCHANGED sessionVars
  BY DEF DisableCredential
<1>2. [credentials[k] EXCEPT !.enabled = FALSE]
          \in [user : Users \cup {NoUser}, enabled : BOOLEAN, count : Nat]
  <2>1. credentials[k] \in [user : Users \cup {NoUser}, enabled : BOOLEAN, count : Nat]
    BY DEF PInv, WorkTyped
  <2> QED BY <2>1
<1>3. credentials' = [credentials EXCEPT ![k] = [credentials[k] EXCEPT !.enabled = FALSE]]
  BY <1>1
<1>4. WorkTyped'
  BY <1>1, <1>2, <1>3 DEF PInv, WorkTyped, NoWork
<1>5. \A l \in Credentials : credentials'[l].user = credentials[l].user
                              /\ credentials'[l].count = credentials[l].count
  BY <1>1 DEF PInv, WorkTyped
<1>6. \A c \in DOMAIN challenges :
          /\ challenges[c].purpose = "assertion" => KeyOf(c) \in Credentials
          /\ \A answer \in AnswersOf(c) : answer[1] \in Credentials
  BY ChallengeRows DEF Challenge, Answer, AnswersOf, PInv, Issued
<1>7. Issued' /\ Marked' /\ AnswerIsUsedOnce'
  BY <1>1, <1>5, <1>6, Quiet
  DEF PInv, Issued, Marked, Mark, AnswerIsUsedOnce, OwnerOf, KeyOf, AnswersOf
<1>8. Checked'
  BY <1>1, <1>5, <1>6, Quiet DEF PInv, Checked, ChallengeOf, OwnerOf, KeyOf, AnswersOf, Past
<1> QED BY <1>1, <1>4, <1>7, <1>8, Quiet DEF PInv

LEMMA DistrustStep ==
  ASSUME PInv, NEW pairs, Distrust(pairs)
  PROVE  PInv'
<1>1. /\ UNCHANGED <<challenges, credentials, passkeyWork, setBack>>
      /\ UNCHANGED sessionVars
  BY DEF Distrust
<1>2. WorkTyped'
  BY <1>1 DEF PInv, WorkTyped, NoWork
<1>3. Checked'
  BY <1>1, Quiet DEF PInv, Checked, ChallengeOf, OwnerOf, KeyOf, AnswersOf, Past
<1> QED BY <1>1, <1>2, <1>3, Quiet, ReadingStep

(* A credential that loses its row has lost its user, who never returns.   *)
LEMMA RemoveUserStep ==
  ASSUME PInv, NEW u \in Users, RemoveUser(u)
  PROVE  PInv'
<1>1. /\ DeleteUser(u)
      /\ credentials' = [k \in Credentials |->
             IF credentials[k].user = u THEN NoCredential ELSE credentials[k]]
      /\ UNCHANGED <<challenges, passkeyWork, setBack>>
  BY DEF RemoveUser
<1>2. SInv'
  BY <1>1, DeleteUserStep DEF PInv
<1>3. accounts'[u] = "gone" /\ \A v \in Users \ {u} : accounts'[v] = accounts[v]
  BY <1>1 DEF DeleteUser, PInv, SInv, Typed
<1>4. \A k \in Credentials : credentials[k].user # u => credentials'[k] = credentials[k]
  BY <1>1
<1>5. NoCredential \in [user : Users \cup {NoUser}, enabled : BOOLEAN, count : Nat]
  BY DEF NoCredential
<1>6. WorkTyped'
  BY <1>1, <1>5 DEF PInv, WorkTyped, NoWork
<1>7. \A c \in DOMAIN challenges :
          /\ OwnerOf(c) \in Users
          /\ challenges[c].purpose = "assertion" => KeyOf(c) \in Credentials
          /\ \A answer \in AnswersOf(c) : answer[1] \in Credentials
  BY ChallengeRows DEF Challenge, Answer, AnswersOf, OwnerOf, PInv, Issued
<1>8. Issued'
  BY <1>1, <1>3, <1>7 DEF PInv, Issued, OwnerOf, KeyOf
<1>9. Marked' /\ AnswerIsUsedOnce'
  BY <1>1, <1>3, <1>4, <1>7
  DEF PInv, Marked, Mark, AnswerIsUsedOnce, OwnerOf, KeyOf, AnswersOf
<1>10. Checked'
  BY <1>1, <1>3, <1>4, <1>7 DEF PInv, Checked, ChallengeOf, OwnerOf, KeyOf, AnswersOf, Past
<1> QED BY <1>2, <1>6, <1>8, <1>9, <1>10 DEF PInv

LEMMA StepPInv == PInv /\ [PasskeyNext]_accountVars => PInv'
<1> SUFFICES ASSUME PInv, [PasskeyNext]_accountVars
             PROVE  PInv'
  OBVIOUS
<1>1. CASE UNCHANGED accountVars
  BY <1>1, SessionsQuiet DEF accountVars, sessionVars, passkeyVars
<1>2. CASE SessionStep /\ UNCHANGED passkeyVars
  BY <1>2, SessionsQuiet
<1>3. ASSUME NEW u \in Users,
             \/ RemoveUser(u)
             \/ StartRegistration(u)
             \/ \E k \in Credentials : StartAssertion(u, k)
             \/ \E d \in Devices : Distrust({<<u, d>>})
             \/ Distrust({u} \X Devices)
      PROVE  PInv'
  BY <1>3, RemoveUserStep, StartRegistrationStep, StartAssertionStep, DistrustStep
<1>4. ASSUME NEW q \in PasskeyRequests,
             \/ \E c \in DOMAIN challenges, d \in Devices : FindChallenge(q, c, d)
             \/ \E k \in Credentials : FinishRegistration(q, k)
             \/ \E count \in Counts : CheckCredential(q, count)
             \/ VerifyAssertion(q)
             \/ Refuse(q)
      PROVE  PInv'
  BY <1>4, FindChallengeStep, FinishRegistrationStep, CheckCredentialStep, VerifyAssertionStep,
     RefuseStep
<1>5. ASSUME NEW k \in Credentials, DisableCredential(k)
      PROVE  PInv'
  BY <1>5, DisableCredentialStep
<1> QED BY <1>1, <1>2, <1>3, <1>4, <1>5 DEF PasskeyNext

(* However many requests submit the answers of whatever authenticators,    *)
(* the same answer is accepted once for a challenge (_consume_challenge,   *)
(* finish_registration, verify_assertion), unless its counter is 0 or the  *)
(* stored counter has gone back.                                           *)
THEOREM AnswersAreUsedOnce == PasskeySpec => []AnswerIsUsedOnce
<1>1. PInv => AnswerIsUsedOnce
  BY DEF PInv
<1> QED BY InitPInv, StepPInv, <1>1, PTL DEF PasskeySpec

(* Sessions stay single when verified passkeys start them too, and users   *)
(* are deleted with all they have.                                         *)
THEOREM PasskeySessionsStaySingle == PasskeySpec => []SessionsStaySingle
<1>1. PInv => SessionsStaySingle
  BY SInvIsSingle DEF PInv
<1> QED BY InitPInv, StepPInv, <1>1, PTL DEF PasskeySpec

-----------------------------------------------------------------------------
(* The type invariants.                                                    *)

(* What SInv leaves out of SessionTypeOK: no time is before the first, and *)
(* no more tokens and ticks than MaxTokens and MaxClock.                   *)
SBounds ==
    /\ Len(tokens) <= MaxTokens
    /\ clock <= MaxClock
    /\ \A t \in DOMAIN tokens : tokens[t].expires >= 0
    /\ \A q \in RotationRequests : rotating[q].expires >= 0

LEMMA RevokedExpire ==
  ASSUME SInv, NEW S
  PROVE  \A t \in DOMAIN tokens : Revoked(S)[t].expires = tokens[t].expires
BY TokenRows DEF Revoked, Row

LEMMA LifeIsPositive ==
  ASSUME SInv, NEW t \in DOMAIN tokens
  PROVE  clock + RemainingLife(t) >= 0
<1> DEFINE seconds == (tokens[t].expires - clock) \div Second
           whole == IF seconds < 1 THEN 1 ELSE seconds
<1>1. tokens[t].expires - clock \in Int
  BY TokenRows DEF SInv, Typed, Row
<1>2. seconds \in Int
  BY <1>1, SessionsAssumption
<1>3. whole \in Nat
  BY <1>2
<1>4. RemainingLife(t) = Second * whole
  BY DEF RemainingLife
<1> HIDE DEF whole
<1>5. Second * whole \in Nat
  BY <1>3, SessionsAssumption
<1> QED BY <1>4, <1>5 DEF SInv, Typed

LEMMA StartSessionBounds ==
  ASSUME SInv, SBounds, NEW u \in Users, StartSession(u)
  PROVE  SBounds'
<1> DEFINE n == Len(tokens) + 1
           new == NewToken(u, n, clock + TokenLife)
<1>1. /\ tokens' = Append(tokens, new) /\ Len(tokens) < MaxTokens
      /\ UNCHANGED <<rotating, clock>>
  BY DEF StartSession
<1>2. new.expires >= 0
  BY SessionsAssumption DEF NewToken, SInv, Typed
<1> HIDE DEF new
<1>3. /\ Len(tokens') = n /\ DOMAIN tokens' = DOMAIN tokens \cup {n} /\ tokens'[n] = new
      /\ n <= MaxTokens /\ \A t \in DOMAIN tokens : tokens'[t] = tokens[t]
  BY <1>1, TokenRows, SessionsAssumption
<1> QED BY <1>1, <1>2, <1>3 DEF SBounds

LEMMA RotateCommitBounds ==
  ASSUME SInv, SBounds, NEW q \in RotationRequests, RotateCommit(q)
  PROVE  SBounds'
<1> DEFINE t == rotating[q].token
           n == Len(tokens) + 1
           new == NewToken(tokens[t].user, tokens[t].login, rotating[q].expires)
           old == Revoked({t})
<1>1. /\ tokens' = Append(old, new) /\ Len(tokens) < MaxTokens /\ UNCHANGED clock
      /\ rotating' = [rotating EXCEPT ![q] = NoRotation]
  BY DEF RotateCommit
<1>2. new.expires >= 0
  BY DEF NewToken, SBounds
<1>3. /\ old \in Seq(Row) /\ Len(old) = Len(tokens) /\ DOMAIN old = DOMAIN tokens
      /\ \A u \in DOMAIN tokens : old[u].expires = tokens[u].expires
  BY RevokedRows, RevokedExpire
<1> HIDE DEF old, new
<1>4. /\ Len(tokens') = n /\ DOMAIN tokens' = DOMAIN tokens \cup {n} /\ tokens'[n] = new
      /\ n <= MaxTokens /\ \A u \in DOMAIN tokens : tokens'[u] = old[u]
  BY <1>1, <1>3, TokenRows, SessionsAssumption
<1>5. \A u \in DOMAIN tokens' : tokens'[u].expires >= 0
  BY <1>2, <1>3, <1>4 DEF SBounds
<1>6. \A r \in RotationRequests : rotating'[r].expires >= 0
  BY <1>1 DEF SBounds, SInv, Typed, NoRotation
<1> QED BY <1>1, <1>4, <1>5, <1>6 DEF SBounds

LEMMA EndSessionsBounds ==
  ASSUME SInv, SBounds, NEW S, EndSessions(S)
  PROVE  SBounds'
<1>1. tokens' = Revoked(S) /\ UNCHANGED <<rotating, clock>>
  BY DEF EndSessions
<1> QED BY <1>1, RevokedRows, RevokedExpire DEF SBounds

LEMMA DeleteUserBounds ==
  ASSUME SInv, SBounds, NEW u \in Users, DeleteUser(u)
  PROVE  SBounds'
<1>1. UNCHANGED <<rotating, clock>>
  BY DEF DeleteUser
<1>2. \A t \in DOMAIN tokens : [tokens[t] EXCEPT !.state = "deleted"] \in Row
  BY TokenRows DEF Row
<1>3. tokens' \in [DOMAIN tokens -> Row]
  BY <1>2, TokenRows DEF DeleteUser
<1>4. Len(tokens') = Len(tokens) /\ DOMAIN tokens' = DOMAIN tokens
  BY <1>3, StatesOnly
<1>5. \A t \in DOMAIN tokens : tokens'[t].expires = tokens[t].expires
  BY TokenRows DEF DeleteUser, Row
<1> QED BY <1>1, <1>4, <1>5 DEF SBounds

LEMMA RotateReadBounds ==
  ASSUME SInv, SBounds, NEW t \in DOMAIN tokens, NEW q \in RotationRequests, RotateRead(q, t)
  PROVE  SBounds'
<1> DEFINE read == [token |-> t, expires |-> clock + RemainingLife(t)]
<1>1. read.expires >= 0
  BY LifeIsPositive
<1>2. rotating' = [rotating EXCEPT ![q] = read] /\ UNCHANGED <<tokens, clock>>
  BY DEF RotateRead
<1> HIDE DEF read
<1> QED BY <1>1, <1>2 DEF SBounds, SInv, Typed

LEMMA StepSBounds == SInv /\ SBounds /\ [SessionNext]_sessionVars => SBounds'
<1> SUFFICES ASSUME SInv, SBounds, [SessionNext]_sessionVars
             PROVE  SBounds'
  OBVIOUS
<1>1. ASSUME UNCHANGED <<tokens, clock>>,
             \A r \in RotationRequests : rotating'[r] \in {rotating[r], NoRotation}
      PROVE  SBounds'
  BY <1>1 DEF SBounds, NoRotation
<1>2. CASE UNCHANGED sessionVars
  BY <1>1, <1>2 DEF sessionVars
<1>3. ASSUME NEW u \in Users, CreateUser(u) \/ Login(u) \/ LogoutAll(u)
      PROVE  SBounds'
  <2>1. CreateUser(u) => SBounds'
    BY <1>1 DEF CreateUser
  <2> QED BY <1>3, <2>1, StartSessionBounds, EndSessionsBounds DEF Login, LogoutAll
<1>4. ASSUME NEW t \in DOMAIN tokens,
             Logout(t) \/ \E q \in RotationRequests : RotateRead(q, t)
      PROVE  SBounds'
  BY <1>4, EndSessionsBounds, RotateReadBounds DEF Logout
<1>5. ASSUME NEW q \in RotationRequests, RotateCommit(q) \/ RotateAbort(q)
      PROVE  SBounds'
  <2>1. ASSUME RotateAbort(q)
        PROVE  SBounds'
    <3>1. rotating' = [rotating EXCEPT ![q] = NoRotation] /\ UNCHANGED <<tokens, clock>>
      BY <2>1 DEF RotateAbort
    <3> QED BY <1>1, <3>1 DEF SInv, Typed
  <2> QED BY <1>5, <2>1, RotateCommitBounds
<1>6. CASE SessionTick
  BY <1>6, SessionsAssumption DEF SessionTick, SBounds, SInv, Typed
<1>7. CASE SessionStep
  BY <1>3, <1>4, <1>5, <1>6, <1>7 DEF SessionStep
<1>8. CASE \E u \in Users : DeleteUser(u)
  BY <1>8, DeleteUserBounds
<1> QED BY <1>2, <1>7, <1>8 DEF SessionNext

LEMMA InitSBounds == SessionInit => SBounds
BY EmptySeq, SessionsAssumption DEF SessionInit, SBounds, NoRotation

LEMMA SessionTypes == SInv /\ SBounds => SessionTypeOK
<1> SUFFICES ASSUME SInv, SBounds
             PROVE  SessionTypeOK
  OBVIOUS
<1>1. \A t \in DOMAIN tokens : t \in 1..MaxTokens
  BY TokenRows, SessionsAssumption DEF SBounds
<1>2. \A t \in DOMAIN tokens : tokens[t].login \in 1..MaxTokens
  <2>1. \A t \in DOMAIN tokens : tokens[t].login \in 1..t
    BY DEF SInv, Known
  <2> QED BY <1>1, <2>1, SessionsAssumption
<1>3. \A t \in DOMAIN tokens : tokens[t] \in Token
  <2> SUFFICES ASSUME NEW t \in DOMAIN tokens
               PROVE  tokens[t] \in Token
    OBVIOUS
  <2>1. tokens[t] \in Row /\ tokens[t].login \in 1..MaxTokens /\ tokens[t].expires >= 0
    BY <1>2, TokenRows DEF SBounds
  <2>2. tokens[t].expires \in Nat
    BY <2>1 DEF Row
  <2> QED BY <2>1, <2>2 DEF Row, Token
<1>4. tokens \in Seq(Token)
  <2>1. tokens \in [1..Len(tokens) -> Token] /\ Len(tokens) \in Nat
    BY <1>3, TokenRows
  <2> QED BY <2>1, SeqDef
<1>5. \A q \in RotationRequests :
          rotating[q].token \in 0..MaxTokens /\ rotating[q].token <= Len(tokens)
  <2> SUFFICES ASSUME NEW q \in RotationRequests
               PROVE  rotating[q].token \in 0..MaxTokens /\ rotating[q].token <= Len(tokens)
    OBVIOUS
  <2>1. CASE rotating[q].token = 0
    BY <2>1, TokenRows, SessionsAssumption
  <2>2. CASE rotating[q].token # 0
    <3>1. rotating[q].token \in DOMAIN tokens
      BY <2>2 DEF SInv, Current
    <3> QED BY <1>1, <3>1, TokenRows, SessionsAssumption
  <2> QED BY <2>1, <2>2
<1>6. rotating \in [RotationRequests -> [token : 0..MaxTokens, expires : Nat]]
  <2>1. \A q \in RotationRequests : rotating[q] \in [token : 0..MaxTokens, expires : Nat]
    <3> SUFFICES ASSUME NEW q \in RotationRequests
                 PROVE  rotating[q] \in [token : 0..MaxTokens, expires : Nat]
      OBVIOUS
    <3>1. rotating[q] \in [token : Nat, expires : Int] /\ rotating[q].expires >= 0
      BY DEF SInv, Typed, SBounds
    <3>2. rotating[q].expires \in Nat
      BY <3>1
    <3> QED BY <1>5, <3>1, <3>2
  <2> QED BY <2>1 DEF SInv, Typed
<1>7. clock \in 0..MaxClock
  BY SessionsAssumption DEF SInv, Typed, SBounds
<1>8. ended \cup overtaken \subseteq 1..MaxTokens
  BY <1>1 DEF SInv, Known
<1> QED BY <1>4, <1>5, <1>6, <1>7, <1>8 DEF SessionTypeOK, SBounds, SInv, Typed

(* Sessions keep their types: every row has its family's first token, a    *)
(* time to come and its state, and a rotation holds a row that was issued. *)
THEOREM SessionsKeepTheirTypes == SessionSpec => []SessionTypeOK
BY InitSInv, StepSInv, InitSBounds, StepSBounds, SessionTypes, PTL DEF SessionSpec

(* What WorkTyped leaves out of PasskeyTypeOK.                             *)
PBounds ==
    /\ Len(challenges) <= MaxChallenges
    /\ trust \subseteq Users \X Devices
    /\ \A q \in PasskeyRequests : ChallengeOf(q) <= MaxChallenges
    /\ setBack \subseteq Credentials

LEMMA IdleDevice == NoWork.device \in Devices /\ NoWork.challenge = 0
BY PasskeysAssumption DEF NoWork

LEMMA InitPBounds == PasskeyInit => PBounds
BY EmptySeq, IdleDevice, PasskeysAssumption DEF PasskeyInit, PBounds, ChallengeOf

LEMMA CreateChallengeBounds ==
  ASSUME PInv, PBounds, NEW u, NEW k, NEW purpose, CreateChallenge(u, purpose, k)
  PROVE  PBounds'
<1> DEFINE new == [user |-> u, purpose |-> purpose, credential |-> k,
                   expires |-> clock + ChallengeLife, answers |-> {}, repeats |-> {}]
<1>1. /\ challenges' = Append(challenges, new) /\ Len(challenges) < MaxChallenges
      /\ UNCHANGED <<trust, passkeyWork, setBack>>
  BY DEF CreateChallenge
<1> HIDE DEF new
<1>2. Len(challenges') = Len(challenges) + 1
  BY <1>1, ChallengeRows
<1>3. Len(challenges') <= MaxChallenges
  BY <1>1, <1>2, ChallengeRows, PasskeysAssumption
<1> QED BY <1>1, <1>3 DEF PBounds, ChallengeOf

LEMMA FinishBounds ==
  ASSUME PInv, PBounds, NEW q \in PasskeyRequests, Finish(q)
  PROVE  \A r \in PasskeyRequests : ChallengeOf(r)' <= MaxChallenges
<1>1. passkeyWork' = [passkeyWork EXCEPT ![q] = NoWork]
  BY DEF Finish
<1>2. passkeyWork'[q] = NoWork /\ \A r \in PasskeyRequests \ {q} : passkeyWork'[r] = passkeyWork[r]
  BY <1>1 DEF PInv, WorkTyped
<1> QED BY <1>2, IdleDevice, PasskeysAssumption DEF PBounds, ChallengeOf

LEMMA SlotHolds ==
  ASSUME PInv, NEW q \in PasskeyRequests
  PROVE  passkeyWork[q].device \in Devices
BY IdleDevice DEF PInv, WorkTyped

LEMMA StepPBounds == PInv /\ PBounds /\ [PasskeyNext]_accountVars => PBounds'
<1> SUFFICES ASSUME PInv, PBounds, [PasskeyNext]_accountVars
             PROVE  PBounds'
  OBVIOUS
<1>1. ASSUME UNCHANGED <<challenges, trust, passkeyWork, setBack>>
      PROVE  PBounds'
  BY <1>1 DEF PBounds, ChallengeOf
<1>2. CASE UNCHANGED accountVars
  BY <1>1, <1>2 DEF accountVars
<1>3. CASE SessionStep /\ UNCHANGED passkeyVars
  BY <1>1, <1>3 DEF passkeyVars
<1>4. ASSUME NEW u \in Users, RemoveUser(u)
      PROVE  PBounds'
  BY <1>4 DEF RemoveUser, PBounds, ChallengeOf
<1>5. ASSUME NEW u \in Users, StartRegistration(u) \/ \E k \in Credentials : StartAssertion(u, k)
      PROVE  PBounds'
  BY <1>5, CreateChallengeBounds DEF StartRegistration, StartAssertion
<1>6. ASSUME NEW pairs, Distrust(pairs)
      PROVE  PBounds'
  BY <1>6 DEF Distrust, PBounds, ChallengeOf
<1>7. ASSUME NEW q \in PasskeyRequests, NEW c \in DOMAIN challenges, NEW d \in Devices,
             FindChallenge(q, c, d)
      PROVE  PBounds'
  <2>1. /\ passkeyWork' = [passkeyWork EXCEPT ![q] =
               [phase |-> "found", challenge |-> c, count |-> 0, device |-> d]]
        /\ UNCHANGED <<challenges, trust, setBack>>
    BY <1>7 DEF FindChallenge
  <2>2. passkeyWork'[q].challenge = c /\ \A r \in PasskeyRequests \ {q} : passkeyWork'[r] = passkeyWork[r]
    BY <2>1 DEF PInv, WorkTyped
  <2>3. c <= MaxChallenges
    BY ChallengeRows, PasskeysAssumption DEF PBounds
  <2> QED BY <2>1, <2>2, <2>3 DEF PBounds, ChallengeOf
<1>8. ASSUME NEW q \in PasskeyRequests, NEW k \in Credentials, FinishRegistration(q, k)
      PROVE  PBounds'
  <2> DEFINE c == ChallengeOf(q)
  <2>1. /\ passkeyWork[q].phase # "idle" /\ UseChallenge(c, <<k, 0>>) /\ Finish(q) /\ UNCHANGED setBack
        /\ trust' = trust \cup {<<OwnerOf(c), passkeyWork[q].device>>}
    BY <1>8 DEF FinishRegistration, ChallengeOf, OwnerOf
  <2>2. c \in DOMAIN challenges /\ OwnerOf(c) \in Users
    BY <2>1, UseAndFinish DEF Answer
  <2>3. Len(challenges') = Len(challenges)
    BY <2>1 DEF UseChallenge
  <2>4. trust' \subseteq Users \X Devices
    BY <2>1, <2>2, SlotHolds DEF PBounds
  <2> QED BY <2>1, <2>3, <2>4, FinishBounds DEF PBounds
<1>9. ASSUME NEW q \in PasskeyRequests, NEW count \in Counts, CheckCredential(q, count)
      PROVE  PBounds'
  <2>1. /\ passkeyWork' = [passkeyWork EXCEPT ![q].phase = "checked", ![q].count = count]
        /\ UNCHANGED <<challenges, trust, setBack>>
    BY <1>9 DEF CheckCredential
  <2>2. \A r \in PasskeyRequests : passkeyWork'[r].challenge = passkeyWork[r].challenge
    BY <2>1 DEF PInv, WorkTyped
  <2> QED BY <2>1, <2>2 DEF PBounds, ChallengeOf
<1>10. ASSUME NEW q \in PasskeyRequests, VerifyAssertion(q)
       PROVE  PBounds'
  <2> DEFINE c == ChallengeOf(q)
  <2>1. /\ passkeyWork[q].phase = "checked" /\ UseChallenge(c, <<KeyOf(c), passkeyWork[q].count>>)
        /\ Finish(q) /\ UNCHANGED trust /\ setBack' \subseteq setBack \cup {KeyOf(c)}
    BY <1>10 DEF VerifyAssertion, ChallengeOf, KeyOf
  <2>2. KeyOf(c) \in Credentials
    BY <2>1 DEF PInv, Checked, Issued
  <2>3. Len(challenges') = Len(challenges)
    BY <2>1 DEF UseChallenge
  <2> QED BY <2>1, <2>2, <2>3, FinishBounds DEF PBounds
<1>11. ASSUME NEW q \in PasskeyRequests, Refuse(q)
       PROVE  PBounds'
  BY <1>11, FinishBounds DEF Refuse, PBounds
<1>12. ASSUME NEW k \in Credentials, DisableCredential(k)
       PROVE  PBounds'
  BY <1>1, <1>12 DEF DisableCredential
<1> QED BY <1>2, <1>3, <1>4, <1>5, <1>6, <1>7, <1>8, <1>9, <1>10, <1>11, <1>12 DEF PasskeyNext

LEMMA PasskeyTypes == PInv /\ PBounds => PasskeyTypeOK
<1> SUFFICES ASSUME PInv, PBounds
             PROVE  PasskeyTypeOK
  OBVIOUS
<1>1. \A q \in PasskeyRequests :
          passkeyWork[q] \in [phase : {"idle", "found", "checked"}, challenge : 0..MaxChallenges,
                              count : Nat, device : Devices]
  <2> SUFFICES ASSUME NEW q \in PasskeyRequests
               PROVE  passkeyWork[q] \in [phase : {"idle", "found", "checked"},
                                          challenge : 0..MaxChallenges, count : Nat,
                                          device : Devices]
    OBVIOUS
  <2>1. passkeyWork[q] \in [phase : {"idle", "found", "checked"}, challenge : Nat,
                            count : Nat, device : Devices \cup {NoWork.device}]
    BY DEF PInv, WorkTyped
  <2>2. passkeyWork[q].device \in Devices
    BY SlotHolds
  <2>3. passkeyWork[q].challenge \in 0..MaxChallenges
    BY <2>1, PasskeysAssumption DEF PBounds, ChallengeOf
  <2> QED BY <2>1, <2>2, <2>3
<1>2. passkeyWork \in [PasskeyRequests ->
          [phase : {"idle", "found", "checked"}, challenge : 0..MaxChallenges, count : Nat,
           device : Devices]]
  BY <1>1 DEF PInv, WorkTyped
<1> QED BY <1>2 DEF PasskeyTypeOK, PBounds, PInv, WorkTyped

LEMMA PasskeysMoveSessions ==
  PInv /\ SBounds /\ [PasskeyNext]_accountVars => SBounds'
<1> SUFFICES ASSUME PInv, SBounds, [PasskeyNext]_accountVars
             PROVE  SBounds'
  OBVIOUS
<1>1. ASSUME NEW q \in PasskeyRequests, VerifyAssertion(q)
      PROVE  SBounds'
  <2> DEFINE c == ChallengeOf(q)
  <2>1. passkeyWork[q].phase = "checked" /\ StartSession(OwnerOf(c))
    BY <1>1 DEF VerifyAssertion, ChallengeOf, OwnerOf
  <2>2. OwnerOf(c) \in Users
    BY <2>1, ChallengeRows DEF PInv, Checked, Challenge, OwnerOf
  <2> QED BY <2>1, <2>2, StartSessionBounds DEF PInv
<1>2. CASE ~ \E q \in PasskeyRequests : VerifyAssertion(q)
  <2>1. [SessionNext]_sessionVars
    BY <1>2 DEF PasskeyNext, SessionNext, RemoveUser, StartRegistration, StartAssertion, CreateChallenge, Distrust,
       FindChallenge, FinishRegistration, CheckCredential, Refuse, DisableCredential,
       accountVars, sessionVars
  <2> QED BY <2>1, StepSBounds DEF PInv
<1> QED BY <1>1, <1>2

(* Passkeys keep their types, those of the sessions they start among them: *)
(* a request holds a challenge that was created, and only a user's devices *)
(* are trusted.                                                            *)
THEOREM PasskeysKeepTheirTypes == PasskeySpec => [](PasskeyTypeOK /\ SessionTypeOK)
<1>1. PasskeyInit => PInv /\ PBounds /\ SBounds
  BY InitPInv, InitPBounds, InitSBounds DEF PasskeyInit
<1>2. PInv /\ PBounds /\ SBounds /\ [PasskeyNext]_accountVars => PInv' /\ PBounds' /\ SBounds'
  BY StepPInv, StepPBounds, PasskeysMoveSessions
<1>3. PInv /\ PBounds /\ SBounds => PasskeyTypeOK /\ SessionTypeOK
  BY PasskeyTypes, SessionTypes DEF PInv
<1> QED BY <1>1, <1>2, <1>3, PTL DEF PasskeySpec
=============================================================================
