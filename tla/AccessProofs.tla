---------------------------- MODULE AccessProofs ----------------------------
(***************************************************************************)
(* Who may act and how often: theorems about Sessions, RateLimiter and     *)
(* ProviderMirror, for any number of accounts, instances, wallets and      *)
(* overlapping calls.                                                      *)
(***************************************************************************)
EXTENDS Sessions, RateLimiter, ProviderMirror, FiniteSetTheorems, TLAPS

(* What a token t of account t.identity promises: no role above the         *)
(* account's, unless it ends within SessionHours + 1 of the hour the role   *)
(* was lowered in; and nothing beyond the sessions made so far.            *)
Kept(t) ==
    /\ t.exp <= hours + SessionHours
    /\ \/ users[t.identity] >= t.role
       \/ t.exp <= loweredAt[t.identity] + SessionHours + 1

TokensAreKept ==
    \A k \in AuthCall : requests[k].step \in {"answered", "received"} =>
        requests[k].token \in Token /\ Kept(requests[k].token)

StoredIsKept == stored # NoToken => Kept(stored)

(* A registration that waits for its audit row read its role this hour or   *)
(* the last; where the account has less by now, it was lowered since.      *)
AuditsAreRecent ==
    \A k \in AuthCall : requests[k].step = "audit" =>
        /\ requests[k].token \in Token
        /\ requests[k].token.identity = requests[k].identity
        /\ requests[k].since <= hours /\ hours <= requests[k].since + 1
        /\ \/ users[requests[k].identity] >= requests[k].token.role
           \/ loweredAt[requests[k].identity] >= requests[k].since

LoweredByNow == \A i \in Identity : loweredAt[i] <= hours

SessionsInv ==
    SessionsTypeOK /\ TokensAreKept /\ StoredIsKept /\ AuditsAreRecent /\ LoweredByNow

(* The upsert never lowers a role (auth/service.ts:46). *)
LEMMA RolesRise ==
    ASSUME NEW current \in Role, NEW excluded \in Role
    PROVE  roleOnConflict(current, excluded) \in Role /\ roleOnConflict(current, excluded) >= current
BY DEF roleOnConflict, Role

LEMMA NoTokenIsNone == NoToken \notin Token
BY DEF NoToken, Token, Role

LEMMA SessionsInitInv == SessionsInit => SessionsInv
<1> SUFFICES ASSUME SessionsInit PROVE SessionsInv
  OBVIOUS
<1>1. 0 \in 0..MaxHours /\ NotLowered <= 0
  BY SessionsAssumption DEF NotLowered
<1>2. /\ hours = 0 /\ stored = NoToken /\ seeded = FALSE
      /\ users \in [Identity -> {NoUser}]
      /\ requests \in [AuthCall -> {Idle}]
      /\ loweredAt \in [Identity -> {NotLowered}]
  BY DEF SessionsInit
<1>3. SessionsTypeOK
  BY <1>1, <1>2 DEF SessionsTypeOK
<1>4. \A k \in AuthCall : requests[k].step = "idle"
  BY <1>2 DEF Idle
<1>5. TokensAreKept /\ AuditsAreRecent /\ StoredIsKept
  BY <1>2, <1>4 DEF TokensAreKept, AuditsAreRecent, StoredIsKept
<1>6. LoweredByNow
  BY <1>1, <1>2 DEF LoweredByNow
<1> QED
  BY <1>3, <1>5, <1>6 DEF SessionsInv

(* A request that keeps its types. *)
LEMMA IsState ==
    ASSUME NEW step \in {"upsert", "find", "audit", "answered", "received", "refused"},
           NEW i \in Identity, NEW role \in Role, NEW token \in Token \cup {NoToken},
           NEW since \in 0..MaxHours
    PROVE  [step |-> step, identity |-> i, asked |-> role, token |-> token, since |-> since]
               \in RequestState
BY DEF RequestState

LEMMA OfState ==
    ASSUME NEW r \in RequestState
    PROVE  /\ r.step \in {"upsert", "find", "audit", "answered", "received", "refused"}
           /\ r.identity \in Identity /\ r.asked \in Role /\ r.since \in 0..MaxHours
           /\ r.token \in Token \cup {NoToken}
           /\ r = [step |-> r.step, identity |-> r.identity, asked |-> r.asked,
                   token |-> r.token, since |-> r.since]
BY DEF RequestState

LEMMA OfToken ==
    ASSUME NEW t \in Token
    PROVE  t.identity \in Identity /\ t.role \in Role /\ t.exp \in 0..(MaxHours + SessionHours)
BY DEF Token

LEMMA AuditOfState ==
    ASSUME NEW r \in RequestState, NEW t \in Token, NEW h \in 0..MaxHours
    PROVE  [r EXCEPT !.step = "audit", !.since = h, !.token = t]
           = [step |-> "audit", identity |-> r.identity, asked |-> r.asked, since |-> h,
              token |-> t]
<1> DEFINE new == [r EXCEPT !.step = "audit", !.since = h, !.token = t]
<1>1. /\ new \in RequestState /\ new.step = "audit" /\ new.since = h /\ new.token = t
      /\ new.identity = r.identity /\ new.asked = r.asked
  BY DEF RequestState
<1>2. new = [step |-> new.step, identity |-> new.identity, asked |-> new.asked,
             token |-> new.token, since |-> new.since]
  BY <1>1, OfState
<1> HIDE DEF new
<1>3. new = [step |-> "audit", identity |-> r.identity, asked |-> r.asked, since |-> h,
             token |-> t]
  BY <1>1, <1>2
<1> QED
  BY <1>3 DEF new

(* The role a registration gives is at least the one the account had. *)
LEMMA Registered ==
    ASSUME SessionsInv, NEW k \in AuthCall, registerUser(k)
    PROVE  /\ requests[k].identity \in Identity
           /\ \E role \in Role :
                 /\ role >= users[requests[k].identity]
                 /\ users' = [users EXCEPT ![requests[k].identity] = role]
                 /\ requests' = [requests EXCEPT ![k] =
                       [step |-> "audit", identity |-> requests[k].identity,
                        asked |-> requests[k].asked, since |-> hours,
                        token |-> [role |-> role, identity |-> requests[k].identity, exp |-> 0]]]
           /\ UNCHANGED <<stored, hours, seeded, loweredAt>>
<1> USE SessionsAssumption DEF SessionsInv, SessionsTypeOK, registerUser
<1> DEFINE i == requests[k].identity
           role == IF users[i] = NoUser THEN requests[k].asked
                   ELSE roleOnConflict(users[i], requests[k].asked)
           token == [role |-> role, identity |-> i, exp |-> 0]
<1>1. requests[k] \in RequestState
  BY DEF Idle
<1>2. i \in Identity /\ requests[k].asked \in Role
  BY <1>1, OfState
<1>3. role \in Role /\ role >= users[i]
  BY <1>2, RolesRise DEF NoUser, Role
<1>3a. token \in Token
  BY <1>2, <1>3 DEF Token
<1>4. users' = [users EXCEPT ![i] = role]
  OBVIOUS
<1>5. requests' = [requests EXCEPT ![k] =
                     [requests[k] EXCEPT !.step = "audit", !.since = hours, !.token = token]]
  OBVIOUS
<1>6. [requests[k] EXCEPT !.step = "audit", !.since = hours, !.token = token]
      = [step |-> "audit", identity |-> i, asked |-> requests[k].asked, since |-> hours,
         token |-> token]
  BY <1>1, <1>3a, AuditOfState
<1>7. requests' = [requests EXCEPT ![k] =
                     [step |-> "audit", identity |-> i, asked |-> requests[k].asked,
                      since |-> hours, token |-> token]]
  BY <1>5, <1>6
<1> QED
  BY <1>2, <1>3, <1>4, <1>7

(* A step that asks, or that refuses. *)
LEMMA QuietStep ==
    ASSUME SessionsInv, NEW k \in AuthCall, NEW r \in RequestState,
           r.step \in {"upsert", "find", "refused"},
           requests' = [requests EXCEPT ![k] = r],
           UNCHANGED <<users, stored, hours, seeded, loweredAt>>
    PROVE  SessionsInv'
<1> USE DEF SessionsInv, SessionsTypeOK
<1>1. SessionsTypeOK'
  OBVIOUS
<1>2. TokensAreKept' /\ AuditsAreRecent'
  BY DEF TokensAreKept, AuditsAreRecent, Kept
<1>3. StoredIsKept' /\ LoweredByNow'
  BY DEF StoredIsKept, LoweredByNow, Kept
<1> QED
  BY <1>1, <1>2, <1>3

(* A step that answers a call with a token that is kept. *)
LEMMA AnswerStep ==
    ASSUME SessionsInv, NEW k \in AuthCall, NEW r \in RequestState,
           r.step \in {"answered", "received"}, r.token \in Token, Kept(r.token),
           requests' = [requests EXCEPT ![k] = r], stored' = stored \/ stored' = r.token,
           UNCHANGED <<users, hours, seeded, loweredAt>>
    PROVE  SessionsInv'
<1> USE DEF SessionsInv, SessionsTypeOK
<1>1. SessionsTypeOK'
  OBVIOUS
<1>2. \A t : Kept(t) => Kept(t)'
  BY DEF Kept
<1>3. TokensAreKept' /\ AuditsAreRecent'
  BY <1>2 DEF TokensAreKept, AuditsAreRecent
<1>4. StoredIsKept' /\ LoweredByNow'
  BY <1>2 DEF StoredIsKept, LoweredByNow
<1> QED
  BY <1>1, <1>3, <1>4

LEMMA StepKeepsInv == SessionsInv /\ [SessionsNext]_sessvars => SessionsInv'
<1> SUFFICES ASSUME SessionsInv, [SessionsNext]_sessvars PROVE SessionsInv'
  OBVIOUS
<1> USE SessionsAssumption, NoTokenIsNone DEF SessionsInv, SessionsTypeOK
<1>1. ASSUME NEW k \in AuthCall, NEW i \in Identity, login(k, i) PROVE SessionsInv'
  <2> DEFINE r == [step |-> "find", identity |-> i, asked |-> 0, token |-> NoToken, since |-> hours]
  <2>1. r \in RequestState /\ r.step = "find"
    BY IsState DEF Role
  <2>2. requests' = [requests EXCEPT ![k] = r] /\ UNCHANGED <<users, stored, hours, seeded, loweredAt>>
    BY <1>1 DEF login, Ask
  <2> HIDE DEF r
  <2> QED
    BY <2>1, <2>2, QuietStep
<1>2. ASSUME NEW k \in AuthCall, NEW i \in Identity, NEW role \in 1..3, NEW invited \in BOOLEAN,
             register(k, i, role, invited)
      PROVE  SessionsInv'
  <2> DEFINE r == [step |-> "upsert", identity |-> i, asked |-> role, token |-> NoToken,
                   since |-> hours]
  <2>1. r \in RequestState /\ r.step = "upsert"
    BY IsState DEF Role
  <2>2. requests' = [requests EXCEPT ![k] = r] /\ UNCHANGED <<users, stored, hours, seeded, loweredAt>>
    BY <1>2 DEF register, Ask
  <2> HIDE DEF r
  <2> QED
    BY <2>1, <2>2, QuietStep
<1>3. ASSUME NEW k \in AuthCall, registerUser(k) PROVE SessionsInv'
  <2>1. PICK i \in Identity : i = requests[k].identity
    BY <1>3, Registered
  <2>2. PICK role \in Role :
          /\ role >= users[i]
          /\ users' = [users EXCEPT ![i] = role]
          /\ requests' = [requests EXCEPT ![k] =
                [step |-> "audit", identity |-> i, asked |-> requests[k].asked, since |-> hours,
                 token |-> [role |-> role, identity |-> i, exp |-> 0]]]
          /\ UNCHANGED <<stored, hours, seeded, loweredAt>>
    BY <1>3, <2>1, Registered
  <2> DEFINE token == [role |-> role, identity |-> i, exp |-> 0]
             r == [step |-> "audit", identity |-> i, asked |-> requests[k].asked, since |-> hours,
                   token |-> token]
  <2>3. token \in Token /\ token.identity = i /\ token.role = role
    BY <2>1, <2>2 DEF Token
  <2>4. requests[k] \in RequestState
    BY <1>3 DEF registerUser, Idle
  <2>5. r \in RequestState
    BY <2>1, <2>3, <2>4, IsState, OfState
  <2>6. r.step = "audit" /\ r.identity = i /\ r.token = token /\ r.since = hours
    OBVIOUS
  <2> HIDE DEF token, r
  <2>7. requests'[k] = r /\ \A j \in AuthCall \ {k} : requests'[j] = requests[j]
    BY <2>2 DEF r, token
  <2>8. SessionsTypeOK'
    BY <2>1, <2>2, <2>5 DEF r, token
  <2>9. /\ users'[i] = role /\ hours' = hours /\ loweredAt' = loweredAt
        /\ \A a \in Identity, b \in Role : users[a] >= b => users'[a] >= b
    BY <2>1, <2>2 DEF Role, NoUser
  <2>10. \A t \in Token : Kept(t) => Kept(t)'
    BY <2>9, OfToken DEF Kept
  <2>11. TokensAreKept'
    BY <2>6, <2>7, <2>10 DEF TokensAreKept
  <2>12. StoredIsKept' /\ LoweredByNow'
    BY <2>2, <2>10 DEF StoredIsKept, LoweredByNow
  <2>13. AuditsAreRecent'
    <3> SUFFICES ASSUME NEW j \in AuthCall, requests'[j].step = "audit"
                 PROVE  /\ requests'[j].token \in Token
                        /\ requests'[j].token.identity = requests'[j].identity
                        /\ requests'[j].since <= hours' /\ hours' <= requests'[j].since + 1
                        /\ \/ users'[requests'[j].identity] >= requests'[j].token.role
                           \/ loweredAt'[requests'[j].identity] >= requests'[j].since
      BY DEF AuditsAreRecent
    <3>1. CASE j = k
      BY <2>3, <2>6, <2>7, <2>9, <3>1 DEF Role
    <3>2. CASE j # k
      <4>1. requests'[j] = requests[j] /\ requests[j].step = "audit"
        BY <2>7, <3>2
      <4>2. /\ requests[j].token \in Token /\ requests[j].token.identity = requests[j].identity
            /\ requests[j].since <= hours /\ hours <= requests[j].since + 1
            /\ \/ users[requests[j].identity] >= requests[j].token.role
               \/ loweredAt[requests[j].identity] >= requests[j].since
        BY <4>1 DEF AuditsAreRecent
      <4>3. requests[j].identity \in Identity /\ requests[j].token.role \in Role
        BY <4>2, OfToken
      <4> QED
        BY <2>9, <4>1, <4>2, <4>3
    <3> QED
      BY <3>1, <3>2
  <2> QED
    BY <2>8, <2>11, <2>12, <2>13
<1>4. ASSUME NEW k \in AuthCall, answerRegistration(k) PROVE SessionsInv'
  <2> DEFINE i == requests[k].identity
             role == requests[k].token.role
             token == createSessionToken(i, role)
             r == [requests[k] EXCEPT !.step = "answered", !.token = token]
  <2>1. requests[k] \in RequestState /\ requests[k].step = "audit"
    BY <1>4 DEF answerRegistration, Idle
  <2>2. /\ requests[k].token \in Token /\ i \in Identity /\ role \in Role
        /\ requests[k].since \in 0..MaxHours
        /\ requests[k].since <= hours /\ hours <= requests[k].since + 1
        /\ users[i] >= role \/ loweredAt[i] >= requests[k].since
    BY <2>1, OfToken, OfState DEF AuditsAreRecent
  <2>3. /\ token \in Token /\ token.identity = i /\ token.role = role
        /\ token.exp = hours + SessionHours
    BY <2>2 DEF createSessionToken, Token
  <2>4. requests' = [requests EXCEPT ![k] = r]
    BY <1>4 DEF answerRegistration
  <2>5. r \in RequestState /\ r.step = "answered" /\ r.token = token
    BY <2>1, <2>3 DEF RequestState
  <2>6. loweredAt[i] \in Int
    BY <2>2 DEF NotLowered
  <2>7. Kept(token)
    BY <2>2, <2>3, <2>6 DEF Kept
  <2> HIDE DEF r, token
  <2>8. stored' = stored /\ UNCHANGED <<users, hours, seeded, loweredAt>>
    BY <1>4 DEF answerRegistration
  <2> QED
    BY <2>3, <2>4, <2>5, <2>7, <2>8, AnswerStep
<1>5. ASSUME NEW k \in AuthCall, findUserForLogin(k) PROVE SessionsInv'
  <2> DEFINE i == requests[k].identity
  <2>1. requests[k] \in RequestState /\ i \in Identity
    BY <1>5, OfState DEF findUserForLogin, Idle
  <2>2. CASE users[i] = NoUser
    <3> DEFINE r == [requests[k] EXCEPT !.step = "refused"]
    <3>1. requests' = [requests EXCEPT ![k] = r] /\ UNCHANGED <<users, stored, hours, seeded, loweredAt>>
      BY <1>5, <2>2 DEF findUserForLogin
    <3>2. r \in RequestState /\ r.step = "refused"
      BY <2>1 DEF RequestState
    <3> HIDE DEF r
    <3> QED
      BY <3>1, <3>2, QuietStep
  <2>3. CASE users[i] # NoUser
    <3> DEFINE token == createSessionToken(i, users[i])
               r == [requests[k] EXCEPT !.step = "answered", !.token = token]
    <3>1. requests' = [requests EXCEPT ![k] = r]
      BY <1>5, <2>3 DEF findUserForLogin
    <3>2. /\ token \in Token /\ token.identity = i /\ token.role = users[i] /\ users[i] \in Role
          /\ token.exp = hours + SessionHours
      BY <2>1, <2>3 DEF createSessionToken, Token
    <3>3. r \in RequestState /\ r.step = "answered" /\ r.token = token
      BY <2>1, <3>2 DEF RequestState
    <3>4. Kept(token)
      BY <3>2 DEF Kept, Role
    <3>5. stored' = stored /\ UNCHANGED <<users, hours, seeded, loweredAt>>
      BY <1>5 DEF findUserForLogin
    <3> HIDE DEF r, token
    <3> QED
      BY <3>1, <3>2, <3>3, <3>4, <3>5, AnswerStep
  <2> QED
    BY <2>2, <2>3
<1>6. ASSUME NEW k \in AuthCall, saveSession(k) \/ save(k) PROVE SessionsInv'
  <2> DEFINE r == [requests[k] EXCEPT !.step = "received"]
  <2>1. requests[k] \in RequestState /\ requests[k].step \in {"answered", "received"}
    BY <1>6 DEF saveSession, save, Idle
  <2>2. requests[k].token \in Token /\ Kept(requests[k].token)
    BY <2>1 DEF TokensAreKept
  <2>3. r \in RequestState /\ r.step = "received" /\ r.token = requests[k].token
    BY <2>1 DEF RequestState
  <2>4. requests' = [requests EXCEPT ![k] = r]
    <3>1. CASE saveSession(k)
      BY <3>1 DEF saveSession
    <3>2. CASE save(k)
      <4>1. r = requests[k]
        BY <2>1, <3>2 DEF RequestState, save
      <4> HIDE DEF r
      <4> QED
        BY <3>2, <4>1 DEF save
    <3> QED
      BY <1>6, <3>1, <3>2
  <2>5. stored' = requests[k].token /\ UNCHANGED <<users, hours, seeded, loweredAt>>
    BY <1>6 DEF saveSession, save
  <2> HIDE DEF r
  <2> QED
    BY <2>2, <2>3, <2>4, <2>5, AnswerStep
<1>7. CASE clearToken
  <2>1. \A t : Kept(t) => Kept(t)'
    BY <1>7 DEF clearToken, Kept
  <2>2. SessionsTypeOK'
    BY <1>7 DEF clearToken
  <2> QED
    BY <1>7, <2>1, <2>2
    DEF clearToken, TokensAreKept, StoredIsKept, AuditsAreRecent, LoweredByNow
<1>8. CASE seedUsers
  <2>1. /\ users' \in [Identity -> Role \cup {NoUser}]
        /\ loweredAt' \in [Identity -> {NotLowered} \cup 0..MaxHours]
        /\ UNCHANGED <<requests, stored, hours>> /\ seeded' \in BOOLEAN
    BY <1>8 DEF seedUsers
  <2>2. \A i \in Identity : /\ users'[i] >= users[i] /\ loweredAt'[i] = loweredAt[i]
                            \/ loweredAt'[i] = hours
    BY <1>8 DEF seedUsers, Role, NoUser, NotLowered, SeedAccount
  <2>3. \A i \in Identity : loweredAt'[i] <= hours
    BY <2>2 DEF LoweredByNow
  <2>4. \A t \in Token : Kept(t) => Kept(t)'
    <3> SUFFICES ASSUME NEW t \in Token, Kept(t) PROVE Kept(t)'
      OBVIOUS
    <3>1. t.identity \in Identity /\ t.role \in Role /\ t.exp \in Nat
      BY OfToken
    <3> QED
      BY <2>1, <2>2, <3>1 DEF Kept, Role, NoUser, NotLowered
  <2>5. TokensAreKept' /\ StoredIsKept' /\ LoweredByNow'
    BY <2>1, <2>3, <2>4 DEF TokensAreKept, StoredIsKept, LoweredByNow
  <2>6. AuditsAreRecent'
    <3> SUFFICES ASSUME NEW j \in AuthCall, requests[j].step = "audit"
                 PROVE  \/ users'[requests[j].identity] >= requests[j].token.role
                        \/ loweredAt'[requests[j].identity] >= requests[j].since
      BY <2>1 DEF AuditsAreRecent
    <3>1. /\ requests[j].identity \in Identity /\ requests[j].token.role \in Role
          /\ requests[j].since <= hours
          /\ \/ users[requests[j].identity] >= requests[j].token.role
             \/ loweredAt[requests[j].identity] >= requests[j].since
      BY OfToken DEF AuditsAreRecent
    <3> QED
      BY <2>1, <2>2, <3>1 DEF Role, NoUser
  <2> QED
    BY <2>1, <2>5, <2>6
<1>9. CASE TimePasses
  <2>1. /\ hours' = hours + 1 /\ hours' \in 0..MaxHours
        /\ UNCHANGED <<users, requests, stored, seeded, loweredAt>>
    BY <1>9 DEF TimePasses
  <2>2. \A t \in Token : Kept(t) => Kept(t)'
    BY <2>1, OfToken DEF Kept
  <2>3. TokensAreKept' /\ StoredIsKept' /\ SessionsTypeOK'
    BY <2>1, <2>2 DEF TokensAreKept, StoredIsKept
  <2>4. LoweredByNow'
    BY <2>1 DEF LoweredByNow, NotLowered
  <2>5. AuditsAreRecent'
    BY <1>9, <2>1 DEF TimePasses, AuditsEnd, AuditsAreRecent
  <2> QED
    BY <2>3, <2>4, <2>5
<1>10. CASE UNCHANGED sessvars
  BY <1>10 DEF sessvars, TokensAreKept, StoredIsKept, AuditsAreRecent, LoweredByNow, Kept
<1> QED
  BY <1>1, <1>2, <1>3, <1>4, <1>5, <1>6, <1>7, <1>8, <1>9, <1>10 DEF SessionsNext

(* Whatever registrations, logins and runs of the seed overlap, and whatever *)
(* token of theirs is kept, no route lets it do what its account may not     *)
(* once a token's life has passed since its role was lowered (requireAuth).  *)
THEOREM LoweredRoleEndsProven == SessionsSpec => []LoweredRoleEnds
<1>1. SessionsInit => SessionsInv
  BY SessionsInitInv
<1>2. SessionsInv /\ [SessionsNext]_sessvars => SessionsInv'
  BY StepKeepsInv
<1>3. ASSUME SessionsInv PROVE LoweredRoleEnds
  <2> SUFFICES ASSUME NEW role \in 1..3, requireAuth(stored, role) = "next"
               PROVE  \/ users[stored.identity] >= role
                      \/ hours <= loweredAt[stored.identity] + SessionHours
    BY DEF LoweredRoleEnds
  <2>1. stored # NoToken /\ stored.exp > hours /\ stored.role >= role
    BY DEF requireAuth, assertTemporalClaims
  <2>2. stored \in Token /\ Kept(stored)
    BY <1>3, <2>1 DEF SessionsInv, SessionsTypeOK, StoredIsKept
  <2>3. /\ users[stored.identity] \in Role \cup {NoUser} /\ loweredAt[stored.identity] \in Int
        /\ hours \in Nat /\ stored.exp \in Nat /\ stored.role \in Role
    BY <1>3, <2>2, OfToken, SessionsAssumption DEF SessionsInv, SessionsTypeOK, NotLowered
  <2> QED
    BY <2>1, <2>2, <2>3, SessionsAssumption DEF Kept, Role, NoUser
<1> QED
  BY <1>1, <1>2, <1>3, PTL DEF SessionsSpec

-----------------------------------------------------------------------------
(* The rate limiter *)

Settled(w) == {c \in Within(w) : phase[c] \in {"accepted", "limited"}}
Counted(w) == {c \in Within(w) : phase[c] # "incr"}

(* Neither store counts more calls than have reached it, however often an   *)
(* answer is lost: Redis those that are past its INCR, an instance's memory *)
(* those that have their outcome.                                           *)
CountsAreCalls ==
    \A w \in Window :
        /\ redis[w] <= Cardinality(Counted(w))
        /\ \A i \in Instance : memory[i][w].count <= Cardinality(Settled(w))

(* A call that has arrived is handled by an instance. *)
Handled == \A c \in Call : phase[c] # "unsent" => handler[c] \in Instance

LimitedInv == LimiterTypeOK /\ Handled /\ CountsAreCalls /\ LimitedOnlyAbove

LEMMA CallSets ==
    ASSUME NEW S \in SUBSET Call
    PROVE  IsFiniteSet(S) /\ Cardinality(S) \in Nat
BY LimiterAssumption, FS_Subset, FS_CardinalityType

LEMMA CallSubsets ==
    ASSUME NEW S \in SUBSET Call, NEW T \in SUBSET S
    PROVE  Cardinality(T) <= Cardinality(S)
BY CallSets, FS_Subset

LEMMA OneMoreCall ==
    ASSUME NEW S \in SUBSET Call, NEW T \in SUBSET S, NEW c \in S \ T
    PROVE  Cardinality(T) + 1 <= Cardinality(S)
<1>1. T \cup {c} \in SUBSET S /\ T \in SUBSET Call /\ T \cup {c} \in SUBSET Call
  OBVIOUS
<1>2. Cardinality(T \cup {c}) = Cardinality(T) + 1
  BY <1>1, CallSets, FS_AddElement
<1> QED
  BY <1>1, <1>2, CallSubsets

(* The key a call computes now is that of the window the clock is in. *)
LEMMA DivBounds ==
    ASSUME NEW a \in Nat, NEW w \in Nat \ {0}
    PROVE  a \div w \in Nat /\ (a \div w) * w <= a /\ a < (a \div w) * w + w
OBVIOUS

LEMMA WindowOrder ==
    ASSUME NEW p \in Int, NEW q \in Int, NEW w \in Nat \ {0}, p * w < q * w + w
    PROVE  p <= q
OBVIOUS

LEMMA DivMonotone ==
    ASSUME NEW a \in Nat, NEW b \in Nat, a <= b, NEW w \in Nat \ {0}
    PROVE  a \div w <= b \div w
<1>1. PICK p \in Nat : p = a \div w /\ p * w <= a
  BY DivBounds
<1>2. PICK q \in Nat : q = b \div w /\ b < q * w + w
  BY DivBounds
<1>3. PICK x \in Nat : x = p * w
  OBVIOUS
<1>4. PICK y \in Nat : y = q * w + w
  OBVIOUS
<1>5. p * w < q * w + w
  BY <1>1, <1>2, <1>3, <1>4
<1> QED
  BY <1>1, <1>2, <1>5, WindowOrder

LEMMA TimeInWindow ==
    ASSUME NEW t \in 0..MaxClock
    PROVE  t \div WindowMs \in Window
BY DivBounds, DivMonotone, LimiterAssumption DEF Window

LEMMA BucketIsWindow ==
    ASSUME clock \in 0..MaxClock
    PROVE  /\ bucket \in Window
           /\ bucket * WindowMs <= clock /\ clock < bucket * WindowMs + WindowMs
           /\ bucketResetFor = bucket * WindowMs + WindowMs
           /\ bucketResetFor \in 0..Never /\ bucketResetFor > clock
<1> USE LimiterAssumption
<1>1. PICK q \in Nat : q = bucket /\ q * WindowMs <= clock /\ clock < q * WindowMs + WindowMs
  BY DivBounds DEF bucket
<1>2. q <= MaxClock \div WindowMs /\ MaxClock \div WindowMs \in Nat
  BY <1>1, DivMonotone, DivBounds DEF bucket
<1>3. PICK x \in Nat : x = q * WindowMs
  BY <1>1
<1>4. bucketResetFor = (q + 1) * WindowMs
  BY <1>1 DEF bucketResetFor, bucket
<1>5. (q + 1) * WindowMs = x + WindowMs
  BY <1>1, <1>3
<1> QED
  BY <1>1, <1>2, <1>3, <1>4, <1>5 DEF Window, Never

LEMMA LimiterInitTypes == LimiterInit => LimiterTypeOK
<1> SUFFICES ASSUME LimiterInit PROVE LimiterTypeOK
  OBVIOUS
<1>1. 0 \in Window /\ Never \in 0..Never /\ 0 \in 0..Never
  BY LimiterAssumption, DivBounds DEF Window, Never
<1> QED
  BY <1>1, LimiterAssumption DEF LimiterInit, LimiterTypeOK, noCounter, Phase

(* What counting in memory does, to whatever window's key. *)
LEMMA MemoryCounts ==
    ASSUME LimiterTypeOK, NEW i \in Instance, NEW c \in Call, NEW w \in Window,
           incrementMemoryCounter(i, c, w)
    PROVE  \E n \in Nat \ {0}, at \in 0..Never :
              /\ memory' = [memory EXCEPT ![i][w] = [count |-> n, resetAt |-> at]]
              /\ n <= memory[i][w].count + 1
              /\ memory[i][w].resetAt <= clock => n = 1 /\ at = bucketResetFor
              /\ memory[i][w].resetAt > clock => /\ n = memory[i][w].count + 1
                                                 /\ at = memory[i][w].resetAt
              /\ phase' = [phase EXCEPT ![c] = IF n > Limit THEN "limited" ELSE "accepted"]
<1>1. memory[i][w] \in [count : Nat, resetAt : 0..Never] /\ clock \in 0..MaxClock
  BY DEF LimiterTypeOK
<1>2. PICK n \in Nat, at \in 0..Never : memory[i][w] = [count |-> n, resetAt |-> at]
  BY <1>1
<1>3. bucketResetFor \in 0..Never
  BY <1>1, BucketIsWindow
<1>4. CASE at <= clock
  <2>1. memory' = [memory EXCEPT ![i][w] = [count |-> 1, resetAt |-> bucketResetFor]]
    BY <1>2, <1>4 DEF incrementMemoryCounter
  <2>2. phase' = [phase EXCEPT ![c] = IF 1 > Limit THEN "limited" ELSE "accepted"]
    BY <1>2, <1>4 DEF incrementMemoryCounter, Outcome
  <2>3. 1 <= memory[i][w].count + 1 /\ memory[i][w].resetAt <= clock
    BY <1>1, <1>2, <1>4
  <2> WITNESS 1 \in Nat \ {0}, bucketResetFor \in 0..Never
  <2> QED
    BY <1>1, <1>2, <2>1, <2>2, <2>3
<1>5. CASE ~(at <= clock)
  <2>1. [memory[i][w] EXCEPT !.count = @ + 1] = [count |-> n + 1, resetAt |-> at]
    BY <1>2
  <2>2. memory' = [memory EXCEPT ![i][w] = [count |-> n + 1, resetAt |-> at]]
    BY <1>2, <1>5, <2>1 DEF incrementMemoryCounter
  <2>3. phase' = [phase EXCEPT ![c] = IF n + 1 > Limit THEN "limited" ELSE "accepted"]
    BY <1>2, <1>5, <2>1 DEF incrementMemoryCounter, Outcome
  <2>4. n + 1 \in Nat \ {0} /\ n = memory[i][w].count /\ at = memory[i][w].resetAt
    BY <1>2
  <2> WITNESS n + 1 \in Nat \ {0}, at \in 0..Never
  <2> QED
    BY <1>1, <1>5, <2>2, <2>3, <2>4
<1> QED
  BY <1>4, <1>5

LEMMA LimiterKeepsTypes == LimiterTypeOK /\ Handled /\ [LimiterNext]_lvars => LimiterTypeOK'
<1> SUFFICES ASSUME LimiterTypeOK, Handled, [LimiterNext]_lvars PROVE LimiterTypeOK'
  OBVIOUS
<1>0. /\ clock \in 0..MaxClock
      /\ phase \in [Call -> Phase] /\ handler \in [Call -> Instance \cup {NoInstance}]
      /\ window \in [Call -> Window]
      /\ redis \in [Window -> Nat] /\ expiry \in [Window -> 0..Never]
      /\ memory \in [Instance -> [Window -> [count : Nat, resetAt : 0..Never]]]
      /\ redisFallbackKeys \in [Instance -> SUBSET Window]
  BY DEF LimiterTypeOK
<1>b. bucket \in Window
  BY <1>0, BucketIsWindow
<1> DEFINE Counter == [count : Nat, resetAt : 0..Never]
<1>m. ASSUME NEW i \in Instance, NEW c \in Call, NEW w \in Window,
             incrementMemoryCounter(i, c, w)
      PROVE  memory' \in [Instance -> [Window -> Counter]] /\ phase' \in [Call -> Phase]
  <2>1. PICK n \in Nat \ {0}, at \in 0..Never :
           /\ memory' = [memory EXCEPT ![i][w] = [count |-> n, resetAt |-> at]]
           /\ phase' = [phase EXCEPT ![c] = IF n > Limit THEN "limited" ELSE "accepted"]
    BY <1>m, MemoryCounts
  <2>2. [count |-> n, resetAt |-> at] \in Counter
    OBVIOUS
  <2> HIDE DEF Counter
  <2> QED
    BY <1>0, <2>1, <2>2 DEF Counter, Phase
<1>1. CASE ClockTick
  <2>1. clock + 1 \in 0..MaxClock
    BY <1>0, <1>1, LimiterAssumption DEF ClockTick
  <2>2. Never \in 0..Never
    BY LimiterAssumption DEF Never
  <2>3. redis' \in [Window -> Nat] /\ expiry' \in [Window -> 0..Never]
    BY <1>0, <1>1, <2>2 DEF ClockTick
  <2> QED
    BY <1>0, <1>1, <2>1, <2>3 DEF ClockTick, LimiterTypeOK
<1>2. ASSUME NEW c \in Call, NEW i \in Instance, rateLimit(c, i) PROVE LimiterTypeOK'
  <2>1. memory' \in [Instance -> [Window -> Counter]] /\ phase' \in [Call -> Phase]
    BY <1>0, <1>b, <1>m, <1>2 DEF rateLimit, Phase
  <2> QED
    BY <1>0, <1>b, <1>2, <2>1 DEF rateLimit, LimiterTypeOK
<1>3. ASSUME NEW c \in Call, incrementRedisCounter(c) PROVE LimiterTypeOK'
  BY <1>0, <1>3 DEF incrementRedisCounter, Outcome, Phase, LimiterTypeOK
<1>4. ASSUME NEW c \in Call, setExpiry(c) PROVE LimiterTypeOK'
  <2>1. clock + WindowMs \in 0..Never
    BY <1>0, LimiterAssumption DEF Never
  <2> QED
    BY <1>0, <1>4, <2>1 DEF setExpiry, Outcome, Phase, LimiterTypeOK
<1>5. ASSUME NEW c \in Call, redisUnavailable(c) PROVE LimiterTypeOK'
  BY <1>0, <1>5 DEF redisUnavailable, Phase, LimiterTypeOK
<1>6. ASSUME NEW c \in Call, fallback(c) PROVE LimiterTypeOK'
  <2>1. memory' \in [Instance -> [Window -> Counter]] /\ phase' \in [Call -> Phase]
    BY <1>0, <1>m, <1>6 DEF fallback, Handled
  <2> QED
    BY <1>0, <1>6, <2>1 DEF fallback, LimiterTypeOK
<1>7. CASE UNCHANGED lvars
  BY <1>0, <1>7 DEF lvars, LimiterTypeOK
<1> QED
  BY <1>1, <1>2, <1>3, <1>4, <1>5, <1>6, <1>7 DEF LimiterNext

Final == {"accepted", "limited"}

(* A call keeps its window, and its outcome. *)
LEMMA CallsMoveOn ==
    ASSUME LimiterTypeOK, [LimiterNext]_lvars, NEW c \in Call
    PROVE  /\ phase[c] # "unsent" => phase'[c] # "unsent" /\ window'[c] = window[c]
           /\ phase[c] \notin {"unsent", "incr"} => phase'[c] \notin {"unsent", "incr"}
           /\ phase[c] \in Final => phase'[c] = phase[c]
<1> DEFINE Goal == /\ phase[c] # "unsent" => phase'[c] # "unsent" /\ window'[c] = window[c]
                   /\ phase[c] \notin {"unsent", "incr"} => phase'[c] \notin {"unsent", "incr"}
                   /\ phase[c] \in Final => phase'[c] = phase[c]
<1>0. phase \in [Call -> Phase] /\ window \in [Call -> Window]
  BY DEF LimiterTypeOK
<1>1. CASE ClockTick
  BY <1>1 DEF ClockTick
<1>2. ASSUME NEW d \in Call, NEW i \in Instance, rateLimit(d, i) PROVE Goal
  BY <1>0, <1>2 DEF rateLimit, incrementMemoryCounter, Outcome, Final
<1>3. ASSUME NEW d \in Call, incrementRedisCounter(d) PROVE Goal
  BY <1>0, <1>3 DEF incrementRedisCounter, Outcome, Final
<1>4. ASSUME NEW d \in Call, setExpiry(d) PROVE Goal
  BY <1>0, <1>4 DEF setExpiry, Outcome, Final
<1>5. ASSUME NEW d \in Call, redisUnavailable(d) PROVE Goal
  BY <1>0, <1>5 DEF redisUnavailable, Final
<1>6. ASSUME NEW d \in Call, fallback(d) PROVE Goal
  BY <1>0, <1>6 DEF fallback, incrementMemoryCounter, Outcome, Final
<1>7. CASE UNCHANGED lvars
  BY <1>7 DEF lvars
<1> QED
  BY <1>1, <1>2, <1>3, <1>4, <1>5, <1>6, <1>7 DEF LimiterNext

LEMMA SetsGrow ==
    ASSUME LimiterTypeOK, [LimiterNext]_lvars, NEW w \in Window
    PROVE  /\ Within(w) \subseteq Within(w)' /\ Within(w)' \subseteq Call
           /\ Counted(w) \subseteq Counted(w)' /\ Counted(w)' \subseteq Within(w)'
           /\ Settled(w) \subseteq Settled(w)' /\ Settled(w)' \subseteq Within(w)'
BY CallsMoveOn DEF Within, Counted, Settled, Final

(* The counts that a call finds, with its own, are of calls of the window.  *)
LEMMA CountsStay ==
    ASSUME LimiterTypeOK, CountsAreCalls, [LimiterNext]_lvars, NEW w \in Window
    PROVE  /\ redis[w] <= Cardinality(Counted(w)')
           /\ \A i \in Instance : memory[i][w].count <= Cardinality(Settled(w)')
<1>1. /\ Cardinality(Counted(w)) <= Cardinality(Counted(w)')
      /\ Cardinality(Settled(w)) <= Cardinality(Settled(w)')
      /\ Cardinality(Counted(w)) \in Nat /\ Cardinality(Counted(w)') \in Nat
      /\ Cardinality(Settled(w)) \in Nat /\ Cardinality(Settled(w)') \in Nat
  <2>1. Counted(w)' \in SUBSET Call /\ Settled(w)' \in SUBSET Call
    BY SetsGrow
  <2>2. Counted(w) \in SUBSET Counted(w)' /\ Settled(w) \in SUBSET Settled(w)'
    BY SetsGrow
  <2>3. Counted(w) \in SUBSET Call /\ Settled(w) \in SUBSET Call
    BY <2>1, <2>2
  <2> QED
    BY <2>1, <2>2, <2>3, CallSubsets, CallSets
<1>2. redis[w] \in Nat /\ \A i \in Instance : memory[i][w].count \in Nat
  BY DEF LimiterTypeOK
<1>3. redis[w] <= Cardinality(Counted(w))
  BY DEF CountsAreCalls
<1>4. ASSUME NEW i \in Instance PROVE memory[i][w].count <= Cardinality(Settled(w)')
  <2>1. memory[i][w].count <= Cardinality(Settled(w))
    BY DEF CountsAreCalls
  <2> QED
    BY <1>1, <1>2, <2>1
<1> QED
  BY <1>1, <1>2, <1>3, <1>4

(* The memory count that gives a call its outcome. *)
LEMMA MemoryKeepsCounts ==
    ASSUME LimiterTypeOK, LimiterTypeOK', Handled, CountsAreCalls, [LimiterNext]_lvars,
           NEW i \in Instance, NEW c \in Call, NEW w \in Window, phase[c] \notin Final,
           window'[c] = w, incrementMemoryCounter(i, c, w), redis' = redis
    PROVE  /\ CountsAreCalls'
           /\ phase'[c] = "limited" => Cardinality(Within(w)') > Limit
           /\ \A d \in Call \ {c} : phase'[d] = phase[d]
<1>0. /\ phase \in [Call -> Phase]
      /\ memory \in [Instance -> [Window -> [count : Nat, resetAt : 0..Never]]]
  BY DEF LimiterTypeOK
<1>1. PICK n \in Nat \ {0}, at \in 0..Never :
           /\ memory' = [memory EXCEPT ![i][w] = [count |-> n, resetAt |-> at]]
           /\ n <= memory[i][w].count + 1
           /\ phase' = [phase EXCEPT ![c] = IF n > Limit THEN "limited" ELSE "accepted"]
  BY MemoryCounts
<1>2. c \in Settled(w)' \ Settled(w)
  BY <1>0, <1>1 DEF Settled, Within, Final
<1>3. Cardinality(Settled(w)) + 1 <= Cardinality(Settled(w)')
  BY <1>2, SetsGrow, OneMoreCall
<1>4. Cardinality(Settled(w)') <= Cardinality(Within(w)')
  BY SetsGrow, CallSubsets
<1>5. /\ Cardinality(Settled(w)) \in Nat /\ Cardinality(Settled(w)') \in Nat
      /\ Cardinality(Within(w)') \in Nat
  BY SetsGrow, CallSets
<1>6. memory[i][w].count \in Nat /\ memory[i][w].count <= Cardinality(Settled(w))
  BY <1>0 DEF CountsAreCalls
<1>7. n <= Cardinality(Settled(w)')
  BY <1>1, <1>3, <1>5, <1>6
<1>8. ASSUME NEW v \in Window, NEW j \in Instance
      PROVE  memory'[j][v].count <= Cardinality(Settled(v)')
  <2>1. CASE j = i /\ v = w
    BY <1>0, <1>1, <1>7, <2>1
  <2>2. CASE ~(j = i /\ v = w)
    <3>1. memory'[j][v] = memory[j][v]
      BY <1>0, <1>1, <2>2
    <3> QED
      BY <3>1, CountsStay
  <2> QED
    BY <2>1, <2>2
<1>9. CountsAreCalls'
  BY <1>8, CountsStay DEF CountsAreCalls
<1>10. phase'[c] = "limited" => Cardinality(Within(w)') > Limit
  BY <1>0, <1>1, <1>4, <1>5, <1>7, LimiterAssumption
<1> QED
  BY <1>0, <1>1, <1>9, <1>10

(* A call that is limited already had more than the limit beside it. *)
LEMMA LimitedStays ==
    ASSUME LimiterTypeOK, LimitedOnlyAbove, [LimiterNext]_lvars,
           NEW c \in Call, phase[c] = "limited"
    PROVE  Cardinality(Within(window[c]))' > Limit
<1>1. window'[c] = window[c] /\ window[c] \in Window
  BY CallsMoveOn DEF LimiterTypeOK
<1>2. Cardinality(Within(window[c])) > Limit
  BY DEF LimitedOnlyAbove
<1>3. PICK w \in Window : w = window[c]
  BY <1>1
<1>4. Within(w) \in SUBSET Within(w)' /\ Within(w)' \in SUBSET Call /\ Within(w) \in SUBSET Call
  BY SetsGrow
<1>5. /\ Cardinality(Within(w)) <= Cardinality(Within(w)')
      /\ Cardinality(Within(w)) \in Nat /\ Cardinality(Within(w)') \in Nat
  BY <1>4, CallSubsets, CallSets
<1> QED
  BY <1>1, <1>2, <1>3, <1>5, LimiterAssumption

LEMMA LimiterKeepsHandled ==
    LimiterTypeOK /\ Handled /\ [LimiterNext]_lvars => Handled'
<1> SUFFICES ASSUME LimiterTypeOK, Handled, [LimiterNext]_lvars PROVE Handled'
  OBVIOUS
<1>0. phase \in [Call -> Phase] /\ handler \in [Call -> Instance \cup {NoInstance}]
  BY DEF LimiterTypeOK
<1>1. \A c \in Call : handler'[c] = handler[c] \/ handler'[c] \in Instance
  BY <1>0 DEF LimiterNext, ClockTick, rateLimit, incrementRedisCounter, setExpiry,
              redisUnavailable, fallback, lvars
<1>2. \A c \in Call : phase[c] = "unsent" /\ phase'[c] # "unsent" => handler'[c] \in Instance
  BY <1>0 DEF LimiterNext, ClockTick, rateLimit, incrementRedisCounter, setExpiry,
              redisUnavailable, fallback, lvars, incrementMemoryCounter, Outcome
<1> QED
  BY <1>1, <1>2 DEF Handled

LEMMA LimiterKeepsLimited == LimitedInv /\ [LimiterNext]_lvars => LimitedInv'
<1> SUFFICES ASSUME LimiterTypeOK, Handled, CountsAreCalls, LimitedOnlyAbove,
                    [LimiterNext]_lvars
             PROVE  LimiterTypeOK' /\ Handled' /\ CountsAreCalls' /\ LimitedOnlyAbove'
  BY DEF LimitedInv
<1>0. /\ phase \in [Call -> Phase] /\ handler \in [Call -> Instance \cup {NoInstance}]
      /\ window \in [Call -> Window] /\ redis \in [Window -> Nat]
  BY DEF LimiterTypeOK
<1>t. LimiterTypeOK'
  BY LimiterKeepsTypes
<1>h. Handled'
  BY LimiterKeepsHandled
<1> DEFINE Goal == CountsAreCalls' /\ LimitedOnlyAbove'
<1>l. ASSUME \A c \in Call : phase'[c] = "limited" =>
                phase[c] = "limited" \/ Cardinality(Within(window[c]))' > Limit
      PROVE  LimitedOnlyAbove'
  BY <1>l, LimitedStays DEF LimitedOnlyAbove
<1>s. ASSUME redis' = redis /\ memory' = memory PROVE CountsAreCalls'
  BY <1>s, CountsStay DEF CountsAreCalls
<1>1. ASSUME ClockTick PROVE Goal
  <2>1. \A w \in Window : redis'[w] \in {0, redis[w]}
    BY <1>0, <1>1 DEF ClockTick
  <2>2. \A w \in Window : Cardinality(Counted(w)') \in Nat
    BY SetsGrow, CallSets
  <2>3. CountsAreCalls'
    BY <1>0, <1>1, <2>1, <2>2, CountsStay DEF ClockTick, CountsAreCalls
  <2> QED
    BY <1>1, <1>l, <2>3 DEF ClockTick
<1>2. ASSUME NEW c \in Call, NEW i \in Instance, rateLimit(c, i) PROVE Goal
  <2>1. CASE bucket \in redisFallbackKeys[i]
    <3>1. PICK w \in Window : w = bucket
      BY BucketIsWindow DEF LimiterTypeOK
    <3>2. /\ incrementMemoryCounter(i, c, w) /\ window'[c] = w /\ phase[c] \notin Final
          /\ redis' = redis
      BY <1>0, <1>2, <2>1, <3>1 DEF rateLimit, Final
    <3>3. CountsAreCalls' /\ (phase'[c] = "limited" => Cardinality(Within(w)') > Limit)
          /\ \A d \in Call \ {c} : phase'[d] = phase[d]
      BY <1>t, <3>2, MemoryKeepsCounts
    <3> QED
      BY <1>l, <3>2, <3>3
  <2>2. CASE bucket \notin redisFallbackKeys[i]
    <3>1. \A d \in Call : phase'[d] = phase[d] \/ phase'[d] = "incr"
      BY <1>0, <1>2, <2>2 DEF rateLimit
    <3> QED
      BY <1>2, <2>2, <1>l, <1>s, <3>1 DEF rateLimit
  <2> QED
    BY <2>1, <2>2
<1>3. ASSUME NEW c \in Call, incrementRedisCounter(c) PROVE Goal
  <2>1. PICK w \in Window : w = window[c]
    BY <1>0
  <2>2. PICK n \in Nat : n = redis[w] + 1
    BY <1>0
  <2>3. /\ redis' = [redis EXCEPT ![w] = n] /\ UNCHANGED <<window, memory>> /\ phase[c] = "incr"
        /\ phase'[c] \in {"expire", "limited", "accepted", "failed"}
        /\ phase'[c] = "limited" => n > Limit
        /\ \A d \in Call \ {c} : phase'[d] = phase[d]
    BY <1>0, <1>3, <2>1, <2>2 DEF incrementRedisCounter, Outcome
  <2>4. c \in Counted(w)' \ Counted(w)
    BY <2>1, <2>3 DEF Counted, Within
  <2>5. Cardinality(Counted(w)) + 1 <= Cardinality(Counted(w)')
    BY <2>4, SetsGrow, OneMoreCall
  <2>6. Cardinality(Counted(w)') <= Cardinality(Within(w)')
    BY SetsGrow, CallSubsets
  <2>7. /\ Cardinality(Counted(w)) \in Nat /\ Cardinality(Counted(w)') \in Nat
        /\ Cardinality(Within(w)') \in Nat
    BY SetsGrow, CallSets
  <2>8. redis[w] \in Nat /\ redis[w] <= Cardinality(Counted(w))
    BY <1>0 DEF CountsAreCalls
  <2>9. n <= Cardinality(Counted(w)')
    BY <2>2, <2>5, <2>7, <2>8
  <2>10. \A v \in Window : redis'[v] = IF v = w THEN n ELSE redis[v]
    BY <1>0, <2>3
  <2>11. CountsAreCalls'
    BY <2>3, <2>9, <2>10, CountsStay DEF CountsAreCalls
  <2>12. phase'[c] = "limited" => Cardinality(Within(w)') > Limit
    BY <2>2, <2>3, <2>6, <2>7, <2>9, LimiterAssumption
  <2> QED
    BY <1>l, <2>1, <2>3, <2>11, <2>12
<1>4. ASSUME NEW c \in Call, setExpiry(c) PROVE Goal
  <2>1. PICK w \in Window : w = window[c]
    BY <1>0
  <2>2. /\ phase'[c] = "limited" => 1 > Limit
        /\ \A d \in Call \ {c} : phase'[d] = phase[d]
        /\ window' = window /\ phase'[c] # "unsent"
    BY <1>0, <1>4 DEF setExpiry, Outcome
  <2>3. c \in Within(w)'
    BY <2>1, <2>2 DEF Within
  <2>4. Within(w)' \in SUBSET Call /\ {c} \in SUBSET Within(w)'
    BY <2>3, SetsGrow
  <2>5. Cardinality({c}) = 1
    BY FS_Singleton
  <2>6. Cardinality({c}) <= Cardinality(Within(w)') /\ Cardinality(Within(w)') \in Nat
    BY <2>4, CallSubsets, CallSets
  <2>7. phase'[c] = "limited" => Cardinality(Within(window[c]))' > Limit
    BY <2>1, <2>2, <2>5, <2>6, LimiterAssumption
  <2> QED
    BY <1>4, <1>l, <1>s, <2>2, <2>7 DEF setExpiry
<1>5. ASSUME NEW c \in Call, redisUnavailable(c) PROVE Goal
  <2>1. \A d \in Call : phase'[d] = phase[d] \/ phase'[d] = "failed"
    BY <1>0, <1>5 DEF redisUnavailable
  <2> QED
    BY <1>5, <1>l, <1>s, <2>1 DEF redisUnavailable
<1>6. ASSUME NEW c \in Call, fallback(c) PROVE Goal
  <2>1. PICK w \in Window : w = window[c]
    BY <1>0
  <2>2. PICK i \in Instance : i = handler[c]
    BY <1>6 DEF fallback, Handled
  <2>3. /\ incrementMemoryCounter(i, c, w) /\ window'[c] = w /\ phase[c] \notin Final
        /\ redis' = redis
    BY <1>6, <2>1, <2>2 DEF fallback, Final
  <2>4. CountsAreCalls' /\ (phase'[c] = "limited" => Cardinality(Within(w)') > Limit)
        /\ \A d \in Call \ {c} : phase'[d] = phase[d]
    BY <1>t, <2>3, MemoryKeepsCounts
  <2> QED
    BY <1>l, <2>3, <2>4
<1>7. ASSUME UNCHANGED lvars PROVE Goal
  BY <1>7, <1>l, <1>s DEF lvars
<1>8. Goal
  BY <1>1, <1>2, <1>3, <1>4, <1>5, <1>6, <1>7 DEF LimiterNext
<1> QED
  BY <1>t, <1>h, <1>8

(* A 429 is deserved: the identity sent more than the limit within the      *)
(* window, whichever stores counted its calls and whatever answers of Redis *)
(* were lost (incrementRateLimitCounter, middleware/rate-limit.ts).         *)
THEOREM LimitedOnlyAboveProven == LimiterSpec => []LimitedOnlyAbove
<1>1. LimiterInit => LimitedInv
  <2> SUFFICES ASSUME LimiterInit PROVE LimitedInv
    OBVIOUS
  <2>1. \A w \in Window : Cardinality(Counted(w)) \in Nat /\ Cardinality(Settled(w)) \in Nat
    BY CallSets DEF Counted, Settled, Within
  <2>2. CountsAreCalls
    BY <2>1 DEF LimiterInit, CountsAreCalls, noCounter
  <2> QED
    BY <2>2, LimiterInitTypes DEF LimitedInv, LimiterInit, Handled, LimitedOnlyAbove
<1>2. LimitedInv /\ [LimiterNext]_lvars => LimitedInv'
  BY LimiterKeepsLimited
<1>3. LimitedInv => LimitedOnlyAbove
  BY DEF LimitedInv
<1> QED
  BY <1>1, <1>2, <1>3, PTL DEF LimiterSpec

-----------------------------------------------------------------------------
(* What one store lets into the current window. *)

ByMemory(w, R, i) == {c \in Accepted(w) \ R : handler[c] = i}

(* R is those of a window's calls that Redis has counted and that it lets   *)
(* in, or will once the key has its time to live.                           *)
CountedByRedis(w, R) ==
    /\ \A c \in Within(w) : phase[c] = "expire" => c \in R
    /\ \A c \in R : phase[c] \in {"accepted", "expire"}
    /\ Cardinality(R) <= redis[w]
    /\ Limit > 0 => Cardinality(R) <= Limit

CountedByMemory(w, R, i) ==
    /\ Cardinality(ByMemory(w, R, i)) <= memory[i][w].count
    /\ Cardinality(ByMemory(w, R, i)) <= Limit
    /\ ByMemory(w, R, i) # {} => w \in redisFallbackKeys[i]

EachStoreKeepsLimit ==
    \E R \in SUBSET Within(bucket) :
        /\ CountedByRedis(bucket, R)
        /\ \A i \in Instance : CountedByMemory(bucket, R, i)

NoneIfZero == Limit = 0 => \A c \in Call : phase[c] # "accepted"

(* Nothing is counted ahead of its window, and no count of the current      *)
(* window ends before it.                                                   *)
CountersLast ==
    /\ \A c \in Call : phase[c] # "unsent" => window[c] <= bucket
    /\ \A w \in Window : expiry[w] >= w * WindowMs + WindowMs
    /\ \A i \in Instance, w \in Window :
          /\ w > bucket => memory[i][w] = noCounter
          /\ w = bucket => memory[i][w] = noCounter \/ memory[i][w].resetAt = bucketResetFor

StoresInv == LimiterTypeOK /\ Handled /\ CountersLast /\ NoneIfZero /\ EachStoreKeepsLimit

(* The calls of |F| instances, of which each has at most the limit. *)
LEMMA PerInstance ==
    ASSUME NEW F \in SUBSET Instance, NEW S \in SUBSET Call,
           \A c \in S : handler[c] \in F,
           \A i \in F : Cardinality({c \in S : handler[c] = i}) <= Limit
    PROVE  Cardinality(F) \in Nat /\ Cardinality(S) <= Cardinality(F) * Limit
<1> DEFINE Of(i) == {c \in S : handler[c] = i}
           g == [i \in F |-> CHOOSE b \in Bijection(1..Cardinality(Of(i)), Of(i)) : TRUE]
           D == {d \in F \X (1..Limit) : d[2] \in 1..Cardinality(Of(d[1]))}
           f == [d \in D |-> g[d[1]][d[2]]]
<1>1. ASSUME NEW i \in F
      PROVE  /\ Cardinality(Of(i)) \in Nat
             /\ g[i] \in Bijection(1..Cardinality(Of(i)), Of(i))
  <2>1. Of(i) \in SUBSET Call
    OBVIOUS
  <2>2. IsFiniteSet(Of(i)) /\ Cardinality(Of(i)) \in Nat
    BY <2>1, CallSets
  <2>3. Bijection(1..Cardinality(Of(i)), Of(i)) # {}
    BY <2>2, FS_CardinalityType DEF ExistsBijection
  <2> QED
    BY <2>2, <2>3
<1>2. IsFiniteSet(F) /\ Cardinality(F) \in Nat
  BY LimiterAssumption, FS_Subset, FS_CardinalityType
<1>3. IsFiniteSet(1..Limit) /\ Cardinality(1..Limit) = Limit
  BY LimiterAssumption, FS_Interval
<1>4. IsFiniteSet(F \X (1..Limit)) /\ Cardinality(F \X (1..Limit)) = Cardinality(F) * Limit
  BY <1>2, <1>3, FS_Product
<1>5. D \in SUBSET (F \X (1..Limit))
  OBVIOUS
<1>6. IsFiniteSet(D) /\ Cardinality(D) <= Cardinality(F) * Limit /\ Cardinality(D) \in Nat
  <2> HIDE DEF D
  <2>1. IsFiniteSet(D) /\ Cardinality(D) <= Cardinality(F \X (1..Limit))
    BY <1>4, <1>5, FS_Subset
  <2> QED
    BY <1>4, <2>1, FS_CardinalityType
<1>7. f \in Surjection(D, S)
  <2>1. ASSUME NEW d \in D PROVE f[d] \in S
    <3>1. d[1] \in F /\ d[2] \in 1..Cardinality(Of(d[1]))
      OBVIOUS
    <3>2. g[d[1]] \in [1..Cardinality(Of(d[1])) -> Of(d[1])]
      BY <1>1, <3>1 DEF Bijection, Injection
    <3>3. g[d[1]][d[2]] \in Of(d[1])
      BY <3>1, <3>2
    <3> QED
      BY <3>3
  <2>2. ASSUME NEW c \in S PROVE \E d \in D : f[d] = c
    <3>1. PICK i \in F : i = handler[c]
      OBVIOUS
    <3>2. c \in Of(i)
      BY <3>1
    <3>3. PICK k \in 1..Cardinality(Of(i)) : g[i][k] = c
      BY <1>1, <3>2 DEF Bijection, Surjection
    <3>4. k \in 1..Limit
      <4>1. Cardinality(Of(i)) <= Limit /\ Cardinality(Of(i)) \in Nat
        BY <1>1
      <4> HIDE DEF Of
      <4> QED
        BY <3>3, <4>1, LimiterAssumption
    <3>5. <<i, k>> \in D
      BY <3>3, <3>4
    <3> QED
      BY <3>3, <3>5
  <2> QED
    BY <2>1, <2>2 DEF Surjection
<1>8. Cardinality(S) <= Cardinality(D) /\ Cardinality(S) \in Nat
  BY <1>6, <1>7, FS_Surjection, CallSets
<1>9. Cardinality(F) * Limit \in Nat
  BY <1>2, LimiterAssumption
<1> HIDE DEF D
<1> QED
  BY <1>2, <1>6, <1>8, <1>9

LEMMA StoresBound == StoresInv => LimitPerStore
<1> SUFFICES ASSUME StoresInv, NEW w \in Window, clock \div WindowMs = w
             PROVE  Cardinality(Accepted(w)) <=
                       Limit * (1 + Cardinality({i \in Instance : w \in redisFallbackKeys[i]}))
  BY DEF LimitPerStore
<1>1. PICK R \in SUBSET Within(w) :
         CountedByRedis(w, R) /\ \A i \in Instance : CountedByMemory(w, R, i)
  BY DEF StoresInv, EachStoreKeepsLimit, bucket
<1> DEFINE F == {i \in Instance : w \in redisFallbackKeys[i]}
           S == Accepted(w) \ R
<1>2. S \in SUBSET Call /\ Accepted(w) \in SUBSET (R \cup S) /\ R \in SUBSET Call
  BY DEF Accepted, Within
<1>3. \A c \in S : handler[c] \in F
  <2> SUFFICES ASSUME NEW c \in S PROVE handler[c] \in F
    OBVIOUS
  <2>1. PICK i \in Instance : i = handler[c]
    BY DEF StoresInv, Handled, Accepted, Within
  <2>2. c \in ByMemory(w, R, i)
    BY <2>1 DEF ByMemory
  <2> QED
    BY <1>1, <2>1, <2>2 DEF CountedByMemory
<1>4. \A i \in F : Cardinality({c \in S : handler[c] = i}) <= Limit
  BY <1>1 DEF CountedByMemory, ByMemory
<1>5. F \in SUBSET Instance
  OBVIOUS
<1> HIDE DEF F, S
<1>6. Cardinality(F) \in Nat /\ Cardinality(S) <= Cardinality(F) * Limit
  BY <1>2, <1>3, <1>4, <1>5, PerInstance
<1>7. CASE Limit = 0
  <2>1. Accepted(w) = {}
    BY <1>7 DEF StoresInv, NoneIfZero, Accepted, Within
  <2> QED
    BY <1>6, <1>7, <2>1, FS_EmptySet DEF F
<1>8. CASE Limit # 0
  <2>1. Cardinality(R) <= Limit
    BY <1>1, <1>8, LimiterAssumption DEF CountedByRedis
  <2>2. IsFiniteSet(R) /\ IsFiniteSet(S) /\ Cardinality(R) \in Nat /\ Cardinality(S) \in Nat
    BY <1>2, CallSets
  <2>3. R \cup S \in SUBSET Call /\ R \cap S \in SUBSET Call
    BY <1>2
  <2>4. Cardinality(R \cup S) = Cardinality(R) + Cardinality(S) - Cardinality(R \cap S)
    BY <2>2, FS_Union
  <2>5. Cardinality(R \cap S) \in Nat /\ Cardinality(R \cup S) \in Nat
    BY <2>3, CallSets
  <2>6. Cardinality(Accepted(w)) <= Cardinality(R \cup S)
    BY <1>2, <2>3, CallSubsets
  <2>7. Cardinality(Accepted(w)) \in Nat
    BY CallSets DEF Accepted, Within
  <2>8. PICK x \in Nat : x = Cardinality(F) * Limit
    BY <1>6, LimiterAssumption
  <2>9. Limit * (1 + Cardinality(F)) = Limit + x
    BY <1>6, <2>8, LimiterAssumption
  <2>10. Cardinality(Accepted(w)) <= Limit + x
    BY <1>6, <2>1, <2>2, <2>4, <2>5, <2>6, <2>7, <2>8, LimiterAssumption
  <2> QED
    BY <2>9, <2>10 DEF F
<1> QED
  BY <1>7, <1>8

LEMMA CountersInit == LimiterInit => StoresInv
<1> SUFFICES ASSUME LimiterInit PROVE StoresInv
  OBVIOUS
<1>0. LimiterTypeOK
  BY LimiterInitTypes
<1>1. PICK w \in Window : w = bucket
  BY <1>0, BucketIsWindow DEF LimiterTypeOK
<1>2. ASSUME NEW v \in Window PROVE expiry[v] >= v * WindowMs + WindowMs
  <2>1. v \in Nat /\ MaxClock \div WindowMs \in Nat /\ v <= MaxClock \div WindowMs
    BY DivBounds, LimiterAssumption DEF Window
  <2>2. PICK q \in Nat : q = MaxClock \div WindowMs /\ q * WindowMs <= MaxClock
    BY DivBounds, LimiterAssumption
  <2>3. v * WindowMs <= q * WindowMs
    BY <2>1, <2>2, LimiterAssumption
  <2>4. PICK x \in Nat, y \in Nat : x = v * WindowMs /\ y = q * WindowMs
    BY <2>1, <2>2, LimiterAssumption
  <2> QED
    BY <2>2, <2>3, <2>4, LimiterAssumption DEF LimiterInit, Never
<1>3. Within(w) = {} /\ Accepted(w) = {}
  BY DEF LimiterInit, Within, Accepted
<1>4. CountedByRedis(w, {}) /\ \A i \in Instance : CountedByMemory(w, {}, i)
  <2>1. \A i \in Instance : ByMemory(w, {}, i) = {}
    BY <1>3 DEF ByMemory
  <2>2. {} \in SUBSET Within(w) /\ Cardinality({}) = 0
    BY FS_EmptySet
  <2>3. redis[w] = 0 /\ \A i \in Instance : memory[i][w].count = 0
    BY DEF LimiterInit, noCounter
  <2>4. CountedByRedis(w, {})
    BY <1>3, <2>2, <2>3, LimiterAssumption DEF CountedByRedis
  <2>5. \A i \in Instance : CountedByMemory(w, {}, i)
    BY <2>1, <2>2, <2>3, LimiterAssumption DEF CountedByMemory
  <2> QED
    BY <2>4, <2>5
<1>5. EachStoreKeepsLimit
  BY <1>1, <1>4 DEF EachStoreKeepsLimit
<1>6. CountersLast
  BY <1>2 DEF LimiterInit, CountersLast
<1> QED
  BY <1>0, <1>5, <1>6 DEF StoresInv, LimiterInit, Handled, NoneIfZero

(* The clock stays in the window, or enters one that nothing has counted in.*)
LEMMA ClockKeepsCounters ==
    ASSUME LimiterTypeOK, CountersLast, ClockTick, LimiterTypeOK'
    PROVE  CountersLast' /\ (bucket' = bucket \/ bucket' > bucket)
<1>0. clock \in 0..MaxClock /\ clock' = clock + 1 /\ clock + 1 \in 0..MaxClock
  BY DEF LimiterTypeOK, ClockTick
<1>1. bucket \in Window /\ bucketResetFor = bucket * WindowMs + WindowMs
  BY <1>0, BucketIsWindow
<1>2. /\ bucket' \in Window /\ bucketResetFor' = bucket' * WindowMs + WindowMs
  <2>1. bucket' = (clock + 1) \div WindowMs
    BY <1>0 DEF bucket
  <2>2. bucket' \in Window
    BY <1>0, <2>1, TimeInWindow
  <2>3. bucketResetFor' = (bucket' + 1) * WindowMs
    BY <1>0 DEF bucketResetFor, bucket
  <2>4. PICK n \in Nat : n = bucket'
    BY <2>2 DEF Window
  <2> QED
    BY <2>2, <2>3, <2>4, LimiterAssumption
<1>3. bucket <= bucket'
  <2>1. clock \div WindowMs <= (clock + 1) \div WindowMs
    BY <1>0, DivMonotone, LimiterAssumption
  <2> QED
    BY <1>0, <2>1 DEF bucket
<1>4. Window \subseteq Nat
  BY DEF Window
<1>5. PICK b \in Nat : b = bucket
  BY <1>1, <1>4
<1>6. PICK n \in Nat : n = bucket' /\ b <= n
  BY <1>2, <1>3, <1>4, <1>5
<1>7. ASSUME NEW c \in Call, phase'[c] # "unsent" PROVE window'[c] <= n
  <2>1. window'[c] = window[c] /\ phase[c] # "unsent"
    BY <1>7 DEF ClockTick
  <2>2. window[c] <= b /\ window[c] \in Nat
    BY <1>4, <1>5, <2>1 DEF CountersLast, LimiterTypeOK
  <2> QED
    BY <1>6, <2>1, <2>2
<1>8. \A w \in Window : expiry'[w] >= w * WindowMs + WindowMs
  <2> SUFFICES ASSUME NEW w \in Window PROVE expiry'[w] >= w * WindowMs + WindowMs
    OBVIOUS
  <2>1. expiry[w] >= w * WindowMs + WindowMs /\ expiry[w] \in 0..Never
    BY DEF CountersLast, LimiterTypeOK
  <2>2. expiry'[w] \in {Never, expiry[w]}
    BY DEF ClockTick
  <2>3. PICK x \in Nat : x = w * WindowMs
    BY <1>4, LimiterAssumption
  <2> QED
    BY <2>1, <2>2, <2>3, LimiterAssumption DEF Never
<1>9. ASSUME NEW i \in Instance, NEW w \in Window
      PROVE  /\ w > n => memory'[i][w] = noCounter
             /\ w = n => memory'[i][w] = noCounter \/ memory'[i][w].resetAt = bucketResetFor'
  <2>1. memory' = memory
    BY DEF ClockTick
  <2>2. CASE n = b
    <3>1. bucketResetFor' = bucketResetFor
      BY <1>1, <1>2, <1>5, <1>6, <2>2
    <3> QED
      BY <1>5, <2>1, <2>2, <3>1 DEF CountersLast
  <2>3. CASE n > b
    <3>1. w >= n => w > b
      BY <1>4, <2>3
    <3>2. w > b => memory[i][w] = noCounter
      BY <1>5 DEF CountersLast
    <3>3. w > n \/ w = n => w >= n
      BY <1>4
    <3> QED
      BY <2>1, <3>1, <3>2, <3>3
  <2> QED
    BY <1>6, <2>2, <2>3
<1>10. CountersLast'
  BY <1>6, <1>7, <1>8, <1>9 DEF CountersLast
<1> QED
  BY <1>5, <1>6, <1>10

LEMMA ClockKeepsStores ==
    ASSUME StoresInv, ClockTick, LimiterTypeOK'
    PROVE  EachStoreKeepsLimit'
<1>0. LimiterTypeOK /\ CountersLast /\ clock \in 0..MaxClock /\ clock' = clock + 1
  BY DEF StoresInv, LimiterTypeOK, ClockTick
<1>1. PICK b \in Window : b = bucket
  BY <1>0, BucketIsWindow
<1>2. PICK R \in SUBSET Within(b) :
         CountedByRedis(b, R) /\ \A i \in Instance : CountedByMemory(b, R, i)
  BY <1>1 DEF StoresInv, EachStoreKeepsLimit
<1>3. UNCHANGED <<phase, handler, window, memory, redisFallbackKeys>>
  BY DEF ClockTick
<1>4. CASE bucket' = bucket
  <2>1. redis'[b] = redis[b]
    <3>1. expiry[b] >= b * WindowMs + WindowMs /\ expiry[b] \in 0..Never
      BY <1>0 DEF CountersLast, LimiterTypeOK
    <3>2. clock + 1 < b * WindowMs + WindowMs
      <4>1. (clock + 1) \div WindowMs = b
        BY <1>0, <1>1, <1>4 DEF bucket
      <4>2. PICK t \in Nat : t = clock + 1
        BY <1>0
      <4> QED
        BY <4>1, <4>2, DivBounds, LimiterAssumption
    <3>3. PICK x \in Nat : x = b * WindowMs
      BY LimiterAssumption DEF Window
    <3>4. ~(expiry[b] <= clock + 1)
      BY <1>0, <3>1, <3>2, <3>3, LimiterAssumption DEF Never
    <3> QED
      BY <3>4 DEF ClockTick
  <2>2. R \in SUBSET Within(b)' /\ CountedByRedis(b, R)'
    BY <1>2, <1>3, <2>1 DEF CountedByRedis, Within
  <2>3. \A i \in Instance : CountedByMemory(b, R, i)'
    BY <1>2, <1>3 DEF CountedByMemory, ByMemory, Accepted, Within
  <2>4. bucket' = b
    BY <1>1, <1>4
  <2> QED
    BY <2>2, <2>3, <2>4 DEF EachStoreKeepsLimit
<1>5. CASE bucket' > bucket
  <2>1. PICK n \in Window : n = bucket' /\ n > b
    <3>1. bucket' \in Window
      BY TimeInWindow DEF bucket, LimiterTypeOK
    <3> QED
      BY <1>1, <1>5, <3>1
  <2>2. Within(n)' = {} /\ Accepted(n)' = {}
    <3>1. \A c \in Call : phase[c] # "unsent" => window[c] <= b /\ window[c] \in Window
      BY <1>0, <1>1 DEF CountersLast, LimiterTypeOK
    <3>2. \A v \in Window : v <= b => v # n
      BY <2>1 DEF Window
    <3> QED
      BY <1>3, <3>1, <3>2 DEF Within, Accepted
  <2>3. redis'[n] \in Nat /\ Cardinality({}) = 0
    BY FS_EmptySet DEF LimiterTypeOK
  <2>4. {} \in SUBSET Within(n)' /\ CountedByRedis(n, {})'
    BY <2>2, <2>3, LimiterAssumption DEF CountedByRedis
  <2>5. ASSUME NEW i \in Instance PROVE CountedByMemory(n, {}, i)'
    <3>1. ByMemory(n, {}, i)' = {}
      BY <2>2 DEF ByMemory
    <3>2. memory'[i][n].count \in Nat
      BY DEF LimiterTypeOK
    <3> QED
      BY <2>3, <3>1, <3>2, LimiterAssumption DEF CountedByMemory
  <2> QED
    BY <2>1, <2>4, <2>5 DEF EachStoreKeepsLimit
<1> QED
  BY <1>0, <1>4, <1>5, ClockKeepsCounters

LEMMA CallKeepsCounters ==
    ASSUME LimiterTypeOK, Handled, CountersLast, NoneIfZero, LimiterTypeOK',
           [LimiterNext]_lvars, ~ClockTick
    PROVE  /\ CountersLast' /\ NoneIfZero'
           /\ clock' = clock /\ bucket' = bucket /\ bucketResetFor' = bucketResetFor
<1>0. /\ clock \in 0..MaxClock /\ phase \in [Call -> Phase]
      /\ window \in [Call -> Window] /\ redis \in [Window -> Nat]
      /\ expiry \in [Window -> 0..Never]
      /\ memory \in [Instance -> [Window -> [count : Nat, resetAt : 0..Never]]]
  BY DEF LimiterTypeOK
<1>1. PICK b \in Window : b = bucket /\ b * WindowMs <= clock
  BY <1>0, BucketIsWindow
<1>2. bucketResetFor > clock
  BY <1>0, BucketIsWindow
<1>3. Window \subseteq Nat
  BY DEF Window
<1>c. clock' = clock /\ bucket' = bucket /\ bucketResetFor' = bucketResetFor
  <2>1. clock' = clock
    BY DEF LimiterNext, rateLimit, incrementRedisCounter, setExpiry, redisUnavailable,
           fallback, lvars
  <2> QED
    BY <2>1 DEF bucket, bucketResetFor
<1> DEFINE Memories == \A i \in Instance, w \in Window :
                          /\ w > b => memory'[i][w] = noCounter
                          /\ w = b => \/ memory'[i][w] = noCounter
                                      \/ memory'[i][w].resetAt = bucketResetFor
           Expiries == \A w \in Window : expiry'[w] >= w * WindowMs + WindowMs
           Windows == \A c \in Call : phase'[c] # "unsent" => window'[c] <= b
           Zero == Limit = 0 => \A c \in Call : phase'[c] # "accepted"
           Goal == Memories /\ Expiries /\ Windows /\ Zero
<1>m. ASSUME memory' = memory PROVE Memories
  BY <1>m, <1>1 DEF CountersLast
<1>e. ASSUME expiry' = expiry PROVE Expiries
  BY <1>e DEF CountersLast
<1>w. ASSUME window' = window, \A c \in Call : phase'[c] # "unsent" => phase[c] # "unsent"
      PROVE  Windows
  BY <1>w, <1>1 DEF CountersLast
<1>z. ASSUME \A c \in Call : phase'[c] = "accepted" => phase[c] = "accepted" \/ Limit > 0
      PROVE  Zero
  BY <1>z, LimiterAssumption DEF NoneIfZero
<1>i. ASSUME NEW i \in Instance, NEW c \in Call, NEW w \in Window, w <= b,
             incrementMemoryCounter(i, c, w)
      PROVE  Memories /\ Zero /\ (\A d \in Call : phase'[d] # "unsent" => phase[d] # "unsent" \/ d = c)
  <2>1. PICK n \in Nat \ {0}, at \in 0..Never :
              /\ memory' = [memory EXCEPT ![i][w] = [count |-> n, resetAt |-> at]]
              /\ memory[i][w].resetAt <= clock => at = bucketResetFor
              /\ memory[i][w].resetAt > clock => at = memory[i][w].resetAt
              /\ phase' = [phase EXCEPT ![c] = IF n > Limit THEN "limited" ELSE "accepted"]
    BY <1>i, MemoryCounts
  <2>2. ~(w > b)
    BY <1>3, <1>i
  <2>3. memory[i][w].resetAt \in Nat
    BY <1>0
  <2>4. w = b => at = bucketResetFor
    <3> SUFFICES ASSUME w = b PROVE at = bucketResetFor
      OBVIOUS
    <3>1. memory[i][w] = noCounter \/ memory[i][w].resetAt = bucketResetFor
      BY <1>1 DEF CountersLast
    <3>2. CASE memory[i][w] = noCounter
      BY <1>0, <2>1, <3>2 DEF noCounter
    <3>3. CASE memory[i][w].resetAt = bucketResetFor
      BY <1>2, <2>1, <3>3
    <3> QED
      BY <3>1, <3>2, <3>3
  <2>5. memory'[i][w].resetAt = at
    BY <1>0, <2>1
  <2>6. \A j \in Instance, v \in Window :
           ~(j = i /\ v = w) => memory'[j][v] = memory[j][v]
    BY <1>0, <2>1
  <2>7. Memories
    BY <1>1, <2>2, <2>4, <2>5, <2>6 DEF CountersLast
  <2>8. Zero
    BY <1>0, <1>z, <2>1, LimiterAssumption
  <2> QED
    BY <1>0, <2>1, <2>7, <2>8
<1>4. ASSUME NEW c \in Call, NEW i \in Instance, rateLimit(c, i) PROVE Goal
  <2>1. /\ window' = [window EXCEPT ![c] = b] /\ expiry' = expiry
        /\ \A d \in Call : phase'[d] # "unsent" => phase[d] # "unsent" \/ d = c
        /\ Memories /\ Zero
    <3>1. CASE bucket \in redisFallbackKeys[i]
      <4>1. b <= b /\ incrementMemoryCounter(i, c, b)
        BY <1>1, <1>3, <1>4, <3>1 DEF rateLimit
      <4> QED
        BY <1>1, <1>4, <1>i, <4>1 DEF rateLimit
    <3>2. CASE bucket \notin redisFallbackKeys[i]
      BY <1>0, <1>1, <1>4, <1>m, <1>z, <3>2 DEF rateLimit
    <3> QED
      BY <3>1, <3>2
  <2>2. Windows
    BY <1>0, <1>1, <1>3, <2>1 DEF CountersLast
  <2> QED
    BY <1>e, <2>1, <2>2
<1>5. ASSUME NEW c \in Call, incrementRedisCounter(c) PROVE Goal
  <2>1. /\ UNCHANGED <<window, memory, expiry>>
        /\ \A d \in Call : phase'[d] # "unsent" => phase[d] # "unsent"
        /\ \A d \in Call : phase'[d] = "accepted" => phase[d] = "accepted" \/ Limit > 0
    <3>1. redis[window[c]] + 1 > 0
      BY <1>0
    <3> QED
      BY <1>0, <1>5, <3>1, LimiterAssumption DEF incrementRedisCounter, Outcome
  <2> QED
    BY <1>m, <1>e, <1>w, <1>z, <2>1
<1>6. ASSUME NEW c \in Call, setExpiry(c) PROVE Goal
  <2>1. /\ UNCHANGED <<window, memory>>
        /\ \A d \in Call : phase'[d] # "unsent" => phase[d] # "unsent"
        /\ \A d \in Call : phase'[d] = "accepted" => phase[d] = "accepted" \/ Limit > 0
    BY <1>0, <1>6, LimiterAssumption DEF setExpiry, Outcome
  <2>2. PICK w \in Window : w = window[c] /\ w <= b
    BY <1>0, <1>1, <1>6 DEF setExpiry, CountersLast
  <2>3. expiry' = [expiry EXCEPT ![w] = clock + WindowMs]
    BY <1>6, <2>2 DEF setExpiry
  <2>4. clock + WindowMs >= w * WindowMs + WindowMs
    <3>1. w * WindowMs <= b * WindowMs
      BY <1>3, <2>2, LimiterAssumption
    <3>2. PICK x \in Nat, y \in Nat : x = w * WindowMs /\ y = b * WindowMs
      BY <1>3, LimiterAssumption
    <3> QED
      BY <1>0, <1>1, <3>1, <3>2, LimiterAssumption
  <2>5. Expiries
    BY <1>0, <2>3, <2>4 DEF CountersLast
  <2> QED
    BY <1>m, <1>w, <1>z, <2>1, <2>5
<1>7. ASSUME NEW c \in Call, redisUnavailable(c) PROVE Goal
  <2>1. /\ UNCHANGED <<window, memory, expiry>>
        /\ \A d \in Call : phase'[d] # "unsent" => phase[d] # "unsent"
        /\ \A d \in Call : phase'[d] = "accepted" => phase[d] = "accepted" \/ Limit > 0
    BY <1>0, <1>7 DEF redisUnavailable
  <2> QED
    BY <1>m, <1>e, <1>w, <1>z, <2>1
<1>8. ASSUME NEW c \in Call, fallback(c) PROVE Goal
  <2>1. /\ UNCHANGED <<window, expiry>> /\ phase[c] # "unsent"
        /\ incrementMemoryCounter(handler[c], c, window[c])
    BY <1>8 DEF fallback
  <2>2. PICK i \in Instance : i = handler[c]
    BY <2>1 DEF Handled
  <2>3. PICK w \in Window : w = window[c] /\ w <= b
    BY <1>0, <1>1, <2>1 DEF CountersLast
  <2> QED
    BY <1>e, <1>i, <1>w, <2>1, <2>2, <2>3
<1>9. ASSUME UNCHANGED lvars PROVE Goal
  BY <1>9, <1>m, <1>e, <1>w, <1>z DEF lvars
<1>10. Goal
  BY <1>4, <1>5, <1>6, <1>7, <1>8, <1>9 DEF LimiterNext
<1>11. CountersLast'
  BY <1>1, <1>c, <1>10 DEF CountersLast
<1>12. NoneIfZero'
  BY <1>10 DEF NoneIfZero
<1> QED
  BY <1>c, <1>11, <1>12

(* The same split of the accepted, or one with a call added or left out,    *)
(* does for a store that counts as before.                                  *)
LEMMA SplitStays ==
    ASSUME LimiterTypeOK, LimiterTypeOK', NEW b \in Window, NEW R \in SUBSET Within(b),
           NEW Q \in SUBSET Within(b)', NEW i \in Instance,
           CountedByMemory(b, R, i), memory'[i][b] = memory[i][b],
           redisFallbackKeys[i] \subseteq redisFallbackKeys'[i],
           ByMemory(b, Q, i)' \subseteq ByMemory(b, R, i)
    PROVE  CountedByMemory(b, Q, i)'
<1> DEFINE new == ByMemory(b, Q, i)'
           old == ByMemory(b, R, i)
<1>1. new \in SUBSET old /\ old \in SUBSET Call
  BY DEF ByMemory, Accepted, Within
<1> HIDE DEF new, old
<1>2. new \in SUBSET Call
  BY <1>1
<1>3. Cardinality(new) <= Cardinality(old) /\ Cardinality(new) \in Nat /\ Cardinality(old) \in Nat
  BY <1>1, <1>2, CallSubsets, CallSets
<1>4. /\ Cardinality(old) <= memory[i][b].count /\ Cardinality(old) <= Limit
      /\ old # {} => b \in redisFallbackKeys[i]
  BY DEF CountedByMemory, old
<1>5. memory[i][b].count \in Nat
  BY DEF LimiterTypeOK
<1>6. /\ Cardinality(new) <= memory'[i][b].count /\ Cardinality(new) <= Limit
      /\ new # {} => b \in redisFallbackKeys'[i]
  BY <1>1, <1>3, <1>4, <1>5, LimiterAssumption
<1> QED
  BY <1>6 DEF CountedByMemory, new

LEMMA SplitFound ==
    ASSUME NEW b, bucket' = b, NEW Q \in SUBSET Within(b)', CountedByRedis(b, Q)',
           \A i \in Instance : CountedByMemory(b, Q, i)'
    PROVE  EachStoreKeepsLimit'
BY DEF EachStoreKeepsLimit, CountedByRedis, CountedByMemory, ByMemory, Accepted, Within

(* An instance counts one more call of the window. *)
LEMMA MemoryKeepsStores ==
    ASSUME StoresInv, LimiterTypeOK', NEW b \in Window, b = bucket, bucket' = b,
           NEW R \in SUBSET Within(b),
           CountedByRedis(b, R), \A i \in Instance : CountedByMemory(b, R, i),
           NEW c \in Call, NEW j \in Instance,
           phase[c] \notin {"expire", "accepted", "limited"},
           incrementMemoryCounter(j, c, b), redis' = redis,
           window' = [window EXCEPT ![c] = b], handler' = [handler EXCEPT ![c] = j],
           \A i \in Instance : redisFallbackKeys[i] \subseteq redisFallbackKeys'[i],
           b \in redisFallbackKeys'[j]
    PROVE  EachStoreKeepsLimit'
<1>0. /\ phase \in [Call -> Phase] /\ window \in [Call -> Window]
      /\ handler \in [Call -> Instance \cup {NoInstance}]
      /\ memory \in [Instance -> [Window -> [count : Nat, resetAt : 0..Never]]]
      /\ clock \in 0..MaxClock /\ LimiterTypeOK
  BY DEF StoresInv, LimiterTypeOK
<1>1. PICK n \in Nat \ {0}, at \in 0..Never :
              /\ memory' = [memory EXCEPT ![j][b] = [count |-> n, resetAt |-> at]]
              /\ n <= memory[j][b].count + 1
              /\ memory[j][b].resetAt <= clock => n = 1 /\ at = bucketResetFor
              /\ memory[j][b].resetAt > clock => /\ n = memory[j][b].count + 1
                                                 /\ at = memory[j][b].resetAt
              /\ phase' = [phase EXCEPT ![c] = IF n > Limit THEN "limited" ELSE "accepted"]
  BY <1>0, MemoryCounts
<1>2. R \in SUBSET Within(b)' /\ c \notin R
  BY <1>0, <1>1 DEF Within, CountedByRedis
<1>3. CountedByRedis(b, R)'
  BY <1>0, <1>1, <1>2 DEF CountedByRedis, Within
<1>4. \A i \in Instance \ {j} : ByMemory(b, R, i)' \subseteq ByMemory(b, R, i)
  BY <1>0, <1>1 DEF ByMemory, Accepted, Within
<1>5. ASSUME NEW i \in Instance \ {j} PROVE CountedByMemory(b, R, i)'
  <2>1. memory'[i][b] = memory[i][b]
    BY <1>0, <1>1
  <2> QED
    BY <1>0, <1>2, <1>4, <2>1, SplitStays
<1>6. CountedByMemory(b, R, j)'
  <2> DEFINE old == ByMemory(b, R, j)
             new == ByMemory(b, R, j)'
  <2>1. new \in SUBSET (old \cup {c}) /\ (phase'[c] # "accepted" => new \in SUBSET old)
    BY <1>0, <1>1 DEF ByMemory, Accepted, Within
  <2>2. old \in SUBSET Call
    BY DEF ByMemory, Accepted, Within
  <2>3. /\ Cardinality(old) <= memory[j][b].count /\ Cardinality(old) <= Limit
    BY DEF CountedByMemory
  <2> HIDE DEF old, new
  <2>4. old \cup {c} \in SUBSET Call /\ new \in SUBSET Call
    BY <2>1, <2>2
  <2>5. Cardinality(new) <= Cardinality(old \cup {c}) /\ Cardinality(old \cup {c}) <= Cardinality(old) + 1
        /\ Cardinality(new) \in Nat /\ Cardinality(old) \in Nat /\ Cardinality(old \cup {c}) \in Nat
    BY <2>1, <2>2, <2>4, CallSubsets, CallSets, FS_AddElement
  <2>6. Cardinality(old) + 1 <= n
    <3>1. memory[j][b] = noCounter \/ memory[j][b].resetAt = bucketResetFor
      BY DEF StoresInv, CountersLast
    <3>2. memory[j][b].count \in Nat /\ memory[j][b].resetAt \in Nat
      BY <1>0
    <3>3. CASE memory[j][b] = noCounter
      <4>1. memory[j][b].count = 0 /\ memory[j][b].resetAt <= clock
        BY <1>0, <3>3 DEF noCounter
      <4> QED
        BY <1>1, <2>3, <2>5, <4>1
    <3>4. CASE memory[j][b].resetAt = bucketResetFor
      <4>1. memory[j][b].resetAt > clock
        BY <1>0, <3>4, BucketIsWindow
      <4> QED
        BY <1>1, <2>3, <2>5, <3>2, <4>1
    <3> QED
      BY <3>1, <3>3, <3>4
  <2>7. Cardinality(new) <= n
    BY <2>5, <2>6
  <2>8. Cardinality(new) <= Limit
    <3>1. CASE n > Limit
      <4>1. new \in SUBSET old
        BY <1>0, <1>1, <2>1, <3>1
      <4>2. Cardinality(new) <= Cardinality(old)
        BY <2>2, <4>1, CallSubsets
      <4> QED
        BY <2>3, <2>5, <4>2, LimiterAssumption
    <3>2. CASE ~(n > Limit)
      BY <2>5, <2>7, <3>2, LimiterAssumption
    <3> QED
      BY <3>1, <3>2
  <2>9. memory'[j][b].count = n
    BY <1>0, <1>1
  <2> QED
    BY <2>7, <2>8, <2>9 DEF CountedByMemory, new
<1> QED
  BY <1>2, <1>3, <1>5, <1>6, SplitFound

LEMMA CallKeepsStores ==
    ASSUME StoresInv, LimiterTypeOK', [LimiterNext]_lvars, ~ClockTick
    PROVE  EachStoreKeepsLimit'
<1>0. /\ phase \in [Call -> Phase] /\ window \in [Call -> Window]
      /\ handler \in [Call -> Instance \cup {NoInstance}]
      /\ redis \in [Window -> Nat] /\ clock \in 0..MaxClock /\ LimiterTypeOK
      /\ redisFallbackKeys \in [Instance -> SUBSET Window]
  BY DEF StoresInv, LimiterTypeOK
<1>1. PICK b \in Window : b = bucket
  BY <1>0, BucketIsWindow
<1>2. bucket' = b
  BY <1>1, CallKeepsCounters DEF StoresInv
<1>3. PICK R \in SUBSET Within(b) :
         CountedByRedis(b, R) /\ \A i \in Instance : CountedByMemory(b, R, i)
  BY <1>1 DEF StoresInv, EachStoreKeepsLimit
<1>4. R \in SUBSET Call /\ IsFiniteSet(R) /\ Cardinality(R) \in Nat
  BY <1>3, CallSets DEF Within
<1>5. redis[b] \in Nat /\ Cardinality(R) <= redis[b]
  BY <1>0, <1>3 DEF CountedByRedis
(* The memories are left alone and Redis counts Q. *)
<1>s. ASSUME NEW Q \in SUBSET Within(b)', CountedByRedis(b, Q)',
             \A i \in Instance : ByMemory(b, Q, i)' \subseteq ByMemory(b, R, i),
             UNCHANGED <<memory, redisFallbackKeys>>
      PROVE  EachStoreKeepsLimit'
  BY <1>0, <1>2, <1>3, <1>s, SplitStays, SplitFound
<1>6. ASSUME NEW c \in Call, NEW i \in Instance, rateLimit(c, i) PROVE EachStoreKeepsLimit'
  <2>1. CASE bucket \in redisFallbackKeys[i]
    <3>1. /\ phase[c] \notin {"expire", "accepted", "limited"} /\ redis' = redis
          /\ incrementMemoryCounter(i, c, b)
          /\ window' = [window EXCEPT ![c] = b] /\ handler' = [handler EXCEPT ![c] = i]
          /\ redisFallbackKeys' = redisFallbackKeys /\ b \in redisFallbackKeys'[i]
      BY <1>1, <1>6, <2>1 DEF rateLimit
    <3> QED
      BY <1>1, <1>2, <1>3, <3>1, MemoryKeepsStores
  <2>2. CASE bucket \notin redisFallbackKeys[i]
    <3>1. /\ phase[c] = "unsent" /\ phase' = [phase EXCEPT ![c] = "incr"]
          /\ window' = [window EXCEPT ![c] = b] /\ handler' = [handler EXCEPT ![c] = i]
          /\ UNCHANGED <<redis, memory, redisFallbackKeys>>
      BY <1>1, <1>6, <2>2 DEF rateLimit
    <3>2. R \in SUBSET Within(b)' /\ c \notin R
      BY <1>0, <1>3, <3>1 DEF Within
    <3>3. CountedByRedis(b, R)'
      BY <1>0, <1>3, <3>1, <3>2 DEF CountedByRedis, Within
    <3>4. \A j \in Instance : ByMemory(b, R, j)' \subseteq ByMemory(b, R, j)
      BY <1>0, <3>1 DEF ByMemory, Accepted, Within
    <3> QED
      BY <1>s, <3>1, <3>2, <3>3, <3>4
  <2> QED
    BY <2>1, <2>2
<1>7. ASSUME NEW c \in Call, incrementRedisCounter(c) PROVE EachStoreKeepsLimit'
  <2>1. /\ phase[c] = "incr" /\ redis' = [redis EXCEPT ![window[c]] = redis[window[c]] + 1]
        /\ UNCHANGED <<window, handler, memory, redisFallbackKeys>>
        /\ \A d \in Call \ {c} : phase'[d] = phase[d]
        /\ \/ redis[window[c]] + 1 = 1 /\ phase'[c] = "expire"
           \/ redis[window[c]] + 1 > 1 /\ redis[window[c]] + 1 > Limit /\ phase'[c] = "limited"
           \/ redis[window[c]] + 1 > 1 /\ ~(redis[window[c]] + 1 > Limit) /\ phase'[c] = "accepted"
           \/ phase'[c] = "failed"
    BY <1>0, <1>7 DEF incrementRedisCounter, Outcome
  <2>2. CASE window[c] = b /\ phase'[c] \in {"expire", "accepted"}
    <3> DEFINE Q == R \cup {c}
    <3>1. Q \in SUBSET Within(b)' /\ \A d \in Q : phase'[d] \in {"accepted", "expire"}
      BY <1>0, <1>3, <2>1, <2>2 DEF Within, CountedByRedis
    <3>2. Cardinality(Q) <= Cardinality(R) + 1 /\ Cardinality(Q) \in Nat
      BY <1>4, FS_AddElement, CallSets
    <3>3. redis'[b] = redis[b] + 1
      BY <1>0, <2>1, <2>2
    <3>4. \A d \in Within(b)' : phase'[d] = "expire" => d \in Q
      BY <1>0, <1>3, <2>1 DEF Within, CountedByRedis
    <3>5. \A j \in Instance : ByMemory(b, Q, j)' \subseteq ByMemory(b, R, j)
      BY <1>0, <2>1 DEF ByMemory, Accepted, Within
    <3> HIDE DEF Q
    <3>6. Cardinality(Q) <= redis'[b]
      BY <1>4, <1>5, <3>2, <3>3
    <3>7. Limit > 0 => Cardinality(Q) <= Limit
      <4>1. CASE phase'[c] = "expire"
        BY <1>4, <1>5, <2>1, <2>2, <3>2, <4>1, LimiterAssumption
      <4>2. CASE phase'[c] = "accepted"
        BY <1>4, <1>5, <2>1, <2>2, <3>2, <4>2, LimiterAssumption
      <4> QED
        BY <2>2, <4>1, <4>2
    <3>8. CountedByRedis(b, Q)'
      BY <3>1, <3>4, <3>6, <3>7 DEF CountedByRedis
    <3> QED
      BY <1>s, <2>1, <3>1, <3>5, <3>8
  <2>3. CASE ~(window[c] = b /\ phase'[c] \in {"expire", "accepted"})
    <3>1. R \in SUBSET Within(b)' /\ c \notin R
      BY <1>0, <1>3, <2>1 DEF Within, CountedByRedis
    <3>2. redis'[b] \in {redis[b], redis[b] + 1}
      BY <1>0, <2>1
    <3>3. \A d \in Within(b)' : phase'[d] = "expire" => d \in R
      BY <1>0, <1>3, <2>1, <2>3 DEF Within, CountedByRedis
    <3>4. Cardinality(R) <= redis'[b]
      BY <1>4, <1>5, <3>2
    <3>5. CountedByRedis(b, R)'
      BY <1>3, <1>4, <2>1, <3>1, <3>3, <3>4 DEF CountedByRedis
    <3>6. \A j \in Instance : ByMemory(b, R, j)' \subseteq ByMemory(b, R, j)
      BY <1>0, <2>1, <2>3 DEF ByMemory, Accepted, Within
    <3> QED
      BY <1>s, <2>1, <3>1, <3>5, <3>6
  <2> QED
    BY <2>2, <2>3
(* A call that Redis has counted goes on, or gives up. *)
<1>8. ASSUME NEW c \in Call, phase[c] \in {"incr", "expire"}, redis' = redis,
             phase'[c] \in {"accepted", "limited", "failed"},
             phase'[c] = "accepted" => phase[c] = "expire",
             \A d \in Call \ {c} : phase'[d] = phase[d],
             UNCHANGED <<window, handler, memory, redisFallbackKeys>>
      PROVE  EachStoreKeepsLimit'
  <2>0. PICK Q : Q = IF phase'[c] = "accepted" THEN R ELSE R \ {c}
    OBVIOUS
  <2>1. Q \in SUBSET Within(b)' /\ Q \in SUBSET R
    BY <1>0, <1>3, <1>8, <2>0 DEF Within
  <2>2. \A d \in Q : phase'[d] \in {"accepted", "expire"}
    BY <1>0, <1>3, <1>4, <1>8, <2>0 DEF CountedByRedis
  <2>3. \A d \in Within(b)' : phase'[d] = "expire" => d \in Q
    BY <1>0, <1>3, <1>8, <2>0 DEF Within, CountedByRedis
  <2>4. ASSUME NEW j \in Instance, NEW d \in ByMemory(b, Q, j)' PROVE d \in ByMemory(b, R, j)
    <3>1. d \in Call /\ phase'[d] = "accepted" /\ window[d] = b /\ handler[d] = j /\ d \notin Q
      BY <1>8 DEF ByMemory, Accepted, Within
    <3>2. d # c
      <4> SUFFICES ASSUME d = c PROVE FALSE
        OBVIOUS
      <4>1. phase[c] = "expire" /\ c \in Within(b)
        BY <1>8, <3>1 DEF Within
      <4> QED
        BY <1>3, <2>0, <3>1, <4>1 DEF CountedByRedis
    <3>3. d \notin R /\ phase[d] = "accepted"
      BY <1>8, <2>0, <3>1, <3>2
    <3> QED
      BY <3>1, <3>3 DEF ByMemory, Accepted, Within
  <2>5. Cardinality(Q) <= Cardinality(R) /\ Cardinality(Q) \in Nat
    BY <1>4, <2>1, CallSubsets, CallSets
  <2>6. Cardinality(Q) <= redis'[b] /\ (Limit > 0 => Cardinality(Q) <= Limit)
    BY <1>3, <1>4, <1>5, <1>8, <2>5, LimiterAssumption DEF CountedByRedis
  <2>7. CountedByRedis(b, Q)'
    BY <1>8, <2>2, <2>3, <2>6 DEF CountedByRedis
  <2> QED
    BY <1>8, <1>s, <2>1, <2>4, <2>7
<1>9. ASSUME NEW c \in Call, setExpiry(c) PROVE EachStoreKeepsLimit'
  BY <1>0, <1>8, <1>9 DEF setExpiry, Outcome
<1>10. ASSUME NEW c \in Call, redisUnavailable(c) PROVE EachStoreKeepsLimit'
  BY <1>0, <1>8, <1>10 DEF redisUnavailable
<1>11. ASSUME NEW c \in Call, fallback(c) PROVE EachStoreKeepsLimit'
  <2>1. PICK w \in Window : w = window[c]
    BY <1>0
  <2>2. PICK j \in Instance : j = handler[c]
    BY <1>11 DEF fallback, StoresInv, Handled
  <2>3. /\ phase[c] = "failed" /\ incrementMemoryCounter(j, c, w)
        /\ redisFallbackKeys' = [redisFallbackKeys EXCEPT ![j] = @ \cup {w}]
        /\ UNCHANGED <<redis, window, handler>>
    BY <1>11, <2>1, <2>2 DEF fallback
  <2>4. CASE w = b
    <3>1. window' = [window EXCEPT ![c] = b] /\ handler' = [handler EXCEPT ![c] = j]
      BY <1>0, <2>1, <2>2, <2>3, <2>4
    <3>2. /\ \A i \in Instance : redisFallbackKeys[i] \subseteq redisFallbackKeys'[i]
          /\ b \in redisFallbackKeys'[j]
      BY <1>0, <2>3, <2>4
    <3> QED
      BY <1>1, <1>2, <1>3, <2>3, <2>4, <3>1, <3>2, MemoryKeepsStores
  <2>5. CASE w # b
    <3>1. PICK n \in Nat \ {0}, at \in 0..Never :
              /\ memory' = [memory EXCEPT ![j][w] = [count |-> n, resetAt |-> at]]
              /\ n <= memory[j][w].count + 1
              /\ memory[j][w].resetAt <= clock => n = 1 /\ at = bucketResetFor
              /\ memory[j][w].resetAt > clock => /\ n = memory[j][w].count + 1
                                                 /\ at = memory[j][w].resetAt
              /\ phase' = [phase EXCEPT ![c] = IF n > Limit THEN "limited" ELSE "accepted"]
      BY <1>0, <2>3, MemoryCounts
    <3>2. R \in SUBSET Within(b)' /\ c \notin R /\ c \notin Within(b)'
      BY <1>0, <1>3, <2>1, <2>3, <2>5, <3>1 DEF Within
    <3>3. CountedByRedis(b, R)'
      BY <1>0, <1>3, <2>3, <3>1, <3>2 DEF CountedByRedis, Within
    <3>4. ASSUME NEW i \in Instance PROVE CountedByMemory(b, R, i)'
      <4>1. memory'[i][b] = memory[i][b]
        <5>1. memory \in [Instance -> [Window -> [count : Nat, resetAt : 0..Never]]]
          BY <1>0 DEF LimiterTypeOK
        <5> QED
          BY <2>5, <3>1, <5>1
      <4>2. ByMemory(b, R, i)' \subseteq ByMemory(b, R, i)
        BY <1>0, <2>3, <3>1, <3>2 DEF ByMemory, Accepted, Within
      <4>3. redisFallbackKeys[i] \subseteq redisFallbackKeys'[i]
        BY <1>0, <2>3
      <4> QED
        BY <1>0, <1>3, <3>2, <4>1, <4>2, <4>3, SplitStays
    <3> QED
      BY <1>2, <3>2, <3>3, <3>4, SplitFound
  <2> QED
    BY <2>4, <2>5
<1>12. CASE UNCHANGED lvars
  <2>1. R \in SUBSET Within(b)' /\ CountedByRedis(b, R)'
    BY <1>3, <1>12 DEF lvars, CountedByRedis, Within
  <2>2. \A j \in Instance : ByMemory(b, R, j)' \subseteq ByMemory(b, R, j)
    BY <1>12 DEF lvars, ByMemory, Accepted, Within
  <2> QED
    BY <1>12, <1>s, <2>1, <2>2 DEF lvars
<1> QED
  BY <1>6, <1>7, <1>9, <1>10, <1>11, <1>12 DEF LimiterNext

LEMMA LimiterKeepsStores == StoresInv /\ [LimiterNext]_lvars => StoresInv'
<1> SUFFICES ASSUME StoresInv, [LimiterNext]_lvars PROVE StoresInv'
  OBVIOUS
<1>1. LimiterTypeOK /\ Handled /\ CountersLast /\ NoneIfZero
  BY DEF StoresInv
<1>2. LimiterTypeOK'
  BY <1>1, LimiterKeepsTypes
<1>3. Handled'
  BY <1>1, LimiterKeepsHandled
<1>4. CASE ClockTick
  <2>1. NoneIfZero'
    BY <1>1, <1>4 DEF ClockTick, NoneIfZero
  <2> QED
    BY <1>1, <1>2, <1>3, <1>4, <2>1, ClockKeepsCounters, ClockKeepsStores DEF StoresInv
<1>5. CASE ~ClockTick
  BY <1>1, <1>2, <1>3, <1>5, CallKeepsCounters, CallKeepsStores DEF StoresInv
<1> QED
  BY <1>4, <1>5

(* While its window lasts, the identity gets in at most the limit once in   *)
(* Redis and once in each instance that fell back, however calls, lost      *)
(* answers and the clock interleave (rateLimit, middleware/rate-limit.ts).  *)
THEOREM LimitPerStoreProven == LimiterSpec => []LimitPerStore
<1>1. LimiterInit => StoresInv
  BY CountersInit
<1>2. StoresInv /\ [LimiterNext]_lvars => StoresInv'
  BY LimiterKeepsStores
<1>3. StoresInv => LimitPerStore
  BY StoresBound
<1> QED
  BY <1>1, <1>2, <1>3, PTL DEF LimiterSpec

-----------------------------------------------------------------------------
(* The registry page *)

MirrorTables ==
    /\ zoneKey \in [Zone -> Key \cup {NoKey}]
    /\ providers \in [Wallet -> [Spelling -> Profile \cup {None}]]
    /\ auditLog \in [Wallet -> SUBSET {"registered", "updated", "warning"}]
    /\ calls \in [Request -> CallState \cup {Unmade}]
    /\ created \in [Wallet -> {"nobody", "registration", "ingestion"}]

Made(k) == calls[k] \in CallState

(* No call has read a row of a wallet that nobody has written. *)
UnwrittenIsUnread ==
    \A w \in Wallet : created[w] = "nobody" =>
        /\ providers[w]["lower"] = None
        /\ \A k \in Request : Made(k) /\ calls[k].wallet = w => calls[k].before = None

(* Of a wallet that a registration wrote first there is a record, or a call *)
(* that found no row has yet to append it.                                  *)
Audited(w) == {"registered", "warning"} \cap auditLog[w] # {}

WillBeAudited(w) ==
    \E k \in Request : /\ Made(k) /\ calls[k].wallet = w
                       /\ calls[k].before = None /\ calls[k].step = "audit"

FirstIsAudited ==
    \A w \in Wallet : created[w] = "registration" => Audited(w) \/ WillBeAudited(w)

MirrorInv == MirrorTables /\ UnwrittenIsUnread /\ FirstIsAudited

LEMMA NoneIsNoProfile == None \notin Profile
BY MirrorAssumption DEF None, Profile

LEMMA MadeIsNotUnmade ==
    ASSUME NEW k \in Request, MirrorTables
    PROVE  /\ Made(k) <=> calls[k] # Unmade
           /\ Made(k) <=> calls[k].step # "none"
           /\ Made(k) => /\ calls[k].wallet \in Wallet /\ calls[k].profile \in Profile
                         /\ calls[k].before \in Profile \cup {None}
<1>1. calls[k] \in CallState \/ calls[k] = Unmade
  BY DEF MirrorTables
<1>2. Made(k) => /\ calls[k].step # "none" /\ calls[k].wallet \in Wallet
                 /\ calls[k].profile \in Profile /\ calls[k].before \in Profile \cup {None}
  BY DEF Made, CallState
<1>3. Unmade.step = "none"
  BY DEF Unmade
<1> QED
  BY <1>1, <1>2, <1>3 DEF Made

(* A call that goes on is the same call. *)
LEMMA GoesOnSame ==
    ASSUME MirrorTables, NEW k \in Request, Made(k),
           NEW s \in {"find", "upsert", "audit", "key", "answered", "failed"}, GoesOn(k, s)
    PROVE  /\ calls' \in [Request -> CallState \cup {Unmade}]
           /\ Made(k)' /\ calls'[k].step = s
           /\ calls'[k].wallet = calls[k].wallet /\ calls'[k].before = calls[k].before
           /\ \A j \in Request \ {k} : calls'[j] = calls[j]
BY DEF MirrorTables, Made, GoesOn, CallState

LEMMA MirrorInitInv == MirrorInit => MirrorInv
<1> SUFFICES ASSUME MirrorInit PROVE MirrorInv
  OBVIOUS
<1>1. EmptyTable \in [Wallet -> [Spelling -> Profile \cup {None}]]
  BY DEF EmptyTable
<1>2. \A w \in Wallet : EmptyTable[w]["lower"] = None
  BY DEF EmptyTable, Spelling
<1>3. ASSUME NEW z \in Zone
      PROVE  /\ seedProviders(EmptyTable, z) \in [Wallet -> [Spelling -> Profile \cup {None}]]
             /\ \A w \in Wallet : seedProviders(EmptyTable, z)[w]["lower"] = None
  <2>1. [type |-> "sensor", zone |-> z] \in Profile
    BY MirrorAssumption DEF Profile
  <2> QED
    BY <1>1, <1>2, <2>1 DEF seedProviders, Spelling
<1>4. \A k \in Request : ~Made(k)
  BY DEF MirrorInit, Made, CallState, Unmade
<1>5. zoneKey \in [Zone -> Key \cup {NoKey}]
  BY DEF MirrorInit, seedZones, Key
<1> QED
  BY <1>1, <1>2, <1>3, <1>4, <1>5
  DEF MirrorInit, MirrorInv, MirrorTables, UnwrittenIsUnread, FirstIsAudited

LEMMA MirrorKeepsInv == MirrorInv /\ [MirrorNext]_mirrorvars => MirrorInv'
<1> SUFFICES ASSUME MirrorTables, UnwrittenIsUnread, FirstIsAudited, [MirrorNext]_mirrorvars
             PROVE  MirrorInv'
  BY DEF MirrorInv
<1>0. /\ zoneKey \in [Zone -> Key \cup {NoKey}]
      /\ providers \in [Wallet -> [Spelling -> Profile \cup {None}]]
      /\ auditLog \in [Wallet -> SUBSET {"registered", "updated", "warning"}]
      /\ calls \in [Request -> CallState \cup {Unmade}]
      /\ created \in [Wallet -> {"nobody", "registration", "ingestion"}]
  BY DEF MirrorTables
<1>z. zoneKey' \in [Zone -> Key \cup {NoKey}]
  <2>1. \A z \in Zone : <<"derived", z>> \in Key /\ <<"demo", z>> \in Key
    BY DEF Key
  <2>2. ASSUME NEW z \in Zone, ensureZone(z) PROVE zoneKey' \in [Zone -> Key \cup {NoKey}]
    BY <1>0, <2>1, <2>2 DEF ensureZone
  <2>3. zoneKey' = zoneKey \/ zoneKey' = seedZones \/ \E z \in Zone : ensureZone(z)
    BY DEF MirrorNext, CallStep, Register, findDatabaseProviderByWallet, UpsertProvider,
           auditProviderRegistration, providerChainRegistrationFor, CallFails,
           FollowInstructions, ensureProvider, Seed, Deactivate, mirrorvars, Profile
  <2> QED
    BY <1>0, <2>1, <2>2, <2>3 DEF seedZones
(* What a step needs for the audit: its first writers, its entries and its  *)
(* calls due for one stay.                                                  *)
<1>f. ASSUME MirrorTables',
             \A w \in Wallet : created'[w] = "registration" =>
                \/ Audited(w)' \/ WillBeAudited(w)'
                \/ /\ created[w] = "registration"
                   /\ Audited(w) => Audited(w)'
                   /\ WillBeAudited(w) => Audited(w)' \/ WillBeAudited(w)'
      PROVE  FirstIsAudited'
  BY <1>f DEF FirstIsAudited
(* A step that changes the calls only, and none that is due for an audit. *)
<1>c. ASSUME calls' \in [Request -> CallState \cup {Unmade}],
             UNCHANGED <<providers, auditLog, created>>, NEW k \in Request,
             calls[k].step # "audit", Made(k)',
             ~Made(k) \/ calls'[k].wallet = calls[k].wallet,
             \A w \in Wallet : calls'[k].wallet = w /\ created[w] = "nobody"
                               => calls'[k].before = None,
             \A j \in Request \ {k} : calls'[j] = calls[j]
      PROVE  MirrorInv'
  <2>1. MirrorTables'
    BY <1>0, <1>z, <1>c DEF MirrorTables
  <2>2. UnwrittenIsUnread'
    BY <1>c DEF UnwrittenIsUnread, Made
  <2>3. \A w \in Wallet : WillBeAudited(w) => WillBeAudited(w)'
    BY <1>c DEF WillBeAudited, Made
  <2>4. FirstIsAudited'
    BY <1>c, <1>f, <2>1, <2>3 DEF Audited
  <2> QED
    BY <2>1, <2>2, <2>4 DEF MirrorInv
<1>1. ASSUME NEW k \in Request, NEW w \in Wallet, NEW p \in Profile, Register(k, w, p)
      PROVE  MirrorInv'
  <2> DEFINE call == [step |-> "find", wallet |-> w, profile |-> p, before |-> None,
                      duplicate |-> FALSE, key |-> NoKey, matches |-> FALSE]
  <2>1. call \in CallState
    BY DEF CallState
  <2>2. calls' = [calls EXCEPT ![k] = call] /\ UNCHANGED <<providers, auditLog, created>>
        /\ calls[k] = Unmade
    BY <1>1 DEF Register
  <2>3. calls[k].step # "audit" /\ ~Made(k)
    BY <2>2, MadeIsNotUnmade DEF Unmade
  <2>4. calls'[k] = call /\ (\A j \in Request \ {k} : calls'[j] = calls[j])
        /\ calls' \in [Request -> CallState \cup {Unmade}]
    BY <1>0, <2>1, <2>2
  <2> QED
    BY <1>c, <2>1, <2>2, <2>3, <2>4 DEF Made
<1>2. ASSUME NEW k \in Request, findDatabaseProviderByWallet(k) PROVE MirrorInv'
  <2>1. Made(k) /\ calls[k] \in CallState
    BY <1>2, MadeIsNotUnmade DEF findDatabaseProviderByWallet, Made
  <2>2. PICK w \in Wallet : w = calls[k].wallet
    BY <2>1, MadeIsNotUnmade
  <2>3. PICK row \in Profile \cup {None} : row = providers[w]["lower"]
    BY <1>0 DEF Spelling
  <2>4. calls' = [calls EXCEPT ![k] = [calls[k] EXCEPT !.step = "upsert", !.before = row]]
    BY <1>2, <2>2, <2>3 DEF findDatabaseProviderByWallet
  <2>5. [calls[k] EXCEPT !.step = "upsert", !.before = row] \in CallState
    BY <2>1 DEF CallState
  <2>6. /\ calls'[k] \in CallState /\ calls'[k].wallet = w /\ calls'[k].before = row
        /\ \A j \in Request \ {k} : calls'[j] = calls[j]
        /\ calls' \in [Request -> CallState \cup {Unmade}]
    <3>1. calls'[k] = [calls[k] EXCEPT !.step = "upsert", !.before = row]
      BY <1>0, <2>4
    <3>2. calls'[k].wallet = w /\ calls'[k].before = row
      BY <2>1, <2>2, <3>1 DEF CallState
    <3> QED
      BY <1>0, <2>4, <2>5, <3>1, <3>2
  <2>7. created[w] = "nobody" => row = None
    BY <2>3 DEF UnwrittenIsUnread
  <2>8. UNCHANGED <<providers, auditLog, created>> /\ calls[k].step # "audit"
    BY <1>2 DEF findDatabaseProviderByWallet
  <2> QED
    BY <1>c, <2>1, <2>2, <2>6, <2>7, <2>8 DEF Made
<1>3. ASSUME NEW k \in Request, UpsertProvider(k) PROVE MirrorInv'
  <2>1. Made(k) /\ calls[k] \in CallState
    BY <1>3, MadeIsNotUnmade DEF UpsertProvider, Made
  <2>2. PICK w \in Wallet : w = calls[k].wallet
    BY <2>1, MadeIsNotUnmade
  <2>3. PICK p \in Profile : p = calls[k].profile
    BY <2>1, MadeIsNotUnmade
  <2>4. PICK same \in BOOLEAN : same <=> calls[k].before = p
    OBVIOUS
  <2>5. /\ calls[k].step = "upsert"
        /\ providers' = [providers EXCEPT ![w]["lower"] = p]
        /\ created' = [created EXCEPT ![w] = IF @ = "nobody" THEN "registration" ELSE @]
        /\ auditLog' = auditLog
    BY <1>3, <2>2, <2>3 DEF UpsertProvider, Upsert
  <2>6. calls' = [calls EXCEPT ![k] = [calls[k] EXCEPT
                     !.step = IF calls[k].before = p THEN "key" ELSE "audit",
                     !.duplicate = (calls[k].before = p)]]
    BY <1>3, <2>3 DEF UpsertProvider, isDuplicate
  <2>7. /\ calls' \in [Request -> CallState \cup {Unmade}] /\ calls'[k] \in CallState
        /\ calls'[k].wallet = w /\ calls'[k].before = calls[k].before
        /\ calls'[k].step = IF calls[k].before = p THEN "key" ELSE "audit"
        /\ \A j \in Request \ {k} : calls'[j] = calls[j]
    <3>1. [calls[k] EXCEPT !.step = IF calls[k].before = p THEN "key" ELSE "audit",
                           !.duplicate = (calls[k].before = p)] \in CallState
      BY <2>1 DEF CallState
    <3>2. calls'[k] = [calls[k] EXCEPT !.step = IF calls[k].before = p THEN "key" ELSE "audit",
                                       !.duplicate = (calls[k].before = p)]
      BY <1>0, <2>6
    <3> QED
      BY <1>0, <2>1, <2>2, <2>6, <3>1, <3>2 DEF CallState
  <2>8. MirrorTables'
    BY <1>0, <1>z, <2>5, <2>7 DEF MirrorTables, Spelling
  <2>9. UnwrittenIsUnread'
    <3>1. \A v \in Wallet : created'[v] = "nobody" => v # w /\ created[v] = "nobody"
      BY <1>0, <2>5
    <3>2. \A v \in Wallet \ {w} : providers'[v] = providers[v]
      BY <1>0, <2>5
    <3> QED
      BY <2>1, <2>2, <2>7, <3>1, <3>2 DEF UnwrittenIsUnread, Made
  <2>10. \A v \in Wallet : WillBeAudited(v) => WillBeAudited(v)'
    BY <2>5, <2>7 DEF WillBeAudited, Made
  <2>11. created[w] = "nobody" => WillBeAudited(w)'
    <3> SUFFICES ASSUME created[w] = "nobody" PROVE WillBeAudited(w)'
      OBVIOUS
    <3>1. calls[k].before = None
      BY <2>1, <2>2 DEF UnwrittenIsUnread
    <3>2. calls'[k].step = "audit"
      BY <2>3, <2>7, <3>1, NoneIsNoProfile
    <3> QED
      BY <2>7, <3>1, <3>2 DEF WillBeAudited, Made
  <2>12. \A v \in Wallet : created'[v] = "registration" =>
            created[v] = "registration" \/ (v = w /\ created[w] = "nobody")
    BY <1>0, <2>5
  <2>13. FirstIsAudited'
    BY <1>f, <2>5, <2>8, <2>10, <2>11, <2>12 DEF Audited
  <2> QED
    BY <2>8, <2>9, <2>13 DEF MirrorInv
<1>4. ASSUME NEW k \in Request, auditProviderRegistration(k) PROVE MirrorInv'
  <2>1. Made(k) /\ calls[k] \in CallState
    BY <1>4, MadeIsNotUnmade DEF auditProviderRegistration, Made
  <2>2. PICK w \in Wallet : w = calls[k].wallet
    BY <2>1, MadeIsNotUnmade
  <2>3. PICK entry \in {"registered", "updated", "warning"} :
           /\ auditLog' = [auditLog EXCEPT ![w] = @ \cup {entry}]
           /\ calls[k].before = None => entry \in {"registered", "warning"}
    BY <1>4, <2>2 DEF auditProviderRegistration
  <2>4. GoesOn(k, "key") /\ UNCHANGED <<providers, created>>
    BY <1>4 DEF auditProviderRegistration
  <2>5. /\ calls' \in [Request -> CallState \cup {Unmade}]
        /\ calls'[k].wallet = w /\ calls'[k].before = calls[k].before
        /\ \A j \in Request \ {k} : calls'[j] = calls[j]
    BY <2>1, <2>2, <2>4, GoesOnSame
  <2>6. MirrorTables'
    BY <1>0, <1>z, <2>3, <2>4, <2>5 DEF MirrorTables
  <2>7. UnwrittenIsUnread'
    BY <2>1, <2>2, <2>4, <2>5 DEF UnwrittenIsUnread, Made
  <2>8. \A v \in Wallet : Audited(v) => Audited(v)'
    BY <1>0, <2>3 DEF Audited
  <2>9. ASSUME NEW v \in Wallet, WillBeAudited(v) PROVE Audited(v)' \/ WillBeAudited(v)'
    <3>1. PICK j \in Request : /\ Made(j) /\ calls[j].wallet = v
                               /\ calls[j].before = None /\ calls[j].step = "audit"
      BY <2>9 DEF WillBeAudited
    <3>2. CASE j = k
      BY <1>0, <2>2, <2>3, <3>1, <3>2 DEF Audited
    <3>3. CASE j # k
      BY <2>5, <3>1, <3>3 DEF WillBeAudited, Made
    <3> QED
      BY <3>2, <3>3
  <2>10. FirstIsAudited'
    BY <1>f, <2>4, <2>6, <2>8, <2>9
  <2> QED
    BY <2>6, <2>7, <2>10 DEF MirrorInv
<1>5. ASSUME NEW k \in Request, providerChainRegistrationFor(k) PROVE MirrorInv'
  <2>1. Made(k) /\ calls[k] \in CallState
    BY <1>5, MadeIsNotUnmade DEF providerChainRegistrationFor, Made
  <2>2. PICK key \in Key \cup {NoKey} : key = zoneKey[calls[k].profile.zone]
    BY <1>0, <2>1, MadeIsNotUnmade DEF Profile
  <2>3. PICK same \in BOOLEAN : same = matchesRequest(calls[k].wallet, key)
    BY DEF matchesRequest
  <2>4. calls' = [calls EXCEPT ![k] = [calls[k] EXCEPT !.step = "answered", !.key = key,
                                                       !.matches = same]]
    BY <1>5, <2>2, <2>3 DEF providerChainRegistrationFor, zoneKeyForProviderRegistration
  <2>5. [calls[k] EXCEPT !.step = "answered", !.key = key, !.matches = same] \in CallState
    BY <2>1 DEF CallState
  <2>6. /\ calls'[k] \in CallState /\ calls'[k].wallet = calls[k].wallet
        /\ calls'[k].before = calls[k].before
        /\ \A j \in Request \ {k} : calls'[j] = calls[j]
        /\ calls' \in [Request -> CallState \cup {Unmade}]
    BY <1>0, <2>1, <2>4, <2>5 DEF CallState
  <2>7. UNCHANGED <<providers, auditLog, created>> /\ calls[k].step # "audit"
    BY <1>5 DEF providerChainRegistrationFor
  <2>8. \A w \in Wallet : calls'[k].wallet = w /\ created[w] = "nobody" => calls'[k].before = None
    BY <2>1, <2>6 DEF UnwrittenIsUnread
  <2> QED
    BY <1>c, <2>1, <2>6, <2>7, <2>8 DEF Made
<1>6. ASSUME NEW k \in Request, CallFails(k) PROVE MirrorInv'
  <2>1. /\ GoesOn(k, "failed") /\ UNCHANGED <<providers, auditLog, created>>
        /\ calls[k].step \in {"find", "upsert", "key"}
    BY <1>6 DEF CallFails
  <2>2. Made(k) /\ calls[k] \in CallState
    BY <2>1, MadeIsNotUnmade DEF Made
  <2>3. /\ calls' \in [Request -> CallState \cup {Unmade}] /\ Made(k)'
        /\ calls'[k].wallet = calls[k].wallet /\ calls'[k].before = calls[k].before
        /\ \A j \in Request \ {k} : calls'[j] = calls[j]
    BY <2>1, <2>2, GoesOnSame
  <2>4. \A w \in Wallet : calls'[k].wallet = w /\ created[w] = "nobody" => calls'[k].before = None
    BY <2>2, <2>3 DEF UnwrittenIsUnread
  <2> QED
    BY <1>c, <2>1, <2>2, <2>3, <2>4
<1>7. ASSUME UNCHANGED <<providers, auditLog, calls, created>> PROVE MirrorInv'
  <2>1. MirrorTables' /\ UnwrittenIsUnread'
    BY <1>0, <1>z, <1>7 DEF MirrorTables, UnwrittenIsUnread, Made
  <2>2. FirstIsAudited'
    BY <1>7 DEF FirstIsAudited, Audited, WillBeAudited, Made
  <2> QED
    BY <2>1, <2>2 DEF MirrorInv
<1>8. ASSUME NEW w \in Wallet, NEW p \in Profile, ensureProvider(w, p) PROVE MirrorInv'
  <2>1. /\ providers' = [providers EXCEPT ![w]["lower"] = p]
        /\ created' = [created EXCEPT ![w] = IF @ = "nobody" THEN "ingestion" ELSE @]
        /\ UNCHANGED <<auditLog, calls>>
    BY <1>8 DEF ensureProvider, Upsert
  <2>2. MirrorTables'
    BY <1>0, <1>z, <2>1 DEF MirrorTables, Spelling
  <2>3. \A v \in Wallet : /\ created'[v] = "nobody" => v # w /\ created[v] = "nobody"
                          /\ created'[v] = "registration" => created[v] = "registration"
                          /\ v # w => providers'[v] = providers[v]
    BY <1>0, <2>1
  <2>4. UnwrittenIsUnread'
    BY <2>1, <2>3 DEF UnwrittenIsUnread, Made
  <2>5. FirstIsAudited'
    BY <2>1, <2>3 DEF FirstIsAudited, Audited, WillBeAudited, Made
  <2> QED
    BY <2>2, <2>4, <2>5 DEF MirrorInv
<1>9. ASSUME NEW z \in Zone, Seed(z) PROVE MirrorInv'
  <2>1. /\ providers' = seedProviders(providers, z) /\ UNCHANGED <<auditLog, calls, created>>
    BY <1>9 DEF Seed
  <2>2. [type |-> "sensor", zone |-> z] \in Profile
    BY MirrorAssumption DEF Profile
  <2>3. /\ providers' \in [Wallet -> [Spelling -> Profile \cup {None}]]
        /\ \A w \in Wallet : providers'[w]["lower"] = providers[w]["lower"]
    BY <1>0, <2>1, <2>2 DEF seedProviders, Spelling
  <2>4. MirrorTables' /\ UnwrittenIsUnread'
    BY <1>0, <1>z, <2>1, <2>3 DEF MirrorTables, UnwrittenIsUnread, Made
  <2>5. FirstIsAudited'
    BY <2>1 DEF FirstIsAudited, Audited, WillBeAudited, Made
  <2> QED
    BY <2>4, <2>5 DEF MirrorInv
<1>10. ASSUME NEW k \in Request, FollowInstructions(k) PROVE MirrorInv'
  BY <1>7, <1>10 DEF FollowInstructions
<1>11. ASSUME NEW w \in Wallet, Deactivate(w) PROVE MirrorInv'
  BY <1>7, <1>11 DEF Deactivate
<1>12. CASE UNCHANGED mirrorvars
  BY <1>7, <1>12 DEF mirrorvars
<1> QED
  BY <1>1, <1>2, <1>3, <1>4, <1>5, <1>6, <1>8, <1>9, <1>10, <1>11, <1>12 DEF MirrorNext, CallStep

(* Once its calls are over, a wallet that POST /providers created has a     *)
(* "registered" record, or a warning in its place, whatever calls and       *)
(* evidence of the same wallet came between (registerProvider,              *)
(* auditProviderRegistration of api/providers/service.ts).                  *)
THEOREM RegistrationIsAuditedProven == MirrorSpec => []RegistrationIsAudited
<1>1. MirrorInit => MirrorInv
  BY MirrorInitInv
<1>2. MirrorInv /\ [MirrorNext]_mirrorvars => MirrorInv'
  BY MirrorKeepsInv
<1>3. MirrorInv => RegistrationIsAudited
  BY MadeIsNotUnmade DEF MirrorInv, FirstIsAudited, Audited, WillBeAudited, RegistrationIsAudited
<1> QED
  BY <1>1, <1>2, <1>3, PTL DEF MirrorSpec
=============================================================================
