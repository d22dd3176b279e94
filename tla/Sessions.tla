------------------------------ MODULE Sessions ------------------------------
(***************************************************************************)
(* Accounts and sessions: api/auth/service.ts and middleware.ts, and the   *)
(* settings page that keeps a browser's token.  A token carries the role   *)
(* the account had when it was issued until it expires; registering an     *)
(* account again may raise its role, seeding the demo data may lower it,   *)
(* and calls of one browser overlap.                                       *)
(***************************************************************************)
EXTENDS Integers

CONSTANTS
    Identity,       \* normalized e-mail addresses or phone numbers
    AuthCall,       \* calls of /auth/register and /auth/login
    SeedRole,       \* roles of the accounts scripts/seed-demo-data.ts makes
    SessionHours,   \* the life of a token
    MaxHours        \* bounds the clock

(* ROLE_RANK: public, reporter, reviewer, admin. *)
Role == 0..3
NoUser == -1
NoToken == [role |-> -1]
SeedAccount == DOMAIN SeedRole

ASSUME SessionsAssumption ==
    /\ SeedAccount \subseteq Identity /\ \A i \in SeedAccount : SeedRole[i] \in Role
    /\ SessionHours \in Nat \ {0} /\ MaxHours \in Nat

(* No role was lowered: as if long ago, so that no token of that time is left. *)
NotLowered == -1 - SessionHours

VARIABLES
    users,      \* users.role by phone_or_email
    requests,   \* the calls: what is asked, done and returned
    stored,     \* localStorage["gridproof.authToken"]
    hours,      \* hours
    seeded,     \* the seed made its accounts' rows
    loweredAt   \* history: when an account's role was last lowered

sessvars == <<users, requests, stored, hours, seeded, loweredAt>>

Token == [identity : Identity, role : Role, exp : 0..(MaxHours + SessionHours)]
RequestState ==
    [step : {"upsert", "find", "audit", "answered", "received", "refused"},
     identity : Identity, asked : Role, token : Token \cup {NoToken},
     since : 0..MaxHours]        \* history: the hour its row was read in
Idle == [step |-> "idle"]

SessionsInit ==
    /\ users = [i \in Identity |-> NoUser]
    /\ requests = [k \in AuthCall |-> Idle]
    /\ stored = NoToken
    /\ hours = 0
    /\ seeded = FALSE
    /\ loweredAt = [i \in Identity |-> NotLowered]

Ask(k, step, i, role) ==
    requests' = [requests EXCEPT ![k] =
        [step |-> step, identity |-> i, asked |-> role, token |-> NoToken,
         since |-> hours]]

(* createSessionToken *)
createSessionToken(i, role) ==
    [identity |-> i, role |-> role, exp |-> hours + SessionHours]

-----------------------------------------------------------------------------
(* assertRoleAllowed: a reviewer or admin shows the invite code. *)
register(k, i, role, invited) ==
    /\ requests[k] = Idle
    /\ role = 1 \/ invited
    /\ Ask(k, "upsert", i, role)
    /\ UNCHANGED <<users, stored, hours, seeded, loweredAt>>

(* Fault: the update takes the role of the insert. *)
roleOnConflict_Excluded(current, excluded) == excluded

(* The `case` of the upsert. *)
roleOnConflict(current, excluded) ==
    CASE excluded = 3 -> 3
      [] excluded = 2 /\ current \in {0, 1} -> 2
      [] excluded = 1 /\ current = 0 -> 1
      [] OTHER -> current

(* The row the statement returns is the user of the session. *)
registerUser(k) ==
    LET i == requests[k].identity
        asked == requests[k].asked
        role == IF users[i] = NoUser THEN asked ELSE roleOnConflict(users[i], asked) IN
    /\ requests[k].step = "upsert"
    /\ users' = [users EXCEPT ![i] = role]
    /\ requests' = [requests EXCEPT ![k].step = "audit", ![k].since = hours,
                                    ![k].token = [role |-> role, identity |-> i, exp |-> 0]]
    /\ UNCHANGED <<stored, hours, seeded, loweredAt>>

(* After the audit the session is made of that row. *)
answerRegistration(k) ==
    /\ requests[k].step = "audit"
    /\ requests' = [requests EXCEPT ![k].step = "answered",
          ![k].token = createSessionToken(requests[k].identity, @.role)]
    /\ UNCHANGED <<users, stored, hours, seeded, loweredAt>>

login(k, i) ==
    /\ requests[k] = Idle
    /\ Ask(k, "find", i, 0)
    /\ UNCHANGED <<users, stored, hours, seeded, loweredAt>>

(* Nobody, or the session of the row as it is. *)
findUserForLogin(k) ==
    LET i == requests[k].identity IN
    /\ requests[k].step = "find"
    /\ IF users[i] = NoUser THEN requests' = [requests EXCEPT ![k].step = "refused"]
       ELSE requests' = [requests EXCEPT ![k].step = "answered",
                                         ![k].token = createSessionToken(i, users[i])]
    /\ UNCHANGED <<users, stored, hours, seeded, loweredAt>>

(* saveSession: whichever answer comes last is the browser's session. *)
saveSession(k) ==
    /\ requests[k].step = "answered"
    /\ stored' = requests[k].token
    /\ requests' = [requests EXCEPT ![k].step = "received"]
    /\ UNCHANGED <<users, hours, seeded, loweredAt>>

clearToken ==
    /\ stored # NoToken
    /\ stored' = NoToken
    /\ UNCHANGED <<users, requests, hours, seeded, loweredAt>>

(* The form that saves a token someone pastes: one this browser, or another, *)
(* was answered with.                                                      *)
save(k) ==
    /\ requests[k].step = "received"
    /\ stored' = requests[k].token
    /\ UNCHANGED <<users, requests, hours, seeded, loweredAt>>

(* `on conflict (id) do update set role = excluded.role`.  Where somebody   *)
(* registered one of the accounts first, its row has another id: the unique *)
(* phone_or_email refuses the insert, and the seed is rolled back.         *)
seedUsers ==
    /\ seeded \/ \A i \in SeedAccount : users[i] = NoUser
    /\ users' = [i \in Identity |-> IF i \in SeedAccount THEN SeedRole[i] ELSE users[i]]
    /\ loweredAt' = [i \in Identity |->
          IF i \in SeedAccount /\ users[i] > SeedRole[i] THEN hours ELSE loweredAt[i]]
    /\ seeded' = TRUE
    /\ UNCHANGED <<requests, stored, hours>>

(* Bound: the insert of a registration's audit row takes less than an hour. *)
AuditsEnd == \A k \in AuthCall : requests[k].step = "audit" => requests[k].since = hours

TimePasses ==
    /\ hours < MaxHours
    /\ AuditsEnd
    /\ hours' = hours + 1
    /\ UNCHANGED <<users, requests, stored, seeded, loweredAt>>

(* Fault: a token is good through the second it expires in. *)
assertTemporalClaims_Through(token) == token # NoToken /\ token.exp >= hours

(* assertTemporalClaims *)
assertTemporalClaims(token) == token # NoToken /\ token.exp > hours

(* requireAuth: what a route that requires a role answers. *)
requireAuth(token, role) ==
    IF ~assertTemporalClaims(token) THEN "UNAUTHENTICATED"
    ELSE IF token.role >= role THEN "next" ELSE "FORBIDDEN"

SessionsNext ==
    \/ \E k \in AuthCall, i \in Identity :
          login(k, i) \/ \E role \in 1..3, invited \in BOOLEAN : register(k, i, role, invited)
    \/ \E k \in AuthCall :
          registerUser(k) \/ answerRegistration(k) \/ findUserForLogin(k)
          \/ saveSession(k) \/ save(k)
    \/ seedUsers
    \/ clearToken
    \/ TimePasses

SessionsSpec == SessionsInit /\ [][SessionsNext]_sessvars

-----------------------------------------------------------------------------
(* The accounts, the calls and the browser's token have their types. *)
SessionsTypeOK ==
    /\ users \in [Identity -> Role \cup {NoUser}]
    /\ requests \in [AuthCall -> RequestState \cup {Idle}]
    /\ stored \in Token \cup {NoToken}
    /\ hours \in 0..MaxHours
    /\ seeded \in BOOLEAN
    /\ loweredAt \in [Identity -> {NotLowered} \cup 0..MaxHours]

(* A route lets a browser do what its account may not do for as long as a  *)
(* token lives after the role was lowered (seed-demo-data.ts:144-146), and *)
(* no longer: whatever registrations, logins and seeds overlap, whenever   *)
(* their answers arrive, and whichever of them is saved or pasted again    *)
(* (requireAuth reads the token, never the account).                       *)
LoweredRoleEnds ==
    \A role \in 1..3 : requireAuth(stored, role) = "next" =>
        \/ users[stored.identity] >= role
        \/ hours <= loweredAt[stored.identity] + SessionHours

=============================================================================
