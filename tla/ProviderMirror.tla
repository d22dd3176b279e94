--------------------------- MODULE ProviderMirror ---------------------------
(***************************************************************************)
(* The database's mirror of the on-chain provider registry.  A call of     *)
(* POST /providers (api/providers) reads the wallet's row, upserts it,     *)
(* audits what it takes for a change and answers with the instructions for *)
(* NodeRegistry.register, which the wallet then follows or not.  Evidence  *)
(* and the demo seed write the same rows.                                  *)
(***************************************************************************)
EXTENDS Naturals

CONSTANTS
    Wallet,         \* provider addresses
    Seeded,         \* the wallets of scripts/seed-demo-data.ts
    Zone,           \* zone ids
    ProviderType,   \* of "sensor" and "reporter"
    Request,        \* calls of POST /providers
    MirrorFaults    \* "abort": a query throws; "audit": that of the audit does

ASSUME MirrorAssumption ==
    /\ Seeded \subseteq Wallet
    /\ "sensor" \in ProviderType /\ ProviderType \subseteq {"sensor", "reporter"}
    /\ MirrorFaults \subseteq {"abort", "audit"}

(* A zone's key is derived from its id, or the demo's.  An address is      *)
(* spelled in lower case or, by the seed, with the checksum's capitals;    *)
(* the unique wallet_address is text and tells the spellings apart.        *)
Key == {"derived", "demo"} \X Zone
Spelling == {"lower", "checksum"}
Profile == [type : ProviderType, zone : Zone]
None == [type |-> "none"]
NoKey == <<"none", "none">>

VARIABLES
    zoneKey,    \* zones.zone_key by id
    providers,  \* providers by wallet_address: wallet and spelling
    auditLog,   \* what the audit log, or else the log, has of a wallet's rows
    calls,      \* what each call asks for, has read and does next
    registry,   \* NodeRegistry's storage
    created,    \* history: who first wrote a wallet's lower-case row
    reseeded    \* history: the seed has run since

mirrorvars == <<zoneKey, providers, auditLog, calls, registry, created, reseeded>>

Chain == INSTANCE NodeRegistry WITH
            Provider <- Wallet, Zone <- Key, NoZone <- NoKey, MaxTime <- 1, now <- 1

CallState ==
    [step : {"find", "upsert", "audit", "key", "answered", "failed"},
     wallet : Wallet, profile : Profile, before : Profile \cup {None},
     duplicate : BOOLEAN, key : Key \cup {NoKey}, matches : BOOLEAN]
Unmade == [step |-> "none"]

EmptyTable == [w \in Wallet |-> [s \in Spelling |-> None]]

(* seedZones and seedProviders: the demo's keys, and a row of the seed's   *)
(* own id under the address as the script spells it.                       *)
seedZones == [z \in Zone |-> <<"demo", z>>]
seedProviders(old, z) ==
    [w \in Wallet |->
        IF w \in Seeded
          THEN [old[w] EXCEPT !["checksum"] = [type |-> "sensor", zone |-> z]]
          ELSE old[w]]

(* A new database, or one that has been seeded. *)
MirrorInit ==
    /\ \/ /\ zoneKey = [z \in Zone |-> NoKey]
          /\ providers = EmptyTable
       \/ /\ zoneKey = seedZones
          /\ \E z \in Zone : providers = seedProviders(EmptyTable, z)
    /\ auditLog = [w \in Wallet |-> {}]
    /\ calls = [k \in Request |-> Unmade]
    /\ registry = [providers |-> [w \in Wallet |-> Chain!NoRegistration],
                   validZones |-> Key, paused |-> FALSE]
    /\ created = [w \in Wallet |-> "nobody"]
    /\ reseeded = FALSE

GoesOn(k, step) == calls' = [calls EXCEPT ![k].step = step]

(* `on conflict (id) do nothing`. *)
ensureZone(z) ==
    zoneKey' = [zoneKey EXCEPT ![z] = IF @ = NoKey THEN <<"derived", z>> ELSE @]

(* The upsert on the lower-case address, by whoever. *)
Upsert(w, profile, who) ==
    /\ providers' = [providers EXCEPT ![w]["lower"] = profile]
    /\ created' = [created EXCEPT ![w] = IF @ = "nobody" THEN who ELSE @]

-----------------------------------------------------------------------------
(* registerProvider: the call comes in, and its zone is stored. *)
Register(k, w, profile) ==
    /\ calls[k] = Unmade
    /\ ensureZone(profile.zone)
    /\ calls' = [calls EXCEPT ![k] =
          [step |-> "find", wallet |-> w, profile |-> profile, before |-> None,
           duplicate |-> FALSE, key |-> NoKey, matches |-> FALSE]]
    /\ UNCHANGED <<providers, auditLog, registry, created, reseeded>>

findDatabaseProviderByWallet(k) ==
    /\ calls[k].step = "find"
    /\ calls' = [calls EXCEPT ![k].step = "upsert",
                              ![k].before = providers[calls[k].wallet]["lower"]]
    /\ UNCHANGED <<zoneKey, providers, auditLog, registry, created, reseeded>>

(* Fault: a wallet without a row counts as unchanged. *)
isDuplicate_New(before, profile) == before \in {None, profile}

(* Compared with the row that was read, not with the one replaced. *)
isDuplicate(before, profile) == before = profile

UpsertProvider(k) ==
    LET call == calls[k]
        duplicate == isDuplicate(call.before, call.profile) IN
    /\ call.step = "upsert"
    /\ Upsert(call.wallet, call.profile, "registration")
    /\ calls' = [calls EXCEPT ![k].step = IF duplicate THEN "key" ELSE "audit",
                              ![k].duplicate = duplicate]
    /\ UNCHANGED <<zoneKey, auditLog, registry, reseeded>>

(* A failed append is logged as a warning and the call goes on. *)
auditProviderRegistration(k) ==
    LET action == IF calls[k].before = None THEN "registered" ELSE "updated" IN
    /\ calls[k].step = "audit"
    /\ \E entry \in {action} \cup {"warning" : f \in MirrorFaults \cap {"audit"}} :
          auditLog' = [auditLog EXCEPT ![calls[k].wallet] = @ \cup {entry}]
    /\ GoesOn(k, "key")
    /\ UNCHANGED <<zoneKey, providers, registry, created, reseeded>>

(* readOnChainRegistration: whether the wallet is registered for the zone. *)
matchesRequest(w, key) ==
    registry.providers[w] = [zone |-> key, active |-> TRUE]

(* Fault: the key is derived from the id, as for a zone without a row. *)
zoneKeyForProviderRegistration_Derived(z) == <<"derived", z>>

zoneKeyForProviderRegistration(z) == zoneKey[z]

(* The instructions: the zone's key, and whether there is nothing to do. *)
providerChainRegistrationFor(k) ==
    LET key == zoneKeyForProviderRegistration(calls[k].profile.zone) IN
    /\ calls[k].step = "key"
    /\ calls' = [calls EXCEPT ![k].step = "answered", ![k].key = key,
                              ![k].matches = matchesRequest(calls[k].wallet, key)]
    /\ UNCHANGED <<zoneKey, providers, auditLog, registry, created, reseeded>>

CallFails(k) ==
    /\ "abort" \in MirrorFaults
    /\ calls[k].step \in {"find", "upsert", "key"}
    /\ GoesOn(k, "failed")
    /\ UNCHANGED <<zoneKey, providers, auditLog, registry, created, reseeded>>

(* Evidence of an accepted provider: both upserts, no audit. *)
ensureProvider(w, profile) ==
    /\ ensureZone(profile.zone)
    /\ Upsert(w, profile, "ingestion")
    /\ UNCHANGED <<auditLog, calls, registry, reseeded>>

(* The seed runs while calls are made and instructions are out. *)
Seed(z) ==
    /\ ~reseeded
    /\ zoneKey' = seedZones
    /\ providers' = seedProviders(providers, z)
    /\ reseeded' = TRUE
    /\ UNCHANGED <<auditLog, calls, registry, created>>

(* The message the registry page shows: follow the instructions, or not.   *)
MustRegister(k) == calls[k].step = "answered" /\ ~calls[k].matches

(* The provider signs the call it was shown. *)
FollowInstructions(k) ==
    /\ MustRegister(k)
    /\ Chain!register(calls[k].wallet, calls[k].key)
    /\ UNCHANGED <<zoneKey, providers, auditLog, calls, created, reseeded>>

Deactivate(w) ==
    /\ Chain!deactivate(w)
    /\ UNCHANGED <<zoneKey, providers, auditLog, calls, created, reseeded>>

CallStep(k) ==
    \/ \E w \in Wallet, p \in Profile : Register(k, w, p)
    \/ findDatabaseProviderByWallet(k)
    \/ UpsertProvider(k)
    \/ auditProviderRegistration(k)
    \/ providerChainRegistrationFor(k)
    \/ CallFails(k)
    \/ FollowInstructions(k)

MirrorNext ==
    \/ \E k \in Request : CallStep(k)
    \/ \E w \in Wallet, p \in Profile : ensureProvider(w, p)
    \/ \E z \in Zone : Seed(z)
    \/ \E w \in Wallet : Deactivate(w)

MirrorSpec == MirrorInit /\ [][MirrorNext]_mirrorvars

-----------------------------------------------------------------------------
(* The tables, the calls and the contract have their types. *)
MirrorTypeOK ==
    /\ zoneKey \in [Zone -> Key \cup {NoKey}]
    /\ providers \in [Wallet -> [Spelling -> Profile \cup {None}]]
    /\ auditLog \in [Wallet -> SUBSET {"registered", "updated", "warning"}]
    /\ calls \in [Request -> CallState \cup {Unmade}]
    /\ registry.providers \in [Wallet -> [zone : Key \cup {NoKey}, active : BOOLEAN]]
    /\ created \in [Wallet -> {"nobody", "registration", "ingestion"}]
    /\ reseeded \in BOOLEAN

(* Every provider the registry page registered is active on chain for a    *)
(* zone the database knows by that key, and which one of its calls asked   *)
(* for, whoever stores the zone first and whatever is stored since: until  *)
(* the seed gives the zones new keys.                                      *)
RegisteredForItsZone ==
    ~reseeded => \A w \in Wallet : registry.providers[w].active =>
        \E k \in Request :
            /\ calls[k].step = "answered" /\ calls[k].wallet = w
            /\ registry.providers[w].zone = zoneKey[calls[k].profile.zone]

(* "Provider registration and updates append audit records"                *)
(* (provider-registry.md:110): once its calls are over, a wallet that a    *)
(* registration created has a record of it, or the log a warning, which of *)
(* two overlapping calls or pieces of evidence ever came first.            *)
RegistrationIsAudited ==
    \A w \in Wallet :
        created[w] = "registration"
          /\ (\A k \in Request : calls[k] # Unmade /\ calls[k].wallet = w
                                 => calls[k].step \in {"key", "answered"})
        => {"registered", "warning"} \cap auditLog[w] # {}

-----------------------------------------------------------------------------
(* What the documents say of the mirror and the code does not keep.        *)

(* listProviders: the rows of the registry page. *)
listProviders == {r \in Wallet \X Spelling : providers[r[1]][r[2]] # None}

(* Registration is "idempotent by `walletAddress`"                         *)
(* (provider-registry.md:44, test-plan.md:97): a wallet has one row.       *)
OneRowPerWallet ==
    \A r1, r2 \in listProviders : r1[1] = r2[1] => r1 = r2

(* "Provider registration and updates append audit records"                *)
(* (provider-registry.md:110): a call that changes the row audits it, also *)
(* when another one has changed it since it was read.                      *)
EveryChangeIsAudited ==
    [][\A k \in Request :
          calls[k] # Unmade /\ calls[k].step = "upsert" /\ calls'[k].step = "key"
          => UNCHANGED providers]_mirrorvars

(* The page tells the provider to "call NodeRegistry.register"             *)
(* (ProviderRegistry.tsx:149): the call would succeed.  After a change of  *)
(* zone the wallet is still active for the old one, and it reverts.        *)
InstructionsWork ==
    \A k \in Request : MustRegister(k) => ~registry.providers[calls[k].wallet].active

=============================================================================
