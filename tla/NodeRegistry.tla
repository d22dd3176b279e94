---------------------------- MODULE NodeRegistry ----------------------------
(***************************************************************************)
(* smart-contracts/src/NodeRegistry.sol: the on-chain allowlist of zones   *)
(* and the self-service registration of evidence providers.                *)
(*                                                                         *)
(* One action is one successful transaction: a call that reverts changes   *)
(* nothing and is a stuttering step, so every `revert` of the code is a    *)
(* conjunct of the guard.  The two OpenZeppelin roles are fixed at deploy  *)
(* time and held by Admin.                                                 *)
(***************************************************************************)
EXTENDS Naturals

CONSTANTS
    Provider,   \* addresses that may register as evidence providers
    Zone,       \* zone ids the admin may put on the allowlist
    NoZone,     \* bytes32(0), the zone of an address that never registered
    MaxTime     \* bound on block.timestamp

ASSUME RegistryAssumption == NoZone \notin Zone /\ MaxTime \in Nat \ {0}

VARIABLES
    registry,   \* [providers, validZones, paused]: the contract's storage
    now         \* block.timestamp

(* Provider storage.  providerType is stored and read by no contract, and  *)
(* registeredAt is only compared with 0, which is `zone = NoZone` here.    *)
Registration == [zone : Zone \cup {NoZone}, active : BOOLEAN]

NoRegistration == [zone |-> NoZone, active |-> FALSE]

RegistryState ==
    [providers : [Provider -> Registration],
     validZones : SUBSET Zone,
     paused : BOOLEAN]

(* The constructor; Deploy.s.sol then seeds the allowlist with addZone. *)
RegistryInit ==
    /\ registry = [providers |-> [p \in Provider |-> NoRegistration],
                   validZones |-> {}, paused |-> FALSE]
    /\ now = 1

isActive(p) == registry.providers[p].active

addZone(z) ==
    /\ registry' = [registry EXCEPT !.validZones = @ \cup {z}]
    /\ UNCHANGED now

removeZone(z) ==
    /\ registry' = [registry EXCEPT !.validZones = @ \ {z}]
    /\ UNCHANGED now

(* OpenZeppelin's _pause reverts when paused, _unpause when not. *)
setRegistryPaused(b) ==
    /\ registry.paused # b
    /\ registry' = [registry EXCEPT !.paused = b]
    /\ UNCHANGED now

register(p, z) ==
    /\ ~registry.paused
    /\ z \in registry.validZones
    /\ ~isActive(p)
    /\ registry' = [registry EXCEPT !.providers[p] = [zone |-> z, active |-> TRUE]]
    /\ UNCHANGED now

(* Callable by p itself and by the admin, paused or not. *)
deactivate(p) ==
    /\ registry.providers[p].zone # NoZone
    /\ isActive(p)
    /\ registry' = [registry EXCEPT !.providers[p].active = FALSE]
    /\ UNCHANGED now

(* A block with a later timestamp; blocks are what make time pass. *)
Tick ==
    /\ now < MaxTime
    /\ now' = now + 1
    /\ UNCHANGED registry

=============================================================================
