-------------------------- MODULE ReputationEscrow --------------------------
(***************************************************************************)
(* smart-contracts/src/ReputationEscrow.sol over NodeRegistry.sol: stakes, *)
(* the reward pool, rewards and slashes.                                   *)
(*                                                                         *)
(* `_send` runs the recipient's code in the middle of the transaction.     *)
(* The recipient may call any self-service function of the two contracts   *)
(* again before it returns, and it may revert, which undoes everything     *)
(* done since the call that paid it began.  `frames` is the stack of such  *)
(* payments in progress, each with the state a revert restores.            *)
(***************************************************************************)
EXTENDS NodeRegistry, Integers, Sequences, FiniteSets, Functions

CONSTANTS
    Admin,          \* the multisig holding DEFAULT_ADMIN_ROLE and PAUSER_ROLE
    Amount,         \* call values tried, a set of positive naturals
    Policy,         \* policies setPolicy may install: [cap, floor, cooldown]
    InitialPolicy,  \* the constructor's policy
    InitialFunds,   \* what each account owns before the first transaction
    MaxUint64,      \* 2^64 - 1
    MaxReputation,  \* bound on the reputation score either way
    MaxDepth        \* bound on nested payments

PolicyType == [cap : Nat, floor : Nat, cooldown : 0..MaxUint64]

(* Addresses have 160 bits, so there are finitely many; a timestamp fits   *)
(* the 64 bits that stake keeps of it.                                     *)
ASSUME EscrowAssumption ==
    /\ IsFiniteSet(Provider) /\ Admin \notin Provider
    /\ Amount \subseteq Nat \ {0}
    /\ MaxUint64 \in Nat /\ MaxReputation \in Nat /\ MaxDepth \in Nat
    /\ MaxTime <= MaxUint64
    /\ Policy \subseteq PolicyType /\ InitialPolicy \in PolicyType
    /\ InitialFunds \in Nat

VARIABLES
    escrow,     \* the contract's storage and its ether balance
    wallets,    \* ether held by every other account
    frames      \* payments whose recipient is still running

evars == <<registry, now, escrow, wallets, frames>>

Account == Provider \cup {Admin}

EscrowState ==
    [stakes : [Provider -> Nat], reputationScore : [Provider -> Int],
     lastStakedAt : [Provider -> 0..MaxTime],
     rewardPool : Nat, totalStaked : Nat, balance : Nat,
     policy : PolicyType, paused : BOOLEAN]

Frame ==
    [to : Account, escrow : EscrowState, registry : RegistryState,
     wallets : [Account -> Nat]]

EscrowInit ==
    /\ RegistryInit
    /\ escrow = [stakes |-> [p \in Provider |-> 0],
                 reputationScore |-> [p \in Provider |-> 0],
                 lastStakedAt |-> [p \in Provider |-> 0],
                 rewardPool |-> 0, totalStaked |-> 0, balance |-> 0,
                 policy |-> InitialPolicy, paused |-> FALSE]
    /\ wallets = [a \in Account |-> InitialFunds]
    /\ frames = <<>>

-----------------------------------------------------------------------------
(* Who may be the caller now: anyone between transactions; inside one only *)
(* contracts reached from a provider that is being paid, never the         *)
(* relayer's or the admin's keys.                                          *)
Idle == frames = <<>>
Top == frames[Len(frames)]
ProviderMayCall == ~Idle => Top.to \in Provider

setPolicy(pol) ==
    /\ Idle
    /\ escrow' = [escrow EXCEPT !.policy = pol]
    /\ UNCHANGED <<registry, now, wallets, frames>>

setEscrowPaused(b) ==
    /\ Idle
    /\ escrow.paused # b
    /\ escrow' = [escrow EXCEPT !.paused = b]
    /\ UNCHANGED <<registry, now, wallets, frames>>

fundRewardPool(v) ==
    /\ Idle
    /\ v # 0 /\ v <= wallets[Admin]
    /\ wallets' = [wallets EXCEPT ![Admin] = @ - v]
    /\ escrow' = [escrow EXCEPT !.rewardPool = @ + v, !.balance = @ + v]
    /\ UNCHANGED <<registry, now, frames>>

stake(p, v) ==
    /\ ProviderMayCall
    /\ ~escrow.paused
    /\ v # 0 /\ v <= wallets[p]
    /\ isActive(p)
    /\ wallets' = [wallets EXCEPT ![p] = @ - v]
    /\ escrow' = [escrow EXCEPT !.stakes[p] = @ + v, !.totalStaked = @ + v,
                                !.balance = @ + v, !.lastStakedAt[p] = now]
    /\ UNCHANGED <<registry, now, frames>>

canSend(after, v) == Len(frames) < MaxDepth /\ v <= after.balance

(* `_send`: the storage writes `after` come first, then the value moves    *)
(* and the recipient runs.  A contract that cannot cover the amount makes  *)
(* the call fail and the transaction revert.                               *)
SendAfter(after, to, v) ==
    /\ canSend(after, v)
    /\ escrow' = [after EXCEPT !.balance = @ - v]
    /\ wallets' = [wallets EXCEPT ![to] = @ + v]
    /\ frames' = Append(frames, [to |-> to, escrow |-> escrow,
                                 registry |-> registry, wallets |-> wallets])
    /\ UNCHANGED <<registry, now>>

withdrawRewardPool(to, v) ==
    /\ Idle
    /\ v # 0 /\ v <= escrow.rewardPool
    /\ SendAfter([escrow EXCEPT !.rewardPool = @ - v], to, v)

(* Fault: the floor binds deactivated providers too. *)
floorAllows_Everyone(p, v) == escrow.stakes[p] - v >= escrow.policy.floor

(* A provider that is still active keeps the floor. *)
floorAllows(p, v) == escrow.stakes[p] - v < escrow.policy.floor => ~isActive(p)

(* The cool-down sum and `totalStaked -=` are checked uint arithmetic.     *)
mayWithdraw(p, v) ==
    /\ ProviderMayCall
    /\ ~escrow.paused
    /\ v # 0 /\ v <= escrow.stakes[p]
    /\ escrow.lastStakedAt[p] + escrow.policy.cooldown <= MaxUint64
    /\ now >= escrow.lastStakedAt[p] + escrow.policy.cooldown
    /\ floorAllows(p, v)
    /\ v <= escrow.totalStaked

withdraw(p, v) ==
    /\ mayWithdraw(p, v)
    /\ SendAfter([escrow EXCEPT !.stakes[p] = @ - v, !.totalStaked = @ - v], p, v)

(* The recipient's code returns, and the caller's transaction goes on. *)
SendReturns ==
    /\ ~Idle
    /\ frames' = SubSeq(frames, 1, Len(frames) - 1)
    /\ UNCHANGED <<registry, now, escrow, wallets>>

(* Fault: the result of the call is not checked, so only the value returns. *)
SendReverts_Unchecked ==
    /\ ~Idle
    /\ escrow' = [escrow EXCEPT !.balance = Top.escrow.balance]
    /\ wallets' = Top.wallets
    /\ frames' = SubSeq(frames, 1, Len(frames) - 1)
    /\ UNCHANGED <<registry, now>>

(* The recipient's code reverts: TransferFailed undoes the paying call.    *)
SendReverts ==
    /\ ~Idle
    /\ escrow' = Top.escrow /\ registry' = Top.registry /\ wallets' = Top.wallets
    /\ frames' = SubSeq(frames, 1, Len(frames) - 1)
    /\ UNCHANGED now

(* Fault: the reward credits the stake and forgets the total. *)
reward_NoTotal(p, v) ==
    /\ Idle /\ ~escrow.paused
    /\ v # 0 /\ v <= escrow.rewardPool
    /\ escrow.reputationScore[p] < MaxReputation
    /\ escrow' = [escrow EXCEPT !.rewardPool = @ - v, !.stakes[p] = @ + v,
                                !.reputationScore[p] = @ + 1]
    /\ UNCHANGED <<registry, now, wallets, frames>>

reward(p, v) ==
    /\ Idle
    /\ ~escrow.paused
    /\ v # 0 /\ v <= escrow.rewardPool
    /\ escrow.reputationScore[p] < MaxReputation
    /\ escrow' = [escrow EXCEPT !.rewardPool = @ - v, !.stakes[p] = @ + v,
                                !.totalStaked = @ + v, !.reputationScore[p] = @ + 1]
    /\ UNCHANGED <<registry, now, wallets, frames>>

(* Faults: no cap; the total checked in place of the provider's stake. *)
slashable_NoCap(p, v) == v <= escrow.stakes[p] /\ v <= escrow.totalStaked
slashable_AnyStake(p, v) == v <= escrow.policy.cap /\ v <= escrow.totalStaked

slashable(p, v) ==
    /\ v <= escrow.policy.cap
    /\ v <= escrow.stakes[p] /\ v <= escrow.totalStaked

slash(p, v) ==
    /\ Idle
    /\ ~escrow.paused
    /\ v # 0 /\ slashable(p, v)
    /\ escrow.reputationScore[p] > -MaxReputation
    /\ escrow' = [escrow EXCEPT !.stakes[p] = @ - v, !.totalStaked = @ - v,
                                !.rewardPool = @ + v, !.reputationScore[p] = @ - 1]
    /\ UNCHANGED <<registry, now, wallets, frames>>

RegistryStep ==
    /\ \/ /\ Idle
          /\ \/ Tick
             \/ \E z \in Zone : addZone(z) \/ removeZone(z)
             \/ \E b \in BOOLEAN : setRegistryPaused(b)
       \/ /\ ProviderMayCall
          /\ \E p \in Provider :
                \/ deactivate(p)
                \/ \E z \in Zone : register(p, z)
    /\ UNCHANGED <<escrow, wallets, frames>>

EscrowStep ==
    \/ \E pol \in Policy : setPolicy(pol)
    \/ \E b \in BOOLEAN : setEscrowPaused(b)
    \/ \E v \in Amount : fundRewardPool(v)
    \/ \E v \in Amount, a \in Account : withdrawRewardPool(a, v)
    \/ \E p \in Provider, v \in Amount :
          stake(p, v) \/ withdraw(p, v) \/ reward(p, v) \/ slash(p, v)
    \/ SendReturns
    \/ SendReverts

EscrowNext == RegistryStep \/ EscrowStep

EscrowSpec == EscrowInit /\ [][EscrowNext]_evars

-----------------------------------------------------------------------------
(* Every storage word, balance and saved state has its type. *)
EscrowTypeOK ==
    /\ registry \in RegistryState
    /\ now \in 1..MaxTime
    /\ escrow \in EscrowState
    /\ wallets \in [Account -> Nat]
    /\ frames \in Seq(Frame)

(* `address(this).balance == totalStaked + rewardPool` always holds        *)
(* (ReputationEscrow.sol:46): also while a recipient runs inside _send,    *)
(* after it re-entered the contract, and after its revert was undone.      *)
BucketsMatchBalance == escrow.balance = escrow.totalStaked + escrow.rewardPool

(* `totalStaked` is the sum of all provider stakes (ReputationEscrow.sol:49), *)
(* so the checked subtractions of withdraw and slash never block a payout. *)
StakesSumToTotal == SumFunction(escrow.stakes) = escrow.totalStaked

(* A provider deactivated in the registry may withdraw in full once the    *)
(* cool-down has elapsed (ReputationEscrow.sol:167): no history of         *)
(* rewards, slashes, pool withdrawals, re-entrant or undone payments       *)
(* leaves the contract unable to pay it: every check of withdraw and of    *)
(* its _send passes, also when it is called from inside another payment.   *)
DeactivatedMayLeave ==
    \A p \in Provider :
        /\ ProviderMayCall /\ Len(frames) < MaxDepth /\ ~escrow.paused
        /\ ~isActive(p) /\ escrow.stakes[p] > 0
        /\ now >= escrow.lastStakedAt[p] + escrow.policy.cooldown
        => mayWithdraw(p, escrow.stakes[p]) /\ canSend(escrow, escrow.stakes[p])

(* Principal leaves a provider's stake in three ways only: as a payment of *)
(* the same amount to that provider, as a slash within the policy cap that *)
(* stays in the reward pool (invariant 2 of ReputationEscrow.sol:19-21),   *)
(* or because the payment in progress was undone.                          *)
PrincipalMovesByRule ==
    [][\A p \in Provider : escrow'.stakes[p] < escrow.stakes[p] =>
         LET d == escrow.stakes[p] - escrow'.stakes[p] IN
         \/ wallets'[p] = wallets[p] + d
         \/ /\ escrow'.rewardPool = escrow.rewardPool + d
            /\ d <= escrow.policy.cap /\ wallets' = wallets
         \/ Len(frames') < Len(frames)]_evars

=============================================================================
