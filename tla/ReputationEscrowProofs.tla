----------------------- MODULE ReputationEscrowProofs -----------------------
(***************************************************************************)
(* For every set of providers, every amount, policy and nesting depth: the *)
(* escrow's state is well typed, its ether balance is the sum of its two   *)
(* accounting buckets and one of these the sum of the stakes, also inside  *)
(* a re-entrant payment; principal moves by rule, and a deactivated        *)
(* provider gets all of its own.                                           *)
(***************************************************************************)
EXTENDS ReputationEscrow, SumTheorems, SequenceTheorems, TLAPS

(* The invariant is not inductive by itself: a revert brings back a saved  *)
(* state, so the saved states must balance too.                            *)
Balanced(e) == e.balance = e.totalStaked + e.rewardPool

SavedBalanced == \A i \in 1..Len(frames) : Balanced(frames[i].escrow)

EscrowIInv == EscrowTypeOK /\ BucketsMatchBalance /\ SavedBalanced

-----------------------------------------------------------------------------
(* The three numbers the accounting is about, under the invariant. *)
LEMMA Books ==
    ASSUME EscrowIInv
    PROVE  /\ escrow.totalStaked \in Nat /\ escrow.rewardPool \in Nat
           /\ escrow.balance \in Nat
           /\ escrow.balance = escrow.totalStaked + escrow.rewardPool
BY DEF EscrowIInv, EscrowTypeOK, EscrowState, BucketsMatchBalance

(* What SendAfter does when it is given balanced books less the payment.   *)
LEMMA SendKeepsInvariant ==
    ASSUME EscrowIInv, NEW to \in Account, NEW v \in Nat,
           NEW STATE after, after \in EscrowState,
           after.balance = after.totalStaked + after.rewardPool + v,
           SendAfter(after, to, v)
    PROVE  EscrowIInv'
<1> USE DEF EscrowIInv, EscrowTypeOK, SendAfter
<1>1. escrow' \in EscrowState /\ BucketsMatchBalance'
  <2>1. after.balance - v \in Nat /\ escrow' = [after EXCEPT !.balance = after.balance - v]
    BY DEF EscrowState
  <2>2. escrow' \in EscrowState
    BY <2>1 DEF EscrowState
  <2>3. /\ escrow'.balance = after.balance - v
        /\ escrow'.totalStaked = after.totalStaked
        /\ escrow'.rewardPool = after.rewardPool
    BY <2>1 DEF EscrowState
  <2>4. after.totalStaked \in Nat /\ after.rewardPool \in Nat
    BY DEF EscrowState
  <2>5. escrow'.balance = escrow'.totalStaked + escrow'.rewardPool
    BY <2>3, <2>4
  <2> QED
    BY <2>2, <2>5 DEF BucketsMatchBalance
<1>2. wallets' \in [Account -> Nat]
  OBVIOUS
<1> DEFINE f == [to |-> to, escrow |-> escrow, registry |-> registry,
                 wallets |-> wallets]
<1>3. f \in Frame /\ frames' = Append(frames, f)
  BY DEF Frame
<1>4. frames' \in Seq(Frame)
  BY <1>3
<1>5. SavedBalanced'
  <2> SUFFICES ASSUME NEW i \in 1..Len(frames') PROVE Balanced(frames'[i].escrow)
    BY DEF SavedBalanced
  <2>1. CASE i \in 1..Len(frames)
    BY <1>3, <2>1 DEF SavedBalanced
  <2>2. CASE i = Len(frames) + 1
    <3>1. frames'[i] = f
      BY <1>3, <2>2
    <3> QED
      BY <3>1 DEF Balanced, BucketsMatchBalance
  <2> QED
    BY <1>3, <2>1, <2>2
<1> QED
  BY <1>1, <1>2, <1>4, <1>5

(* A sequence without its last element. *)
LEMMA Front ==
    ASSUME NEW S, NEW s \in Seq(S), s # <<>>
    PROVE  /\ SubSeq(s, 1, Len(s) - 1) \in Seq(S)
           /\ Len(SubSeq(s, 1, Len(s) - 1)) = Len(s) - 1
           /\ \A i \in 1..(Len(s) - 1) : SubSeq(s, 1, Len(s) - 1)[i] = s[i]
<1>1. Len(s) \in Nat \ {0}
  OBVIOUS
<1> DEFINE n == Len(s) - 1
<1>2. n \in Nat /\ \A i \in 1..n : s[i] \in S
  BY <1>1
<1> HIDE DEF n
<1>3. /\ SubSeq(s, 1, n) \in Seq(S)
      /\ Len(SubSeq(s, 1, n)) = IF 1 <= n THEN n - 1 + 1 ELSE 0
      /\ \A i \in 1..(n - 1 + 1) : SubSeq(s, 1, n)[i] = s[1 + i - 1]
  BY <1>2, SubSeqProperties
<1>4. /\ Len(SubSeq(s, 1, n)) = n
      /\ \A i \in 1..n : SubSeq(s, 1, n)[i] = s[i]
  BY <1>2, <1>3
<1> QED
  BY <1>3, <1>4 DEF n

(* Popping the stack keeps its type and its saved states. *)
LEMMA PopKeepsFrames ==
    ASSUME EscrowIInv, ~Idle, frames' = SubSeq(frames, 1, Len(frames) - 1)
    PROVE  /\ frames' \in Seq(Frame)
           /\ SavedBalanced'
           /\ Top \in Frame
           /\ Balanced(Top.escrow)
<1> USE DEF EscrowIInv, EscrowTypeOK, Idle
<1>1. Len(frames) \in Nat /\ Len(frames) > 0
  OBVIOUS
<1>2. Top \in Frame /\ Balanced(Top.escrow)
  BY <1>1 DEF Top, SavedBalanced
<1>3. frames' \in Seq(Frame) /\ Len(frames') = Len(frames) - 1
  BY Front
<1>4. \A i \in 1..Len(frames') : frames'[i] = frames[i]
  BY Front, <1>3
<1>5. SavedBalanced'
  BY <1>1, <1>3, <1>4 DEF SavedBalanced
<1> QED
  BY <1>2, <1>3, <1>5

-----------------------------------------------------------------------------
(* EscrowInv: BucketsMatchBalance (ReputationEscrow.sol:46) and the type   *)
(* invariant hold in every reachable state.                                *)
THEOREM EscrowInv == EscrowSpec => [](EscrowTypeOK /\ BucketsMatchBalance)
<1> USE RegistryAssumption, EscrowAssumption
<1>1. EscrowInit => EscrowIInv
  BY DEF EscrowInit, RegistryInit, EscrowIInv, EscrowTypeOK, BucketsMatchBalance,
         SavedBalanced, RegistryState, Registration, NoRegistration, EscrowState
<1>2. EscrowIInv /\ [EscrowNext]_evars => EscrowIInv'
  <2> SUFFICES ASSUME EscrowIInv, [EscrowNext]_evars PROVE EscrowIInv'
    OBVIOUS
  <2>1. CASE RegistryStep
    <3>1. registry' \in RegistryState /\ now' \in 1..MaxTime
      <4> USE DEF EscrowIInv, EscrowTypeOK, RegistryState
      <4>1. CASE Tick
        BY <4>1 DEF Tick
      <4>2. ASSUME NEW z \in Zone, addZone(z) \/ removeZone(z)
            PROVE registry' \in RegistryState /\ now' \in 1..MaxTime
        <5>1. registry.validZones \cup {z} \in SUBSET Zone
              /\ registry.validZones \ {z} \in SUBSET Zone
          OBVIOUS
        <5>2. CASE addZone(z)
          BY <5>1, <5>2 DEF addZone
        <5>3. CASE removeZone(z)
          BY <5>1, <5>3 DEF removeZone
        <5> QED
          BY <4>2, <5>2, <5>3
      <4>3. ASSUME NEW b \in BOOLEAN, setRegistryPaused(b)
            PROVE registry' \in RegistryState /\ now' \in 1..MaxTime
        BY <4>3 DEF setRegistryPaused
      <4>4. ASSUME NEW p \in Provider, deactivate(p)
            PROVE registry' \in RegistryState /\ now' \in 1..MaxTime
        BY <4>4 DEF deactivate, Registration
      <4>5. ASSUME NEW p \in Provider, NEW z \in Zone, register(p, z)
            PROVE registry' \in RegistryState /\ now' \in 1..MaxTime
        BY <4>5 DEF register, Registration
      <4> QED
        BY <2>1, <4>1, <4>2, <4>3, <4>4, <4>5 DEF RegistryStep
    <3>2. UNCHANGED <<escrow, wallets, frames>>
      BY <2>1 DEF RegistryStep
    <3> QED
      BY <3>1, <3>2 DEF EscrowIInv, EscrowTypeOK, BucketsMatchBalance, SavedBalanced
  <2>2. ASSUME NEW pol \in Policy, setPolicy(pol) PROVE EscrowIInv'
    BY <2>2 DEF setPolicy, EscrowIInv, EscrowTypeOK, EscrowState,
                BucketsMatchBalance, SavedBalanced
  <2>3. ASSUME NEW b \in BOOLEAN, setEscrowPaused(b) PROVE EscrowIInv'
    BY <2>3 DEF setEscrowPaused, EscrowIInv, EscrowTypeOK, EscrowState,
                BucketsMatchBalance, SavedBalanced
  <2>4. ASSUME NEW v \in Amount, fundRewardPool(v)
        PROVE EscrowIInv'
    <3>1. v \in Nat /\ escrow.rewardPool + v \in Nat /\ escrow.balance + v \in Nat
      BY <2>4 DEF fundRewardPool, EscrowIInv, EscrowTypeOK, EscrowState
    <3>2. escrow' \in EscrowState
      BY <2>4, <3>1 DEF fundRewardPool, EscrowIInv, EscrowTypeOK, EscrowState
    <3>3. /\ escrow'.totalStaked = escrow.totalStaked
          /\ escrow'.rewardPool = escrow.rewardPool + v
          /\ escrow'.balance = escrow.balance + v
      BY <2>4 DEF fundRewardPool, EscrowIInv, EscrowTypeOK, EscrowState
    <3>4. BucketsMatchBalance'
      BY <3>1, <3>3, Books DEF BucketsMatchBalance
    <3> QED
      BY <2>4, <3>2, <3>4 DEF fundRewardPool, EscrowIInv, EscrowTypeOK, SavedBalanced, Account
  <2>5. ASSUME NEW v \in Amount, NEW a \in Account, withdrawRewardPool(a, v)
        PROVE EscrowIInv'
    <3> DEFINE after == [escrow EXCEPT !.rewardPool = @ - v]
    <3>0. v \in Nat /\ escrow.rewardPool - v \in Nat
      BY <2>5 DEF withdrawRewardPool, EscrowIInv, EscrowTypeOK, EscrowState
    <3>1. /\ after \in EscrowState
          /\ after.balance = after.totalStaked + after.rewardPool + v
      <4>1. after \in EscrowState
        BY <3>0 DEF EscrowIInv, EscrowTypeOK, EscrowState
      <4>2. /\ after.balance = escrow.balance
            /\ after.totalStaked = escrow.totalStaked
            /\ after.rewardPool = escrow.rewardPool - v
        BY DEF EscrowIInv, EscrowTypeOK, EscrowState
      <4> HIDE DEF after
      <4> QED
        BY <3>0, <4>1, <4>2, Books
    <3>2. SendAfter(after, a, v) /\ v \in Nat
      BY <2>5 DEF withdrawRewardPool
    <3> HIDE DEF after
    <3> QED
      BY <3>1, <3>2, SendKeepsInvariant
  <2>6. ASSUME NEW p \in Provider, NEW v \in Amount, stake(p, v)
        PROVE EscrowIInv'
    <3>0. /\ v \in Nat /\ escrow.stakes[p] \in Nat /\ now \in 0..MaxTime
          /\ escrow.reputationScore[p] \in Int
      BY DEF EscrowIInv, EscrowTypeOK, EscrowState
    <3>1. /\ v \in Nat /\ now \in 0..MaxTime
          /\ escrow.stakes[p] + v \in Nat /\ escrow.totalStaked + v \in Nat
          /\ escrow.balance + v \in Nat
      BY <2>6, <3>0, Books DEF stake
    <3>2. escrow' \in EscrowState
      BY <2>6, <3>1 DEF stake, EscrowIInv, EscrowTypeOK, EscrowState
    <3>3. /\ escrow'.totalStaked = escrow.totalStaked + v
          /\ escrow'.rewardPool = escrow.rewardPool
          /\ escrow'.balance = escrow.balance + v
      BY <2>6 DEF stake, EscrowIInv, EscrowTypeOK, EscrowState
    <3>4. BucketsMatchBalance'
      BY <3>1, <3>3, Books DEF BucketsMatchBalance
    <3> QED
      BY <2>6, <3>2, <3>4 DEF stake, EscrowIInv, EscrowTypeOK, SavedBalanced, Account
  <2>7. ASSUME NEW p \in Provider, NEW v \in Amount, withdraw(p, v)
        PROVE EscrowIInv'
    <3> DEFINE after == [escrow EXCEPT !.stakes[p] = @ - v, !.totalStaked = @ - v]
    <3>0. /\ v \in Nat
          /\ escrow.stakes[p] - v \in Nat /\ escrow.totalStaked - v \in Nat
      BY <2>7 DEF withdraw, mayWithdraw, EscrowIInv, EscrowTypeOK, EscrowState
    <3>1. /\ after \in EscrowState
          /\ after.balance = after.totalStaked + after.rewardPool + v
      <4>1. after \in EscrowState
        BY <3>0 DEF EscrowIInv, EscrowTypeOK, EscrowState
      <4>2. /\ after.balance = escrow.balance
            /\ after.totalStaked = escrow.totalStaked - v
            /\ after.rewardPool = escrow.rewardPool
        BY DEF EscrowIInv, EscrowTypeOK, EscrowState
      <4> HIDE DEF after
      <4> QED
        BY <3>0, <4>1, <4>2, Books
    <3>2. SendAfter(after, p, v) /\ v \in Nat /\ p \in Account
      BY <2>7 DEF withdraw, Account
    <3> HIDE DEF after
    <3> QED
      BY <3>1, <3>2, SendKeepsInvariant
  <2>8. ASSUME NEW p \in Provider, NEW v \in Amount, reward(p, v)
        PROVE EscrowIInv'
    <3>0. /\ v \in Nat /\ escrow.stakes[p] \in Nat /\ now \in 0..MaxTime
          /\ escrow.reputationScore[p] \in Int
      BY DEF EscrowIInv, EscrowTypeOK, EscrowState
    <3>1. /\ v \in Nat /\ escrow.rewardPool - v \in Nat
          /\ escrow.stakes[p] + v \in Nat /\ escrow.totalStaked + v \in Nat
          /\ escrow.reputationScore[p] + 1 \in Int
      BY <2>8, <3>0, Books DEF reward
    <3>2. escrow' \in EscrowState
      BY <2>8, <3>1 DEF reward, EscrowIInv, EscrowTypeOK, EscrowState
    <3>3. /\ escrow'.totalStaked = escrow.totalStaked + v
          /\ escrow'.rewardPool = escrow.rewardPool - v
          /\ escrow'.balance = escrow.balance
      BY <2>8 DEF reward, EscrowIInv, EscrowTypeOK, EscrowState
    <3>4. BucketsMatchBalance'
      BY <3>1, <3>3, Books DEF BucketsMatchBalance
    <3> QED
      BY <2>8, <3>2, <3>4 DEF reward, EscrowIInv, EscrowTypeOK, SavedBalanced, Account
  <2>9. ASSUME NEW p \in Provider, NEW v \in Amount, slash(p, v)
        PROVE EscrowIInv'
    <3>0. /\ v \in Nat /\ escrow.stakes[p] \in Nat /\ now \in 0..MaxTime
          /\ escrow.reputationScore[p] \in Int
      BY DEF EscrowIInv, EscrowTypeOK, EscrowState
    <3>1. /\ v \in Nat
          /\ escrow.stakes[p] - v \in Nat /\ escrow.totalStaked - v \in Nat
          /\ escrow.rewardPool + v \in Nat /\ escrow.reputationScore[p] - 1 \in Int
      BY <2>9, <3>0, Books DEF slash, slashable
    <3>2. escrow' \in EscrowState
      BY <2>9, <3>1 DEF slash, slashable, EscrowIInv, EscrowTypeOK, EscrowState
    <3>3. /\ escrow'.totalStaked = escrow.totalStaked - v
          /\ escrow'.rewardPool = escrow.rewardPool + v
          /\ escrow'.balance = escrow.balance
      BY <2>9 DEF slash, slashable, EscrowIInv, EscrowTypeOK, EscrowState
    <3>4. BucketsMatchBalance'
      BY <3>1, <3>3, Books DEF BucketsMatchBalance
    <3> QED
      BY <2>9, <3>2, <3>4 DEF slash, slashable, EscrowIInv, EscrowTypeOK, SavedBalanced, Account
  <2>10. CASE SendReturns
    BY <2>10, PopKeepsFrames
       DEF SendReturns, EscrowIInv, EscrowTypeOK, BucketsMatchBalance
  <2>11. CASE SendReverts
    BY <2>11, PopKeepsFrames
       DEF SendReverts, EscrowIInv, EscrowTypeOK, BucketsMatchBalance, Frame, Balanced
  <2>12. CASE UNCHANGED evars
    BY <2>12 DEF evars, EscrowIInv, EscrowTypeOK, BucketsMatchBalance, SavedBalanced
  <2> QED
    BY <2>1, <2>2, <2>3, <2>4, <2>5, <2>6, <2>7, <2>8, <2>9, <2>10, <2>11, <2>12
       DEF EscrowNext, EscrowStep
<1>3. EscrowIInv => EscrowTypeOK /\ BucketsMatchBalance
  BY DEF EscrowIInv
<1> QED
  BY <1>1, <1>2, <1>3, PTL DEF EscrowSpec

(* A step that lowers a stake pays it to its provider, slashes it into the  *)
(* pool within the cap, or undoes a payment (ReputationEscrow.sol:169-239). *)
MovesByRule ==
    \A p \in Provider : escrow'.stakes[p] < escrow.stakes[p] =>
         LET d == escrow.stakes[p] - escrow'.stakes[p] IN
         \/ wallets'[p] = wallets[p] + d
         \/ /\ escrow'.rewardPool = escrow.rewardPool + d
            /\ d <= escrow.policy.cap /\ wallets' = wallets
         \/ Len(frames') < Len(frames)

LEMMA StepMovesByRule ==
    ASSUME EscrowTypeOK, [EscrowNext]_evars PROVE MovesByRule
<1>0. /\ escrow \in EscrowState
      /\ escrow.stakes \in [Provider -> Nat] /\ wallets \in [Account -> Nat]
      /\ Provider \subseteq Account /\ Amount \subseteq Nat
  BY EscrowAssumption DEF EscrowTypeOK, EscrowState, Account
<1>1. ASSUME UNCHANGED escrow.stakes PROVE MovesByRule
  BY <1>0, <1>1 DEF MovesByRule
<1>2. CASE RegistryStep \/ UNCHANGED evars \/ SendReturns
  BY <1>1, <1>2 DEF RegistryStep, evars, SendReturns
<1>3. CASE \/ \E pol \in Policy : setPolicy(pol)
           \/ \E b \in BOOLEAN : setEscrowPaused(b)
           \/ \E v \in Amount : fundRewardPool(v)
           \/ \E v \in Amount, a \in Account : withdrawRewardPool(a, v)
  BY <1>0, <1>1, <1>3
  DEF setPolicy, setEscrowPaused, fundRewardPool, withdrawRewardPool, SendAfter, EscrowState
<1>4. ASSUME NEW q \in Provider, NEW v \in Amount, stake(q, v) \/ reward(q, v)
      PROVE  MovesByRule
  <2>1. v \in Nat /\ escrow'.stakes = [escrow.stakes EXCEPT ![q] = @ + v]
    BY <1>0, <1>4 DEF stake, reward, EscrowState
  <2>2. \A p \in Provider : ~(escrow'.stakes[p] < escrow.stakes[p])
    BY <1>0, <2>1
  <2> QED
    BY <2>2 DEF MovesByRule
<1>5. ASSUME NEW q \in Provider, NEW v \in Amount, withdraw(q, v) PROVE MovesByRule
  <2>1. /\ v \in Nat /\ escrow'.stakes = [escrow.stakes EXCEPT ![q] = @ - v]
        /\ wallets' = [wallets EXCEPT ![q] = @ + v]
    BY <1>0, <1>5 DEF withdraw, mayWithdraw, SendAfter, EscrowState
  <2>2. \A p \in Provider : escrow'.stakes[p] = escrow.stakes[p] - (IF p = q THEN v ELSE 0)
    BY <1>0, <2>1
  <2>3. wallets'[q] = wallets[q] + v
    BY <1>0, <2>1
  <2>4. ASSUME NEW p \in Provider, escrow'.stakes[p] < escrow.stakes[p]
        PROVE  p = q /\ escrow.stakes[p] - escrow'.stakes[p] = v
    BY <1>0, <2>1, <2>2, <2>4
  <2> QED
    BY <2>3, <2>4 DEF MovesByRule
<1>6. ASSUME NEW q \in Provider, NEW v \in Amount, slash(q, v) PROVE MovesByRule
  <2>1. /\ v \in Nat /\ v <= escrow.policy.cap
        /\ escrow'.stakes = [escrow.stakes EXCEPT ![q] = @ - v]
        /\ escrow'.rewardPool = escrow.rewardPool + v
        /\ wallets' = wallets
    BY <1>0, <1>6 DEF slash, slashable, EscrowState
  <2>2. \A p \in Provider : escrow'.stakes[p] = escrow.stakes[p] - (IF p = q THEN v ELSE 0)
    BY <1>0, <2>1
  <2>3. ASSUME NEW p \in Provider, escrow'.stakes[p] < escrow.stakes[p]
        PROVE  escrow.stakes[p] - escrow'.stakes[p] = v
    BY <1>0, <2>1, <2>2, <2>3
  <2> QED
    BY <2>1, <2>3 DEF MovesByRule
<1>7. CASE SendReverts
  <2>1. Len(frames) \in Nat /\ Len(frames) # 0
    BY <1>7 DEF SendReverts, Idle
  <2>2. frames' = SubSeq(frames, 1, Len(frames) - 1)
    BY <1>7 DEF SendReverts
  <2>3. Len(frames') = Len(frames) - 1
    <3>1. frames \in Seq(Frame)
      BY DEF EscrowTypeOK
    <3> QED
      BY <2>1, <2>2, <3>1, Front
  <2> QED
    BY <2>1, <2>3 DEF MovesByRule
<1> QED
  BY <1>2, <1>3, <1>4, <1>5, <1>6, <1>7 DEF EscrowNext, EscrowStep

(* Principal leaves a provider's stake by a withdrawal to that provider, a  *)
(* slash within the cap, or the revert of a payment, and in no other way,   *)
(* however calls nest (ReputationEscrow.sol:169-239).                      *)
THEOREM PrincipalProven == EscrowSpec => PrincipalMovesByRule
<1>1. EscrowTypeOK /\ [EscrowNext]_evars => [MovesByRule]_evars
  BY StepMovesByRule
<1> QED
  BY <1>1, EscrowInv, PTL DEF EscrowSpec, PrincipalMovesByRule, MovesByRule

-----------------------------------------------------------------------------
(* The sum of the stakes *)

Summed(e) == SumFunction(e.stakes) = e.totalStaked

(* A revert restores a saved state, so the saved stakes must add up too. *)
SumInv == Summed(escrow) /\ \A i \in 1..Len(frames) : Summed(frames[i].escrow)

(* A stake changes and the total by the same amount. *)
LEMMA Restaked ==
    ASSUME NEW e \in EscrowState, NEW d \in EscrowState, Summed(e),
           NEW p \in Provider, NEW n \in Nat,
           d.stakes = [e.stakes EXCEPT ![p] = n],
           d.totalStaked = e.totalStaked - e.stakes[p] + n
    PROVE  Summed(d)
<1>1. e.stakes \in [Provider -> Nat] /\ e.totalStaked \in Nat
  BY DEF EscrowState
<1>2. SumFunction(d.stakes) = SumFunction(e.stakes) - e.stakes[p] + n
  BY <1>1, EscrowAssumption, SumExcept
<1>3. QED BY <1>2 DEF Summed

(* The frames: as they are, one more that saves the state, or one less. *)
LEMMA SavedSummed ==
    ASSUME EscrowTypeOK, SumInv,
           \/ frames' = frames
           \/ \E f \in Frame : f.escrow = escrow /\ frames' = Append(frames, f)
           \/ ~Idle /\ frames' = SubSeq(frames, 1, Len(frames) - 1)
    PROVE  \A i \in 1..Len(frames') : Summed(frames'[i].escrow)
<1>0. frames \in Seq(Frame)
  BY DEF EscrowTypeOK
<1>1. CASE frames' = frames
  BY <1>1 DEF SumInv
<1>2. ASSUME NEW f \in Frame, f.escrow = escrow, frames' = Append(frames, f),
             NEW i \in 1..Len(frames')
      PROVE  Summed(frames'[i].escrow)
  <2>1. CASE i \in 1..Len(frames)
    BY <1>0, <1>2, <2>1 DEF SumInv
  <2>2. CASE i = Len(frames) + 1
    BY <1>0, <1>2, <2>2 DEF SumInv
  <2>3. QED BY <1>0, <1>2, <2>1, <2>2
<1>3. CASE ~Idle /\ frames' = SubSeq(frames, 1, Len(frames) - 1)
  <2>1. /\ Len(frames) \in Nat /\ Len(frames') = Len(frames) - 1
        /\ \A i \in 1..Len(frames') : frames'[i] = frames[i]
    BY <1>0, <1>3, Front DEF Idle
  <2>2. QED BY <2>1 DEF SumInv
<1>4. QED BY <1>1, <1>2, <1>3

LEMMA SendSums ==
    ASSUME EscrowTypeOK, SumInv, NEW to \in Account, NEW v,
           NEW STATE after, Summed(after), after \in EscrowState,
           SendAfter(after, to, v)
    PROVE  SumInv'
<1>1. escrow'.stakes = after.stakes /\ escrow'.totalStaked = after.totalStaked
  BY DEF SendAfter, EscrowState
<1>2. Summed(escrow)'
  BY <1>1 DEF Summed
<1> DEFINE f == [to |-> to, escrow |-> escrow, registry |-> registry, wallets |-> wallets]
<1>3. f \in Frame /\ f.escrow = escrow /\ frames' = Append(frames, f)
  BY DEF EscrowTypeOK, Frame, SendAfter
<1>4. QED BY <1>2, <1>3, SavedSummed DEF SumInv

LEMMA SumStepKept ==
    ASSUME EscrowTypeOK, EscrowTypeOK', SumInv, [EscrowNext]_evars
    PROVE  SumInv'
<1> USE EscrowAssumption
<1>0. /\ escrow \in EscrowState /\ escrow' \in EscrowState
      /\ escrow.stakes \in [Provider -> Nat] /\ escrow.totalStaked \in Nat
  BY DEF EscrowTypeOK, EscrowState
<1>1. ASSUME escrow'.stakes = escrow.stakes, escrow'.totalStaked = escrow.totalStaked,
             \/ frames' = frames
             \/ ~Idle /\ frames' = SubSeq(frames, 1, Len(frames) - 1)
      PROVE  SumInv'
  BY <1>1, SavedSummed DEF SumInv, Summed
<1>2. CASE RegistryStep \/ UNCHANGED evars \/ SendReturns
  BY <1>1, <1>2 DEF RegistryStep, evars, SendReturns
<1>3. CASE \/ \E pol \in Policy : setPolicy(pol)
           \/ \E b \in BOOLEAN : setEscrowPaused(b)
           \/ \E v \in Amount : fundRewardPool(v)
  BY <1>0, <1>1, <1>3 DEF setPolicy, setEscrowPaused, fundRewardPool, EscrowState
<1>4. ASSUME NEW v \in Amount, NEW a \in Account, withdrawRewardPool(a, v)
      PROVE  SumInv'
  <2> DEFINE after == [escrow EXCEPT !.rewardPool = @ - v]
  <2>1. v \in Nat /\ escrow.rewardPool - v \in Nat
    BY <1>0, <1>4 DEF withdrawRewardPool, EscrowState
  <2>2. /\ after \in EscrowState
        /\ after.stakes = escrow.stakes /\ after.totalStaked = escrow.totalStaked
    BY <1>0, <2>1 DEF EscrowState
  <2>3. SendAfter(after, a, v)
    BY <1>4 DEF withdrawRewardPool
  <2> HIDE DEF after
  <2>4. Summed(after)
    BY <2>2 DEF SumInv, Summed
  <2>5. QED BY <2>2, <2>3, <2>4, SendSums
<1>5. ASSUME NEW p \in Provider, NEW v \in Amount, stake(p, v) \/ reward(p, v) \/ slash(p, v)
      PROVE  SumInv'
  <2>1. v \in Nat /\ escrow.stakes[p] \in Nat
    BY <1>0
  <2>2. PICK n \in Nat : /\ escrow'.stakes = [escrow.stakes EXCEPT ![p] = n]
                         /\ escrow'.totalStaked = escrow.totalStaked - escrow.stakes[p] + n
    <3>1. CASE stake(p, v) \/ reward(p, v)
      <4>1. /\ escrow'.stakes = [escrow.stakes EXCEPT ![p] = escrow.stakes[p] + v]
            /\ escrow'.totalStaked = escrow.totalStaked + v
        BY <1>0, <3>1 DEF stake, reward, EscrowState
      <4>2. escrow.stakes[p] + v \in Nat
        BY <2>1
      <4>3. escrow.totalStaked + v = escrow.totalStaked - escrow.stakes[p] + (escrow.stakes[p] + v)
        BY <1>0, <2>1
      <4>4. QED BY <4>1, <4>2, <4>3
    <3>2. CASE slash(p, v)
      <4>1. /\ escrow'.stakes = [escrow.stakes EXCEPT ![p] = escrow.stakes[p] - v]
            /\ escrow'.totalStaked = escrow.totalStaked - v
            /\ v <= escrow.stakes[p]
        BY <1>0, <3>2 DEF slash, slashable, EscrowState
      <4>2. escrow.stakes[p] - v \in Nat
        BY <2>1, <4>1
      <4>3. escrow.totalStaked - v = escrow.totalStaked - escrow.stakes[p] + (escrow.stakes[p] - v)
        BY <1>0, <2>1
      <4>4. QED BY <4>1, <4>2, <4>3
    <3>3. QED BY <1>5, <3>1, <3>2
  <2>3. Summed(escrow')
    BY <1>0, <2>2, Restaked DEF SumInv
  <2>4. frames' = frames
    BY <1>5 DEF stake, reward, slash
  <2>5. QED BY <2>3, <2>4, SavedSummed DEF SumInv
<1>6. ASSUME NEW p \in Provider, NEW v \in Amount, withdraw(p, v)
      PROVE  SumInv'
  <2> DEFINE after == [escrow EXCEPT !.stakes[p] = @ - v, !.totalStaked = @ - v]
             n == escrow.stakes[p] - v
  <2>1. /\ v \in Nat /\ escrow.stakes[p] \in Nat /\ n \in Nat
        /\ escrow.totalStaked - v \in Nat
    BY <1>0, <1>6 DEF withdraw, mayWithdraw
  <2>2. /\ after \in EscrowState
        /\ after.stakes = [escrow.stakes EXCEPT ![p] = n]
        /\ after.totalStaked = escrow.totalStaked - v
    BY <1>0, <2>1 DEF EscrowState
  <2>3. escrow.totalStaked - v = escrow.totalStaked - escrow.stakes[p] + n
    BY <1>0, <2>1
  <2>4. SendAfter(after, p, v) /\ p \in Account
    BY <1>6 DEF withdraw, Account
  <2> HIDE DEF after, n
  <2>5. Summed(after)
    BY <1>0, <2>1, <2>2, <2>3, Restaked DEF SumInv
  <2>6. QED BY <2>2, <2>4, <2>5, SendSums
<1>7. CASE SendReverts
  <2>1. ~Idle /\ escrow' = Top.escrow /\ frames' = SubSeq(frames, 1, Len(frames) - 1)
    BY <1>7 DEF SendReverts
  <2>2. Summed(Top.escrow)
    <3>1. frames \in Seq(Frame) /\ frames # <<>>
      BY <2>1 DEF EscrowTypeOK, Idle
    <3>2. Len(frames) \in 1..Len(frames)
      BY <3>1
    <3>3. QED BY <3>2 DEF SumInv, Top
  <2>3. QED BY <2>1, <2>2, SavedSummed DEF SumInv
<1>8. QED
  BY <1>2, <1>3, <1>4, <1>5, <1>6, <1>7 DEF EscrowNext, EscrowStep

(* `totalStaked` is the sum of all provider stakes (ReputationEscrow.sol:49) *)
(* for any number of providers, so the checked subtractions of withdraw     *)
(* and slash block no payout, however calls nest and revert.                *)
THEOREM StakesSumProven == EscrowSpec => []StakesSumToTotal
<1>1. EscrowInit => SumInv
  <2> SUFFICES ASSUME EscrowInit PROVE SumInv
    OBVIOUS
  <2> DEFINE f == [p \in Provider |-> 0]
  <2>1. /\ escrow.stakes = f /\ escrow.totalStaked = 0 /\ frames = <<>>
    BY DEF EscrowInit
  <2>2. SumFunction(f) = Sum(f, Provider)
    BY DEF SumFunction, Sum
  <2>3. Sum(f, Provider) = 0
    BY EscrowAssumption, SumZero
  <2>4. QED BY <2>1, <2>2, <2>3 DEF SumInv, Summed
<1>2. EscrowTypeOK /\ EscrowTypeOK' /\ SumInv /\ [EscrowNext]_evars => SumInv'
  BY SumStepKept
<1>3. SumInv => StakesSumToTotal
  BY DEF SumInv, Summed, StakesSumToTotal
<1>4. QED BY <1>1, <1>2, <1>3, EscrowInv, PTL DEF EscrowSpec

-----------------------------------------------------------------------------
(* Leaving *)

(* The checks of withdraw pass for the whole stake of a deactivated        *)
(* provider: a stake is no more than the sum of the stakes, which is what  *)
(* the contract keeps, in ether, apart from the pool.                      *)
LEMMA LeaverIsPaid ==
    ASSUME EscrowTypeOK, BucketsMatchBalance, StakesSumToTotal
    PROVE  DeactivatedMayLeave
<1> SUFFICES ASSUME NEW p \in Provider,
                    ProviderMayCall, Len(frames) < MaxDepth, ~escrow.paused,
                    ~isActive(p), escrow.stakes[p] > 0,
                    now >= escrow.lastStakedAt[p] + escrow.policy.cooldown
             PROVE  mayWithdraw(p, escrow.stakes[p]) /\ canSend(escrow, escrow.stakes[p])
  BY DEF DeactivatedMayLeave
<1>1. /\ escrow.stakes \in [Provider -> Nat] /\ escrow.stakes[p] \in Nat
      /\ escrow.totalStaked \in Nat /\ escrow.rewardPool \in Nat
      /\ escrow.balance = escrow.totalStaked + escrow.rewardPool
  BY DEF EscrowTypeOK, EscrowState, BucketsMatchBalance
<1>2. escrow.stakes[p] <= escrow.totalStaked
  <2>1. escrow.stakes[p] <= SumFunction(escrow.stakes)
    BY <1>1, EscrowAssumption, SumExcept
  <2>2. QED BY <2>1 DEF StakesSumToTotal
<1>3. escrow.lastStakedAt[p] + escrow.policy.cooldown <= MaxUint64
  <2>1. /\ escrow.lastStakedAt[p] \in 0..MaxTime
        /\ escrow.policy.cooldown \in 0..MaxUint64
        /\ now \in 1..MaxTime
    BY DEF EscrowTypeOK, EscrowState, PolicyType
  <2>2. MaxTime \in Nat /\ MaxUint64 \in Nat /\ MaxTime <= MaxUint64
    BY EscrowAssumption, RegistryAssumption
  <2>3. QED BY <2>1, <2>2
<1>4. mayWithdraw(p, escrow.stakes[p])
  BY <1>1, <1>2, <1>3 DEF mayWithdraw, floorAllows
<1>5. canSend(escrow, escrow.stakes[p])
  BY <1>1, <1>2 DEF canSend
<1>6. QED BY <1>4, <1>5

(* A provider deactivated in the registry may withdraw in full once the    *)
(* cool-down has elapsed (ReputationEscrow.sol:167), for any number of     *)
(* providers and whatever happened to the contract before.                 *)
THEOREM LeaverIsPaidProven == EscrowSpec => []DeactivatedMayLeave
BY LeaverIsPaid, EscrowInv, StakesSumProven, PTL

=============================================================================
