----------------------------- MODULE EpochMath ------------------------------
(***************************************************************************)
(* smart-contracts/src/libraries/EpochMath.sol.  Word is 2^64; epochKey, a *)
(* hash of the (zone, epochStart) pair, is the pair itself.                *)
(***************************************************************************)
EXTENDS Naturals

CONSTANT Word

ASSUME WordAssumption == Word \in Nat \ {0}

BPS_DENOMINATOR == 10000

(* Fault: the start is not checked. *)
isAlignedEpoch_Any(epochStart, epochDuration) == epochDuration # 0

isAlignedEpoch(epochStart, epochDuration) ==
    epochDuration # 0 /\ epochStart % epochDuration = 0

(* Fault: an epoch that has started counts as past. *)
isPastEpoch_Started(epochStart, epochDuration, nowTs) == epochStart <= nowTs

(* The sum is unchecked: it wraps around at 2^64. *)
isPastEpoch(epochStart, epochDuration, nowTs) ==
    (epochStart + epochDuration) % Word <= nowTs

isValidBps(bps) == bps <= BPS_DENOMINATOR

=============================================================================
