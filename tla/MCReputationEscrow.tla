------------------------- MODULE MCReputationEscrow -------------------------
(* Instances of ReputationEscrow for TLC. *)
EXTENDS ReputationEscrow, TLC

CONSTANTS p1, p2, z1

(* The deployed policy, and one with a higher floor, a lower cap and a     *)
(* cool-down so long that the checked uint64 sum overflows.                *)
MCInitialPolicy == [cap |-> 1, floor |-> 1, cooldown |-> 1]
MCPolicy == {MCInitialPolicy, [cap |-> 2, floor |-> 0, cooldown |-> MaxUint64]}
MCAmount == {1, 2}

ProviderSymmetry == Permutations(Provider)
=============================================================================
