---------------------------- MODULE MCSeedReset ----------------------------
(* The seed's candidates of its Zone A, for TLC. *)
EXTENDS SeedReset, TLC

CONSTANTS outage, restored, flicker, s10, s11, t1, t2

MCSlotOf == [c \in Candidate |-> IF c = flicker THEN s11 ELSE s10]
MCConfidence == [c \in Candidate |->
                    IF c = outage THEN 95 ELSE IF c = restored THEN 65 ELSE 20]
MCSeedOrder == [s \in Slot |-> 0]
TxSymmetry == Permutations(Tx)
=============================================================================
