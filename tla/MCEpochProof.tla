---------------------------- MODULE MCEpochProof ----------------------------
(* Instances of EpochProof for TLC. *)
EXTENDS EpochProof, TLC

CONSTANTS c1, c2, c3, s1, s2, t1, t2

MCOneSlot == [c \in Candidate |-> s1]
MCTwoSlots == [c \in Candidate |-> IF c = c1 THEN s1 ELSE s2]

(* Confidences on both sides of the thresholds. *)
MCApproved == [c \in Candidate |-> 85]
MCAmbiguous == [c \in Candidate |-> 84]
MCAmbiguousAndApproved == [c \in Candidate |-> IF c = c1 THEN 84 ELSE 85]
MCApprovedAndRejected == [c \in Candidate |-> IF c = c1 THEN 85 ELSE 49]

(* Hashes are interchangeable: no row orders or compares them. *)
TxSymmetry == Permutations(Tx)
=============================================================================
