------------------------- MODULE MCApprovalPipeline -------------------------
(* Instances of ApprovalPipeline for TLC. *)
EXTENDS ApprovalPipeline, TLC

CONSTANTS c1, c2, c3, s1, s2, r1

MCOneSlot == [c \in Candidate |-> s1]

(* c1 needs a second opinion, the others only the gate's. *)
MCConfidence == [c \in Candidate |-> IF c = c1 THEN 84 ELSE 85]

MCAmbiguous == [c \in Candidate |-> 50]
MCApproved == [c \in Candidate |-> 85]
=============================================================================
