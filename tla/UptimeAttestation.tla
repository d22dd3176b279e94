------------------------- MODULE UptimeAttestation --------------------------
(***************************************************************************)
(* smart-contracts/src/UptimeAttestation.sol: one record per (zone, epoch) *)
(* written by the relayer, under an admin-tunable epoch duration and a     *)
(* pause switch.  As in NodeRegistry, a reverted call is a stuttering step.*)
(***************************************************************************)
EXTENDS EpochMath

CONSTANTS
    Zone,
    EpochStart,     \* uint64 values the relayer may submit
    Bps,            \* uint16 values the relayer may submit
    Hash,           \* evidence hashes
    Relayer,        \* holders of RELAYER_ROLE
    Duration,       \* values setEpochDuration may be called with
    NoEpoch,        \* the zero-valued struct
    MaxNow          \* bound on block.timestamp

ASSUME AttestationAssumption ==
    /\ EpochStart \subseteq 0..(Word - 1)
    /\ Duration \subseteq 0..(Word - 1)
    /\ \E d \in Duration : d # 0
    /\ Bps \subseteq Nat
    /\ MaxNow \in 0..(Word - 1)
    /\ NoEpoch \notin [uptimeBps : Nat, evidenceHash : Hash, submittedBy : Relayer]

VARIABLES
    epochs,         \* records by (zone, epochStart)
    epochDuration,
    paused,
    nowTs,          \* block.timestamp
    lengthOf        \* the epochDuration each record was committed under: the
                    \* contract stores no record's length

avars == <<epochs, epochDuration, paused, nowTs, lengthOf>>

EpochKey == Zone \X EpochStart

Epoch == [uptimeBps : Nat, evidenceHash : Hash, submittedBy : Relayer]

AttestationInit ==
    /\ epochs = [k \in EpochKey |-> NoEpoch]
    /\ epochDuration \in Duration \ {0}
    /\ paused = FALSE
    /\ nowTs = 0
    /\ lengthOf = [k \in EpochKey |-> 0]

(* Fault: an epoch without any uptime looks uncommitted. *)
isCommitted_ByScore(k) == epochs[k] # NoEpoch /\ epochs[k].uptimeBps # 0

isCommitted(k) == epochs[k] # NoEpoch

(* Fault: a duration of zero is accepted. *)
setEpochDuration_Zero(d) == epochDuration' = d /\ UNCHANGED <<epochs, paused, nowTs, lengthOf>>

setEpochDuration(d) ==
    /\ d # 0
    /\ epochDuration' = d
    /\ UNCHANGED <<epochs, paused, nowTs, lengthOf>>

setPaused(b) ==
    /\ paused # b
    /\ paused' = b
    /\ UNCHANGED <<epochs, epochDuration, nowTs, lengthOf>>

commitEpoch(k, bps, hash, relayer) ==
    /\ ~paused
    /\ ~isCommitted(k)
    /\ isValidBps(bps)
    /\ isAlignedEpoch(k[2], epochDuration)
    /\ isPastEpoch(k[2], epochDuration, nowTs)
    /\ epochs' = [epochs EXCEPT ![k] = [uptimeBps |-> bps, evidenceHash |-> hash,
                                        submittedBy |-> relayer]]
    /\ lengthOf' = [lengthOf EXCEPT ![k] = epochDuration]
    /\ UNCHANGED <<epochDuration, paused, nowTs>>

NextBlock ==
    /\ nowTs < MaxNow
    /\ nowTs' = nowTs + 1
    /\ UNCHANGED <<epochs, epochDuration, paused, lengthOf>>

AttestationNext ==
    \/ \E d \in Duration : setEpochDuration(d)
    \/ \E b \in BOOLEAN : setPaused(b)
    \/ \E k \in EpochKey, bps \in Bps, h \in Hash, r \in Relayer :
          commitEpoch(k, bps, h, r)
    \/ NextBlock

AttestationSpec == AttestationInit /\ [][AttestationNext]_avars

-----------------------------------------------------------------------------
(* Every record is a well-formed Epoch with a valid basis-point score. *)
AttestationTypeOK ==
    /\ epochs \in [EpochKey -> Epoch \cup {NoEpoch}]
    /\ epochDuration \in Duration \ {0}
    /\ paused \in BOOLEAN
    /\ nowTs \in 0..MaxNow
    /\ lengthOf \in [EpochKey -> Duration \cup {0}]

(* The records form the append-only ledger, whatever the admin does to the *)
(* epoch duration or the pause switch in between.                          *)
Ledger == INSTANCE AppendOnlyLedger
            WITH Key <- EpochKey, Value <- [uptimeBps : {b \in Bps : isValidBps(b)},
                                            evidenceHash : Hash,
                                            submittedBy : Relayer],
                 Empty <- NoEpoch, ledger <- epochs

AttestationIsLedger == Ledger!LedgerSpec

EndOf(k) == k[2] + lengthOf[k]

(* Whatever durations the admin sets in between, two records of a zone     *)
(* committed under the same duration never overlap, each measured by the   *)
(* duration it was committed under: the alignment and the duplicate check  *)
(* (UptimeAttestation.sol:88-95) keep every grid disjoint.  Records of     *)
(* different durations may overlap.                                        *)
GridsAreDisjoint ==
    \A j, k \in EpochKey :
        /\ j # k /\ j[1] = k[1]
        /\ isCommitted(j) /\ isCommitted(k) /\ lengthOf[j] = lengthOf[k]
        => EndOf(j) <= k[2] \/ EndOf(k) <= j[2]

(* isPastEpoch is to prevent "committing an epoch that hasn't finished     *)
(* yet" (EpochMath.sol:29), but its sum is unchecked (EpochMath.sol:34): a *)
(* record is written before its end only at the last epoch of its grid,    *)
(* whose end lies beyond the uint64 range.                                 *)
OnlyTheLastIsEarly ==
    \A k \in EpochKey : isCommitted(k) => EndOf(k) <= nowTs \/ EndOf(k) >= Word

=============================================================================
