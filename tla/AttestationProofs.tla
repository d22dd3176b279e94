-------------------------- MODULE AttestationProofs --------------------------
(***************************************************************************)
(* The contract implements the append-only ledger the rest of the system   *)
(* relies on.  Under whatever durations the admin sets, the records of one *)
(* duration do not overlap, and only the last epoch of the uint64 range is *)
(* committed before it is over.                                            *)
(***************************************************************************)
EXTENDS UptimeAttestation, TLAPS

(* The steps of the contract are commits of the ledger, or change none of  *)
(* its records.                                                            *)
LEMMA StepRefines ==
    ASSUME [AttestationNext]_avars
    PROVE  [Ledger!LedgerNext]_epochs
<1>1. ASSUME NEW k \in EpochKey, NEW bps \in Bps, NEW h \in Hash, NEW r \in Relayer,
             commitEpoch(k, bps, h, r)
      PROVE  Ledger!LedgerNext
  <2> DEFINE v == [uptimeBps |-> bps, evidenceHash |-> h, submittedBy |-> r]
  <2>1. v \in [uptimeBps : {b \in Bps : isValidBps(b)}, evidenceHash : Hash,
               submittedBy : Relayer]
    BY <1>1 DEF commitEpoch
  <2>2. Ledger!Commit(k, v)
    BY <1>1 DEF commitEpoch, isCommitted, Ledger!Commit, Ledger!isFree
  <2> HIDE DEF v
  <2>3. QED BY <2>1, <2>2 DEF Ledger!LedgerNext
<1>2. CASE UNCHANGED epochs
  BY <1>2
<1>3. QED
  BY <1>1, <1>2 DEF AttestationNext, setEpochDuration, setPaused, NextBlock, avars

(* Whatever the admin does to the epoch duration or the pause switch, a    *)
(* record, once written, is never changed or removed                       *)
(* (UptimeAttestation.sol:9-11).                                           *)
THEOREM AttestationRefines == AttestationSpec => AttestationIsLedger
<1>1. AttestationInit => Ledger!LedgerInit
  BY DEF AttestationInit, Ledger!LedgerInit
<1>2. QED
  BY <1>1, StepRefines, PTL DEF AttestationSpec, AttestationIsLedger, Ledger!LedgerSpec

-----------------------------------------------------------------------------
(* Distinct multiples of d are at least d apart. *)
LEMMA MultiplesApart ==
    ASSUME NEW d \in Nat \ {0}, NEW a \in Nat, NEW b \in Nat,
           a % d = 0, b % d = 0, a < b
    PROVE  a + d <= b
<1>1. PICK m \in Nat : a = d * m
  BY Z3
<1>2. PICK n \in Nat : b = d * n
  BY Z3
<1>3. m < n
  BY <1>1, <1>2
<1>4. d * (m + 1) <= d * n
  BY <1>3
<1>5. QED BY <1>1, <1>2, <1>4

(* A key's epoch start is a natural number. *)
LEMMA StartIsNat == \A k \in EpochKey : k[2] \in Nat
<1>1. \A n \in 0..(Word - 1) : n \in Nat
  BY WordAssumption
<1>2. QED BY <1>1, AttestationAssumption DEF EpochKey

-----------------------------------------------------------------------------
(* A record lies on the grid of the duration it was committed under, and   *)
(* is over unless its end does not fit in a uint64.                        *)
OnGrid(k) ==
    /\ lengthOf[k] # 0
    /\ k[2] % lengthOf[k] = 0
    /\ EndOf(k) <= nowTs \/ EndOf(k) >= Word

GridInv ==
    /\ nowTs \in Nat
    /\ epochDuration \in Duration \ {0}
    /\ DOMAIN epochs = EpochKey
    /\ lengthOf \in [EpochKey -> Nat]
    /\ \A k \in EpochKey : isCommitted(k) => OnGrid(k)

LEMMA DurationIsNat == \A d \in Duration : d \in Nat
<1>1. \A n \in 0..(Word - 1) : n \in Nat
  BY WordAssumption
<1>2. QED BY <1>1, AttestationAssumption

(* The unchecked sum of isPastEpoch lets an epoch through when it is over, *)
(* or when its end does not fit in the word.                               *)
LEMMA PastOrWrapped ==
    ASSUME NEW s \in Nat, NEW d \in Nat, NEW n \in Nat, isPastEpoch(s, d, n)
    PROVE  s + d <= n \/ s + d >= Word
<1>1. CASE s + d < Word
  <2>1. (s + d) % Word = s + d
    BY <1>1, WordAssumption
  <2>2. QED BY <2>1 DEF isPastEpoch
<1>2. CASE s + d >= Word
  BY <1>2
<1>3. QED BY <1>1, <1>2, WordAssumption

LEMMA CommitKeepsGrid ==
    ASSUME GridInv,
           NEW k \in EpochKey, NEW bps \in Bps, NEW h \in Hash, NEW r \in Relayer,
           commitEpoch(k, bps, h, r)
    PROVE  GridInv'
<1>1. epochDuration \in Nat /\ epochDuration # 0
  BY DurationIsNat DEF GridInv
<1>2. nowTs' = nowTs /\ epochDuration' = epochDuration
  BY DEF commitEpoch
<1>3. DOMAIN epochs' = EpochKey /\ lengthOf' \in [EpochKey -> Nat]
  BY <1>1 DEF commitEpoch, GridInv
<1>4. ASSUME NEW j \in EpochKey, isCommitted(j)'
      PROVE  OnGrid(j)'
  <2>1. CASE j = k
    <3>1. lengthOf'[k] = epochDuration
      BY DEF commitEpoch, GridInv
    <3>2. k[2] + epochDuration <= nowTs \/ k[2] + epochDuration >= Word
      BY <1>1, StartIsNat, PastOrWrapped DEF commitEpoch, GridInv
    <3>3. k[2] % epochDuration = 0
      BY DEF commitEpoch, isAlignedEpoch
    <3>4. QED BY <1>1, <1>2, <2>1, <3>1, <3>2, <3>3 DEF OnGrid, EndOf
  <2>2. CASE j # k
    <3>1. lengthOf'[j] = lengthOf[j] /\ isCommitted(j)
      BY <1>4, <2>2 DEF commitEpoch, GridInv, isCommitted
    <3>2. QED BY <1>2, <3>1 DEF GridInv, OnGrid, EndOf
  <2>3. QED BY <2>1, <2>2
<1>5. QED BY <1>2, <1>3, <1>4 DEF GridInv

LEMMA GridInvHolds == AttestationSpec => []GridInv
<1>1. AttestationInit => GridInv
  BY DEF AttestationInit, GridInv, isCommitted
<1>2. GridInv /\ [AttestationNext]_avars => GridInv'
  <2> SUFFICES ASSUME GridInv, [AttestationNext]_avars
               PROVE  GridInv'
    OBVIOUS
  <2>1. ASSUME NEW k \in EpochKey, NEW bps \in Bps, NEW h \in Hash, NEW r \in Relayer,
               commitEpoch(k, bps, h, r)
        PROVE  GridInv'
    BY <2>1, CommitKeepsGrid
  <2>2. ASSUME NEW d \in Duration, setEpochDuration(d)
        PROVE  GridInv'
    BY <2>2 DEF setEpochDuration, GridInv, OnGrid, EndOf, isCommitted
  <2>3. CASE NextBlock
    <3>1. nowTs \in Nat /\ nowTs' = nowTs + 1 /\ lengthOf' = lengthOf /\ epochs' = epochs
      BY <2>3 DEF NextBlock, GridInv
    <3>2. \A k \in EpochKey : k[2] \in Nat /\ lengthOf[k] \in Nat
      BY StartIsNat DEF GridInv
    <3>3. \A k \in EpochKey : OnGrid(k) => OnGrid(k)'
      BY <3>1, <3>2 DEF OnGrid, EndOf
    <3>4. QED BY <2>3, <3>1, <3>3 DEF NextBlock, GridInv, isCommitted
  <2>4. CASE UNCHANGED <<epochs, epochDuration, nowTs, lengthOf>>
    BY <2>4 DEF GridInv, OnGrid, EndOf, isCommitted
  <2>5. QED BY <2>1, <2>2, <2>3, <2>4 DEF AttestationNext, setPaused, avars
<1>3. QED BY <1>1, <1>2, PTL DEF AttestationSpec

(* Under whatever durations the admin sets and comes back to, the records  *)
(* of a zone that share one never overlap (UptimeAttestation.sol:88-95).   *)
THEOREM GridsDisjointProven == AttestationSpec => []GridsAreDisjoint
<1>1. GridInv => GridsAreDisjoint
  <2> SUFFICES ASSUME GridInv, NEW j \in EpochKey, NEW k \in EpochKey,
                      j # k, j[1] = k[1], isCommitted(j), isCommitted(k),
                      lengthOf[j] = lengthOf[k]
               PROVE  EndOf(j) <= k[2] \/ EndOf(k) <= j[2]
    BY DEF GridsAreDisjoint
  <2>1. lengthOf[k] \in Nat \ {0} /\ j[2] % lengthOf[k] = 0 /\ k[2] % lengthOf[k] = 0
    BY DEF GridInv, OnGrid
  <2>2. j[2] \in Nat /\ k[2] \in Nat
    BY StartIsNat
  <2>3. j[2] # k[2]
    BY DEF EpochKey
  <2>4. CASE j[2] < k[2]
    BY <2>1, <2>2, <2>4, MultiplesApart DEF EndOf
  <2>5. CASE k[2] < j[2]
    BY <2>1, <2>2, <2>5, MultiplesApart DEF EndOf
  <2>6. QED BY <2>2, <2>3, <2>4, <2>5
<1>2. QED BY <1>1, GridInvHolds, PTL

(* A record of an epoch that is not over is the last of its grid: only     *)
(* there does the unchecked sum wrap around (EpochMath.sol:34).            *)
THEOREM OnlyTheLastIsEarlyProven == AttestationSpec => []OnlyTheLastIsEarly
<1>1. GridInv => OnlyTheLastIsEarly
  BY DEF GridInv, OnGrid, OnlyTheLastIsEarly
<1>2. QED BY <1>1, GridInvHolds, PTL

=============================================================================
