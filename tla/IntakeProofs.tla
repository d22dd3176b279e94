---------------------------- MODULE IntakeProofs ----------------------------
(***************************************************************************)
(* Theorems about EvidenceIntake, for any readings, requests and sweeps:   *)
(* the bounds of DetectionRules, that no candidate runs the pipeline       *)
(* twice, that contradicting witnesses notice each other and that only a   *)
(* late reading contests a recorded silence.                               *)
(***************************************************************************)
EXTENDS EvidenceIntake, FiniteSetTheorems, TLAPS

-----------------------------------------------------------------------------
(* What the rules compute. *)

LEMMA FiniteImage ==
    ASSUME NEW S, IsFiniteSet(S), NEW f
    PROVE  IsFiniteSet({f[x] : x \in S})
<1> DEFINE T == {f[x] : x \in S}
           g == [x \in S |-> f[x]]
<1>1. g \in Surjection(S, T)
  BY DEF Surjection
<1> QED
  BY <1>1, FS_Surjection

LEMMA FiniteWitnesses ==
    ASSUME NEW S \in SUBSET Reading, IsFiniteSet(S)
    PROVE  /\ IsFiniteSet({About[q].witness : q \in S})
           /\ Cardinality({About[q].witness : q \in S}) \in Nat
<1> DEFINE f == [q \in Reading |-> About[q].witness]
<1>1. {f[q] : q \in S} = {About[q].witness : q \in S}
  OBVIOUS
<1>2. IsFiniteSet({f[q] : q \in S})
  BY FiniteImage
<1> QED
  BY <1>1, <1>2, FS_CardinalityType

LEMMA BonusIsNat ==
    ASSUME NEW r \in Reading, NEW S \in SUBSET Reading, IsFiniteSet(S)
    PROVE  agreementBonus(r, S) \in Nat
<1> DEFINE agreeing == {q \in others(r, S) : About[q].status = About[r].status}
           alike == {p \in agreeing : About[p].source = About[r].source}
           unlike == {p \in agreeing : About[p].source # About[r].source}
<1>1. alike \in SUBSET S /\ unlike \in SUBSET S
  BY DEF others
<1>2. IsFiniteSet(alike) /\ IsFiniteSet(unlike)
  BY <1>1, FS_Subset
<1>3. /\ Cardinality({About[q].witness : q \in alike}) \in Nat
      /\ Cardinality({About[q].witness : q \in unlike}) \in Nat
  BY <1>1, <1>2, FiniteWitnesses
<1> QED
  BY <1>3 DEF agreementBonus, MinOf

(* A confidence never exceeds MAX_AGREED_CONFIDENCE, and is held in the    *)
(* escalation band when a recent reading contradicts it.                   *)
LEMMA ScoreBounds ==
    ASSUME NEW r \in Reading, NEW S \in SUBSET Reading, IsFiniteSet(S)
    PROVE  /\ scoreAgreement(r, S) \in Nat /\ scoreAgreement(r, S) <= 9700
           /\ (\E q \in S : Conflicting(q, r)) => scoreAgreement(r, S) <= 8000
<1>1. PICK bonus \in Nat : bonus = agreementBonus(r, S)
  BY BonusIsNat
<1>2. PICK base \in Nat : base = confidenceForEvidence(r)
  BY DEF confidenceForEvidence
<1>3. PICK c : c = scoreAgreement(r, S)
  OBVIOUS
<1>4. CASE \E q \in S : Conflicting(q, r)
  <2>1. c = MinOf(base + bonus, 8000)
    BY <1>1, <1>2, <1>3, <1>4 DEF scoreAgreement, applyAgreement
  <2>2. c \in Nat /\ c <= 9700 /\ c <= 8000
    BY <2>1 DEF MinOf
  <2> QED
    BY <1>3, <2>2
<1>5. CASE ~\E q \in S : Conflicting(q, r)
  <2>1. c = MinOf(base + bonus, 9700)
    BY <1>1, <1>2, <1>3, <1>5 DEF scoreAgreement, applyAgreement
  <2>2. c \in Nat /\ c <= 9700
    BY <2>1 DEF MinOf
  <2> QED
    BY <1>3, <1>5, <2>2
<1> QED
  BY <1>4, <1>5

LEMMA QuotientIsNat ==
    ASSUME NEW a \in Nat, NEW b \in Nat \ {0}
    PROVE  a \div b \in Nat
BY SMT

LEMMA GapConfidenceBounds ==
    \A long, nodes \in Nat : long > GapLength /\ nodes >= 1
        => \E c \in Nat : 6000 <= c /\ c <= 9500 /\ c = gapConfidence(long, nodes)
<1> USE RulesAssumption
<1> TAKE long, nodes \in Nat
<1> HAVE long > GapLength /\ nodes >= 1
<1>1. PICK overrun \in Nat : overrun = MinOf(long - GapLength, 2 * GapLength)
  BY DEF MinOf
<1>2. PICK a \in Nat, b \in Nat \ {0} : a = 2000 * overrun + GapLength /\ b = 2 * GapLength
  OBVIOUS
<1>3. PICK growth \in Nat : growth = a \div b
  BY QuotientIsNat
<1>4. PICK more \in Nat : more = 600 * (nodes - 1)
  OBVIOUS
<1>5. PICK cap \in {8000, 9500} : cap = IF nodes < 2 THEN 8000 ELSE 9500
  OBVIOUS
<1>6. PICK sum \in Nat : sum = 6000 + growth + more /\ sum >= 6000
  OBVIOUS
<1>7. gapConfidence(long, nodes) = MinOf(sum, cap)
  BY <1>1, <1>2, <1>3, <1>4, <1>5, <1>6 DEF gapConfidence
<1>9. CASE sum <= cap
  BY <1>6, <1>7, <1>9 DEF MinOf
<1>10. CASE cap < sum
  BY <1>5, <1>7, <1>10 DEF MinOf
<1> QED
  BY <1>5, <1>6, <1>9, <1>10

(* A silence starts with a reading, so at least one node was heard before. *)
LEMMA GapsAreGaps ==
    ASSUME NEW z \in Zone, NEW S \in SUBSET Reading, IsFiniteSet(S),
           NEW t \in 0..MaxTime,
           \A r \in S : About[r].at <= MaxTime + MaxSkew
    PROVE  detectHeartbeatGapCandidates(z, S, t) \subseteq Gap
<1> USE RulesAssumption, IntakeAssumption
<1> DEFINE beats == beatsOf(z, S)
<1>1. beats \in SUBSET Reading /\ beats \subseteq S /\ IsFiniteSet(beats)
  BY FS_Subset DEF beatsOf
<1> SUFFICES ASSUME NEW g \in silences(beats, t)
             PROVE  [zone |-> z, start |-> g[1], end |-> g[2],
                     confidence |-> gapConfidence(g[2] - g[1],
                                      Cardinality(nodesReportingBefore(beats, g[1]))),
                     created |-> t] \in Gap
  BY DEF detectHeartbeatGapCandidates
<1>2. PICK r \in beats : About[r].at = g[1]
  BY DEF silences
<1>3. g[1] \in 0..(MaxTime + MaxSkew) /\ g[2] \in 0..(MaxTime + MaxSkew) /\ g[2] - g[1] > GapLength
  BY <1>1 DEF silences
<1> DEFINE heard == {b \in beats : About[b].at <= g[1] /\ g[1] - About[b].at <= GapLength}
           nodes == {About[b].witness : b \in heard}
<1>4. heard \in SUBSET Reading /\ IsFiniteSet(heard) /\ r \in heard
  BY <1>1, <1>2, <1>3, FS_Subset
<1>5. IsFiniteSet(nodes) /\ Cardinality(nodes) \in Nat /\ nodes # {}
  BY <1>4, FiniteWitnesses
<1>6. nodesReportingBefore(beats, g[1]) = nodes
  BY DEF nodesReportingBefore
<1>7. PICK n \in Nat : n = Cardinality(nodes)
  BY <1>5
<1>8. n >= 1
  <2>1. Cardinality(nodes) # 0
    BY <1>5, FS_EmptySet
  <2> QED
    BY <1>7, <2>1
<1>9. PICK long \in Nat : long = g[2] - g[1] /\ long > GapLength
  BY <1>3
<1> HIDE DEF beats, heard, nodes
<1>10. PICK c \in Nat : 6000 <= c /\ c <= 9500 /\ c = gapConfidence(long, n)
  BY <1>8, <1>9, GapConfidenceBounds
<1>11. 6000 <= c /\ c <= 9500
  BY <1>10
<1>12. PICK a \in 0..(MaxTime + MaxSkew), b \in 0..(MaxTime + MaxSkew) : a = g[1] /\ b = g[2]
  BY <1>3
<1>13. c \in GapConfidence
  BY <1>11 DEF GapConfidence
<1>14. [zone |-> z, start |-> a, end |-> b, confidence |-> c, created |-> t] \in Gap
  BY <1>11, <1>13 DEF Gap
<1> QED
  BY <1>6, <1>7, <1>9, <1>10, <1>12, <1>14

-----------------------------------------------------------------------------
(* The inductive invariant.                                                *)

(* A request that inserted its row and has not run the pipeline yet. *)
HandsOn(t) == pc[t] \in {"detect", "store", "publish"}

(* The clock bounds what has arrived, and only that has been judged. *)
EvidenceArrived ==
    /\ IsFiniteSet(evidence)
    /\ \A r \in evidence : About[r].at <= now + MaxSkew
    /\ \A r \in Reading : candidates[r] > 0 \/ pipelineRuns[r] > 0 => r \in evidence
    /\ \A t \in Request : HandsOn(t) => ReadingOf[t] \in evidence

(* The insert that takes the idempotency key decides which request hands   *)
(* the reading on; no other one does, and it has not done so before.       *)
RequestsApart ==
    /\ \A t \in Request : HandsOn(t) => pipelineRuns[ReadingOf[t]] = 0
    /\ \A t, u \in Request : HandsOn(t) /\ HandsOn(u) /\ ReadingOf[t] = ReadingOf[u] => t = u

(* The same of a silence, by the insert into candidate_events. *)
SweepsApart ==
    /\ \A w \in Sweeper : \A gap \in recorded[w] :
          candidates[keyOf(gap)] > 0 /\ pipelineRuns[keyOf(gap)] = 0
    /\ \A v, w \in Sweeper : \A g \in recorded[v], h \in recorded[w] :
          keyOf(g) = keyOf(h) => v = w
    /\ \A k \in GapKey : pipelineRuns[k] > 0 => candidates[k] > 0

(* A reading that is, or is about to be, a candidate above the band. *)
Sure(r) ==
    \/ candidates[r] > 8000
    \/ \E t \in Request : ReadingOf[t] = r /\ pc[t] = "store" /\ found[t] > 8000

NotBothSure == \A q, r \in Reading : Conflicting(q, r) => ~(Sure(q) /\ Sure(r))

OnceInv == IntakeTypeOK /\ EvidenceArrived /\ RequestsApart /\ SweepsApart /\ OncePerCandidate
LEMMA IntakeInitInv == IntakeInit => OnceInv /\ NotBothSure
<1> SUFFICES ASSUME IntakeInit PROVE OnceInv /\ NotBothSure
  OBVIOUS
<1> USE IntakeAssumption DEF IntakeInit
<1>1. IntakeTypeOK
  <2>1. 0 \in Confidence /\ "unsent" \in Stage /\ 0 \in 0..MaxTime
    BY DEF Confidence, Stage
  <2> QED
    BY <2>1 DEF IntakeTypeOK
<1>2. EvidenceArrived
  BY FS_EmptySet DEF EvidenceArrived, HandsOn, CandidateKey
<1>3. RequestsApart /\ SweepsApart
  BY DEF RequestsApart, SweepsApart, HandsOn, CandidateKey
<1>4. OncePerCandidate
  BY DEF OncePerCandidate
<1>5. NotBothSure
  BY DEF NotBothSure, Sure, CandidateKey
<1> QED
  BY <1>1, <1>2, <1>3, <1>4, <1>5 DEF OnceInv

(* The types and what has arrived, step by step. *)
TypedInv == IntakeTypeOK /\ EvidenceArrived

LEMMA Payloads ==
    /\ \A r \in Reading : About[r].at \in Nat
    /\ \A t \in Request : ReadingOf[t] \in Reading
    /\ MaxSkew \in Nat /\ MaxTime \in Nat
BY RulesAssumption, IntakeAssumption

LEMMA Confidences == GapConfidence \subseteq Confidence \ {0}
<1>1. ASSUME NEW c \in GapConfidence PROVE c \in Confidence
  BY DEF GapConfidence, Confidence
<1>2. \A c \in GapConfidence : c # 0
  BY DEF GapConfidence
<1> QED
  BY <1>1, <1>2

LEMMA Keys ==
    /\ Reading \subseteq CandidateKey /\ GapKey \subseteq CandidateKey
    /\ \A r \in Reading : \A k \in GapKey : r # k
    /\ \A gap \in Gap : keyOf(gap) \in GapKey /\ gap.confidence \in Confidence \ {0}
<1>1. \A gap \in Gap : keyOf(gap) \in GapKey
  BY DEF Gap, keyOf, GapKey
<1>2. ASSUME NEW gap \in Gap PROVE gap.confidence \in Confidence \ {0}
  BY Confidences DEF Gap
<1> QED
  BY <1>1, <1>2, KeysAssumption DEF CandidateKey

LEMMA ArrivedStep == TypedInv /\ [IntakeNext]_ivars => TypedInv'
<1> SUFFICES ASSUME IntakeTypeOK, EvidenceArrived, [IntakeNext]_ivars PROVE TypedInv'
  BY DEF TypedInv
<1>1. ASSUME Tick PROVE TypedInv'
  <2>1. now' = now + 1 /\ now' \in 0..MaxTime
    BY <1>1, Payloads DEF Tick, IntakeTypeOK
  <2>2. UNCHANGED <<evidence, receivedAt, candidates, gapRows, pc, found, todo, recorded, pipelineRuns>>
    BY <1>1 DEF Tick
  <2>3. \A r \in evidence : About[r].at <= now' + MaxSkew
    BY <2>1, Payloads DEF EvidenceArrived, IntakeTypeOK
  <2>4. IntakeTypeOK'
    BY <2>1, <2>2 DEF IntakeTypeOK
  <2>5. EvidenceArrived'
    BY <2>2, <2>3 DEF EvidenceArrived, HandsOn
  <2> QED
    BY <2>4, <2>5 DEF TypedInv
<1>2. ASSUME NEW t \in Request, InsertEvidence(t) PROVE TypedInv'
  <2> DEFINE r == ReadingOf[t]
  <2>1. r \in Reading /\ evidence' = evidence \cup {r}
        /\ UNCHANGED <<now, candidates, gapRows, found, todo, recorded, pipelineRuns>>
    BY <1>2, Payloads DEF InsertEvidence
  <2>2. PICK step \in Stage : pc' = [pc EXCEPT ![t] = step]
    BY <1>2 DEF InsertEvidence, Goto, Stage
  <2>9. receivedAt' \in [Reading -> 0..MaxTime]
    BY <1>2, <2>1 DEF InsertEvidence, IntakeTypeOK
  <2>3. IntakeTypeOK'
    BY <2>1, <2>2, <2>9 DEF IntakeTypeOK
  <2>4. IsFiniteSet(evidence')
    BY <2>1, FS_AddElement DEF EvidenceArrived
  <2>5. About[r].at <= now' + MaxSkew
    BY <1>2, <2>1 DEF InsertEvidence, validateObservedAt
  <2>6. \A u \in Request : HandsOn(u)' => ReadingOf[u] \in evidence'
    BY <2>1, <2>2 DEF EvidenceArrived, HandsOn
  <2>7. EvidenceArrived'
    BY <2>1, <2>4, <2>5, <2>6 DEF EvidenceArrived
  <2> QED
    BY <2>3, <2>7 DEF TypedInv
<1>3. ASSUME NEW t \in Request, detectCandidateFromEvidence(t) PROVE TypedInv'
  <2> DEFINE r == ReadingOf[t]
  <2>1. r \in Reading
    BY Payloads
  <2>2. found' \in [Request -> Confidence]
    <3>1. CASE UNCHANGED found
      BY <3>1 DEF IntakeTypeOK
    <3>2. ASSUME NEW S \in SUBSET evidence, found' = [found EXCEPT ![t] = scoreAgreement(r, S)]
          PROVE  found' \in [Request -> Confidence]
      <4>1. S \in SUBSET Reading /\ IsFiniteSet(S)
        BY FS_Subset DEF EvidenceArrived, IntakeTypeOK
      <4>2. PICK c : c = scoreAgreement(r, S)
        OBVIOUS
      <4>3. c \in Nat /\ c <= 9700
        BY <2>1, <4>1, <4>2, ScoreBounds
      <4>4. c \in Confidence
        BY <4>3 DEF Confidence
      <4> QED
        BY <3>2, <4>2, <4>4 DEF IntakeTypeOK
    <3> QED
      BY <1>3, <3>1, <3>2 DEF detectCandidateFromEvidence
  <2>3. PICK step \in Stage : pc' = [pc EXCEPT ![t] = step]
    BY <1>3 DEF detectCandidateFromEvidence, Goto, Stage
  <2>4. pc[t] = "detect" /\ UNCHANGED <<now, evidence, receivedAt, candidates, gapRows, todo, recorded,
                                       pipelineRuns>>
    BY <1>3 DEF detectCandidateFromEvidence
  <2>5. IntakeTypeOK'
    BY <2>2, <2>3, <2>4 DEF IntakeTypeOK
  <2>6. EvidenceArrived'
    BY <2>3, <2>4 DEF EvidenceArrived, HandsOn
  <2> QED
    BY <2>5, <2>6 DEF TypedInv
<1>4. ASSUME NEW t \in Request, StoreCandidate(t) PROVE TypedInv'
  <2> DEFINE r == ReadingOf[t]
  <2>1. r \in Reading /\ r \in evidence
    BY <1>4, Payloads DEF StoreCandidate, EvidenceArrived, HandsOn
  <2>2. candidates' \in [CandidateKey -> Confidence]
    BY <1>4, <2>1, Keys DEF StoreCandidate, insertCandidate, IntakeTypeOK
  <2>3. \A k \in CandidateKey : k # r => candidates'[k] = candidates[k]
    BY <1>4 DEF StoreCandidate, insertCandidate, IntakeTypeOK
  <2>4. pc[t] = "store" /\ pc' = [pc EXCEPT ![t] = "publish"]
        /\ UNCHANGED <<now, evidence, receivedAt, gapRows, found, todo, recorded, pipelineRuns>>
    BY <1>4 DEF StoreCandidate, Goto
  <2>5. IntakeTypeOK'
    BY <2>2, <2>4 DEF IntakeTypeOK, Stage
  <2>6. EvidenceArrived'
    BY <2>1, <2>3, <2>4, Keys DEF EvidenceArrived, HandsOn
  <2> QED
    BY <2>5, <2>6 DEF TypedInv
<1>5. ASSUME NEW t \in Request, publishIngestResult(t) PROVE TypedInv'
  <2> DEFINE r == ReadingOf[t]
  <2>1. r \in Reading /\ r \in evidence
    BY <1>5, Payloads DEF publishIngestResult, EvidenceArrived, HandsOn
  <2>2. pc[t] = "publish" /\ pc' = [pc EXCEPT ![t] = "done"]
        /\ pipelineRuns' = [pipelineRuns EXCEPT ![r] = @ + 1]
        /\ UNCHANGED <<now, evidence, receivedAt, candidates, gapRows, found, todo, recorded>>
    BY <1>5 DEF publishIngestResult, Goto
  <2>3. IntakeTypeOK'
    BY <2>1, <2>2, Keys DEF IntakeTypeOK, Stage
  <2>4. EvidenceArrived'
    BY <2>1, <2>2, Keys DEF EvidenceArrived, HandsOn
  <2> QED
    BY <2>3, <2>4 DEF TypedInv
<1>6. ASSUME NEW w \in Sweeper, listSweepEvidenceByZone(w) PROVE TypedInv'
  <2>1. PICK S \in SUBSET evidence :
            todo' = [todo EXCEPT ![w] = UNION {detectHeartbeatGapCandidates(z, S, now) : z \in Zone}]
    BY <1>6 DEF listSweepEvidenceByZone
  <2>2. S \in SUBSET Reading /\ IsFiniteSet(S)
    BY FS_Subset DEF EvidenceArrived, IntakeTypeOK
  <2>3. \A r \in S : About[r].at <= MaxTime + MaxSkew
    BY <2>2, Payloads DEF EvidenceArrived, IntakeTypeOK
  <2>4. \A z \in Zone : detectHeartbeatGapCandidates(z, S, now) \subseteq Gap
    BY <2>2, <2>3, GapsAreGaps DEF IntakeTypeOK
  <2>5. UNCHANGED <<now, evidence, receivedAt, candidates, gapRows, pc, found, recorded, pipelineRuns>>
    BY <1>6 DEF listSweepEvidenceByZone
  <2>6. UNION {detectHeartbeatGapCandidates(z, S, now) : z \in Zone} \subseteq Gap
    BY <2>4
  <2>7. todo' \in [Sweeper -> SUBSET Gap]
    BY <2>1, <2>6 DEF IntakeTypeOK
  <2>8. IntakeTypeOK'
    BY <2>5, <2>7 DEF IntakeTypeOK
  <2>9. EvidenceArrived'
    BY <2>5 DEF EvidenceArrived, HandsOn
  <2> QED
    BY <2>8, <2>9 DEF TypedInv
<1>7. ASSUME NEW w \in Sweeper, recordGapCandidate(w) PROVE TypedInv'
  <2>1. PICK gap \in todo[w] :
            /\ insertCandidate(keyOf(gap), gap.confidence)
            /\ gapRows' = IF candidates[keyOf(gap)] = 0 THEN gapRows \cup {gap} ELSE gapRows
            /\ todo' = [todo EXCEPT ![w] = @ \ {gap}]
            /\ recorded' = [recorded EXCEPT ![w] = IF isNewGap(gap) THEN {gap} ELSE {}]
    BY <1>7 DEF recordGapCandidate
  <2>2. UNCHANGED <<now, evidence, receivedAt, pc, found, pipelineRuns>>
    BY <1>7 DEF recordGapCandidate
  <2>3. gap \in Gap /\ keyOf(gap) \in GapKey /\ gap.confidence \in Confidence \ {0}
    BY Keys DEF IntakeTypeOK
  <2>4. candidates' \in [CandidateKey -> Confidence]
    BY <2>1, <2>3, Keys DEF insertCandidate, IntakeTypeOK
  <2>5. \A k \in CandidateKey : k # keyOf(gap) => candidates'[k] = candidates[k]
    BY <2>1 DEF insertCandidate, IntakeTypeOK
  <2>6. todo' \in [Sweeper -> SUBSET Gap]
    BY <2>1 DEF IntakeTypeOK
  <2>7. recorded' \in [Sweeper -> SUBSET Gap]
    <3>1. PICK new \in SUBSET Gap : recorded' = [recorded EXCEPT ![w] = new]
      BY <2>1, <2>3
    <3> QED
      BY <3>1 DEF IntakeTypeOK
  <2>10. gapRows' \subseteq Gap
    BY <2>1, <2>3 DEF IntakeTypeOK
  <2>8. IntakeTypeOK'
    BY <2>2, <2>4, <2>6, <2>7, <2>10 DEF IntakeTypeOK
  <2>9. EvidenceArrived'
    BY <2>2, <2>3, <2>5, Keys DEF EvidenceArrived, HandsOn
  <2> QED
    BY <2>8, <2>9 DEF TypedInv
<1>8. ASSUME NEW w \in Sweeper, processGap(w) PROVE TypedInv'
  <2>1. PICK gap \in recorded[w] : pipelineRuns' = [pipelineRuns EXCEPT ![keyOf(gap)] = @ + 1]
    BY <1>8 DEF processGap
  <2>2. keyOf(gap) \in GapKey
    BY Keys DEF IntakeTypeOK
  <2>3. recorded' = [recorded EXCEPT ![w] = {}] /\ UNCHANGED <<now, evidence, receivedAt, candidates, gapRows, pc, found, todo>>
    BY <1>8 DEF processGap
  <2>4. \A k \in CandidateKey : k # keyOf(gap) => pipelineRuns'[k] = pipelineRuns[k]
    BY <2>1 DEF IntakeTypeOK
  <2>5. IntakeTypeOK'
    BY <2>1, <2>2, <2>3, Keys DEF IntakeTypeOK
  <2>6. EvidenceArrived'
    BY <2>2, <2>3, <2>4, Keys DEF EvidenceArrived, HandsOn
  <2> QED
    BY <2>5, <2>6 DEF TypedInv
<1>9. ASSUME UNCHANGED ivars PROVE TypedInv'
  <2>1. UNCHANGED <<now, evidence, receivedAt, candidates, gapRows, pc, found, todo, recorded, pipelineRuns>>
    BY <1>9 DEF ivars
  <2>2. IntakeTypeOK'
    BY <2>1 DEF IntakeTypeOK
  <2>3. EvidenceArrived'
    BY <2>1 DEF EvidenceArrived, HandsOn
  <2> QED
    BY <2>2, <2>3 DEF TypedInv
<1> QED
  BY <1>1, <1>2, <1>3, <1>4, <1>5, <1>6, <1>7, <1>8, <1>9
  DEF IntakeNext, RequestStep, SweeperStep

(* A step that hands on nothing new and runs no pipeline keeps requests    *)
(* apart; one that leaves the silences alone keeps the sweeps apart.       *)
LEMMA RequestsStayApart ==
    ASSUME RequestsApart, UNCHANGED pipelineRuns, \A u \in Request : HandsOn(u)' => HandsOn(u)
    PROVE  RequestsApart'
BY DEF RequestsApart, HandsOn

LEMMA SweepsStayApart ==
    ASSUME SweepsApart, UNCHANGED <<candidates, recorded, pipelineRuns>>
    PROVE  SweepsApart'
BY DEF SweepsApart

LEMMA OnceStep ==
    ASSUME OnceInv, [IntakeNext]_ivars
    PROVE  RequestsApart' /\ SweepsApart' /\ OncePerCandidate'
<1> DEFINE Goal == RequestsApart' /\ SweepsApart' /\ OncePerCandidate'
<1>0. IntakeTypeOK /\ EvidenceArrived /\ RequestsApart /\ SweepsApart /\ OncePerCandidate
  BY DEF OnceInv
<1> SUFFICES ASSUME TRUE PROVE Goal
  OBVIOUS
<1>1. ASSUME UNCHANGED <<candidates, recorded, pipelineRuns>>,
             \A u \in Request : HandsOn(u)' => HandsOn(u)
      PROVE  Goal
  <2>1. RequestsApart'
    BY <1>0, <1>1, RequestsStayApart
  <2>2. SweepsApart'
    BY <1>0, <1>1, SweepsStayApart
  <2>3. OncePerCandidate'
    BY <1>0, <1>1 DEF OncePerCandidate
  <2> QED
    BY <2>1, <2>2, <2>3
<1>2. ASSUME NEW t \in Request, InsertEvidence(t) PROVE Goal
  <2> DEFINE r == ReadingOf[t]
  <2>1. r \in Reading /\ r \in CandidateKey /\ UNCHANGED <<candidates, recorded, pipelineRuns>>
    BY <1>2, Payloads, Keys DEF InsertEvidence
  <2>2. pc' = [pc EXCEPT ![t] = IF r \in evidence THEN "done" ELSE "detect"]
    BY <1>2 DEF InsertEvidence, Goto
  <2>3. CASE r \in evidence
    <3>1. pc' = [pc EXCEPT ![t] = "done"]
      BY <2>2, <2>3
    <3>2. \A u \in Request : HandsOn(u)' => HandsOn(u)
      BY <1>0, <3>1 DEF HandsOn, IntakeTypeOK
    <3> QED
      BY <1>1, <2>1, <3>2
  <2>4. CASE r \notin evidence
    <3>1. pc' = [pc EXCEPT ![t] = "detect"]
      BY <2>2, <2>4
    <3>2. \A u \in Request : u # t => (HandsOn(u)' <=> HandsOn(u))
      BY <1>0, <3>1 DEF HandsOn, IntakeTypeOK
    <3>3. \A u \in Request : HandsOn(u) => ReadingOf[u] # r
      BY <1>0, <2>4 DEF EvidenceArrived
    <3>4. pipelineRuns[r] = 0
      BY <1>0, <2>1, <2>4 DEF EvidenceArrived, IntakeTypeOK
    <3>5. RequestsApart'
      BY <1>0, <2>1, <3>2, <3>3, <3>4 DEF RequestsApart
    <3>6. SweepsApart'
      BY <1>0, <2>1, SweepsStayApart
    <3>7. OncePerCandidate'
      BY <1>0, <2>1 DEF OncePerCandidate
    <3> QED
      BY <3>5, <3>6, <3>7
  <2> QED
    BY <2>3, <2>4
<1>3. ASSUME NEW t \in Request, detectCandidateFromEvidence(t) PROVE Goal
  <2>1. pc[t] = "detect" /\ UNCHANGED <<candidates, recorded, pipelineRuns>>
    BY <1>3 DEF detectCandidateFromEvidence
  <2>2. \E step \in Stage : pc' = [pc EXCEPT ![t] = step]
    BY <1>3 DEF detectCandidateFromEvidence, Goto, Stage
  <2>3. \A u \in Request : HandsOn(u)' => HandsOn(u)
    BY <1>0, <2>1, <2>2 DEF HandsOn, IntakeTypeOK
  <2> QED
    BY <1>1, <2>1, <2>3
<1>4. ASSUME NEW t \in Request, StoreCandidate(t) PROVE Goal
  <2> DEFINE r == ReadingOf[t]
  <2>1. r \in Reading /\ pc[t] = "store" /\ pc' = [pc EXCEPT ![t] = "publish"]
        /\ UNCHANGED <<recorded, pipelineRuns>>
    BY <1>4, Payloads DEF StoreCandidate, Goto
  <2>2. \A k \in GapKey : candidates'[k] = candidates[k]
    BY <1>0, <1>4, <2>1, Keys DEF StoreCandidate, insertCandidate, IntakeTypeOK
  <2>3. \A u \in Request : HandsOn(u)' => HandsOn(u)
    BY <1>0, <2>1 DEF HandsOn, IntakeTypeOK
  <2>4. RequestsApart'
    BY <1>0, <2>1, <2>3, RequestsStayApart
  <2>5. \A w \in Sweeper : \A gap \in recorded[w] : keyOf(gap) \in GapKey
    BY <1>0, Keys DEF IntakeTypeOK
  <2>6. SweepsApart'
    BY <1>0, <2>1, <2>2, <2>5 DEF SweepsApart
  <2>7. OncePerCandidate'
    BY <1>0, <2>1 DEF OncePerCandidate
  <2> QED
    BY <2>4, <2>6, <2>7
<1>5. ASSUME NEW t \in Request, publishIngestResult(t) PROVE Goal
  <2> DEFINE r == ReadingOf[t]
  <2>1. r \in Reading /\ r \in CandidateKey /\ pc[t] = "publish" /\ pc' = [pc EXCEPT ![t] = "done"]
        /\ pipelineRuns' = [pipelineRuns EXCEPT ![r] = @ + 1] /\ UNCHANGED <<candidates, recorded>>
    BY <1>5, Payloads, Keys DEF publishIngestResult, Goto
  <2>2. pipelineRuns[r] = 0
    BY <1>0, <2>1 DEF RequestsApart, HandsOn
  <2>3. pipelineRuns'[r] = 1 /\ \A k \in CandidateKey : k # r => pipelineRuns'[k] = pipelineRuns[k]
    BY <1>0, <2>1, <2>2 DEF IntakeTypeOK
  <2>4. \A u \in Request : HandsOn(u)' => HandsOn(u) /\ u # t
    BY <1>0, <2>1 DEF HandsOn, IntakeTypeOK
  <2>5. \A u \in Request : HandsOn(u)' => ReadingOf[u] # r
    BY <1>0, <2>1, <2>4 DEF RequestsApart, HandsOn
  <2>6. RequestsApart'
    BY <1>0, <2>3, <2>4, <2>5, Payloads, Keys DEF RequestsApart
  <2>7. \A k \in GapKey : pipelineRuns'[k] = pipelineRuns[k]
    BY <2>1, <2>3, Keys
  <2>8. \A w \in Sweeper : \A gap \in recorded[w] : keyOf(gap) \in GapKey
    BY <1>0, Keys DEF IntakeTypeOK
  <2>9. SweepsApart'
    BY <1>0, <2>1, <2>7, <2>8 DEF SweepsApart
  <2>10. OncePerCandidate'
    BY <1>0, <2>3 DEF OncePerCandidate
  <2> QED
    BY <2>6, <2>9, <2>10
<1>6. ASSUME NEW w \in Sweeper, listSweepEvidenceByZone(w) PROVE Goal
  <2>1. UNCHANGED <<candidates, pc, recorded, pipelineRuns>>
    BY <1>6 DEF listSweepEvidenceByZone
  <2> QED
    BY <1>1, <2>1 DEF HandsOn
<1>7. ASSUME NEW w \in Sweeper, recordGapCandidate(w) PROVE Goal
  <2>1. PICK gap \in todo[w] :
            /\ insertCandidate(keyOf(gap), gap.confidence)
            /\ recorded' = [recorded EXCEPT ![w] = IF isNewGap(gap) THEN {gap} ELSE {}]
    BY <1>7 DEF recordGapCandidate
  <2>2. UNCHANGED <<pc, pipelineRuns>>
    BY <1>7 DEF recordGapCandidate
  <2>3. gap \in Gap /\ keyOf(gap) \in GapKey /\ keyOf(gap) \in CandidateKey
    BY <1>0, Keys DEF IntakeTypeOK
  <2>4. RequestsApart'
    BY <1>0, <2>2, RequestsStayApart DEF HandsOn
  <2>5. OncePerCandidate'
    BY <1>0, <2>2 DEF OncePerCandidate
  <2>6. CASE candidates[keyOf(gap)] = 0
    <3>1. recorded' = [recorded EXCEPT ![w] = {gap}]
      BY <2>1, <2>6 DEF isNewGap
    <3>2. candidates' = [candidates EXCEPT ![keyOf(gap)] = gap.confidence]
      BY <2>1, <2>6 DEF insertCandidate
    <3>3. candidates'[keyOf(gap)] > 0
      <4>1. PICK c \in Confidence \ {0} : c = gap.confidence
        BY <2>3, Keys
      <4>2. candidates'[keyOf(gap)] = c
        BY <1>0, <2>3, <3>2, <4>1 DEF IntakeTypeOK
      <4>3. c \in 0..9700 /\ c # 0
        BY <4>1 DEF Confidence
      <4>4. c > 0
        BY <4>3
      <4> QED
        BY <4>2, <4>4
    <3>4. \A k \in GapKey : candidates[k] > 0 => candidates'[k] > 0
      BY <1>0, <2>3, <3>2, <3>3, Keys DEF IntakeTypeOK
    <3>5. pipelineRuns[keyOf(gap)] = 0
      BY <1>0, <2>3, <2>6 DEF SweepsApart, IntakeTypeOK
    <3>6. recorded'[w] = {gap} /\ \A v \in Sweeper : v # w => recorded'[v] = recorded[v]
      BY <1>0, <3>1 DEF IntakeTypeOK
    <3>7. \A v \in Sweeper : \A h \in recorded[v] :
             keyOf(h) \in GapKey /\ candidates[keyOf(h)] > 0 /\ keyOf(h) # keyOf(gap)
      BY <1>0, <2>6, Keys DEF SweepsApart, IntakeTypeOK
    <3>8. SweepsApart'
      BY <1>0, <2>2, <2>3, <3>3, <3>4, <3>5, <3>6, <3>7 DEF SweepsApart
    <3> QED
      BY <2>4, <2>5, <3>8
  <2>7. CASE candidates[keyOf(gap)] # 0
    <3>1. recorded' = [recorded EXCEPT ![w] = {}] /\ UNCHANGED candidates
      BY <2>1, <2>7 DEF isNewGap, insertCandidate
    <3>2. recorded'[w] = {} /\ \A v \in Sweeper : v # w => recorded'[v] = recorded[v]
      BY <1>0, <3>1 DEF IntakeTypeOK
    <3>3. SweepsApart'
      BY <1>0, <2>2, <3>1, <3>2 DEF SweepsApart
    <3> QED
      BY <2>4, <2>5, <3>3
  <2> QED
    BY <2>6, <2>7
<1>8. ASSUME NEW w \in Sweeper, processGap(w) PROVE Goal
  <2>1. PICK gap \in recorded[w] : pipelineRuns' = [pipelineRuns EXCEPT ![keyOf(gap)] = @ + 1]
    BY <1>8 DEF processGap
  <2>2. recorded' = [recorded EXCEPT ![w] = {}] /\ UNCHANGED <<candidates, pc>>
    BY <1>8 DEF processGap
  <2>3. keyOf(gap) \in GapKey /\ keyOf(gap) \in CandidateKey
    BY <1>0, Keys DEF IntakeTypeOK
  <2>4. candidates[keyOf(gap)] > 0 /\ pipelineRuns[keyOf(gap)] = 0
    BY <1>0 DEF SweepsApart
  <2>5. /\ pipelineRuns'[keyOf(gap)] = 1
        /\ \A k \in CandidateKey : k # keyOf(gap) => pipelineRuns'[k] = pipelineRuns[k]
    BY <1>0, <2>1, <2>3, <2>4 DEF IntakeTypeOK
  <2>6. RequestsApart'
    BY <1>0, <2>2, <2>3, <2>5, Payloads, Keys DEF RequestsApart, HandsOn
  <2>7. recorded'[w] = {} /\ \A v \in Sweeper : v # w => recorded'[v] = recorded[v]
    BY <1>0, <2>2 DEF IntakeTypeOK
  <2>8. \A v \in Sweeper : v # w => \A h \in recorded[v] :
           keyOf(h) \in CandidateKey /\ keyOf(h) # keyOf(gap)
    BY <1>0, Keys DEF SweepsApart, IntakeTypeOK
  <2>9. SweepsApart'
    BY <1>0, <2>2, <2>4, <2>5, <2>7, <2>8, Keys DEF SweepsApart
  <2>10. OncePerCandidate'
    BY <1>0, <2>5 DEF OncePerCandidate
  <2> QED
    BY <2>6, <2>9, <2>10
<1>9. CASE Tick
  BY <1>1, <1>9 DEF Tick, HandsOn
<1>10. CASE UNCHANGED ivars
  BY <1>1, <1>10 DEF ivars, HandsOn
<1> QED
  BY <1>2, <1>3, <1>4, <1>5, <1>6, <1>7, <1>8, <1>9, <1>10
  DEF IntakeNext, RequestStep, SweeperStep

-----------------------------------------------------------------------------
(* Contradicting witnesses.  The rules see at most RecentLimit rows.       *)

near(r) == {q \in Reading : q # r /\ Close(q, r) /\ About[q].zone = About[r].zone}

(* Hypothesis of ConflictIsNoticedProven: no more than `limit 50` readings *)
(* of a zone fall into one agreement window.                               *)
WitnessesFit == \A r \in Reading : IsFiniteSet(near(r)) /\ Cardinality(near(r)) <= RecentLimit

LEMMA ConflictIsMutual ==
    ASSUME NEW q \in Reading, NEW r \in Reading, Conflicting(q, r)
    PROVE  Conflicting(r, q) /\ q \in near(r) /\ q # r
<1>1. /\ q # r /\ Close(q, r) /\ About[q].zone = About[r].zone
      /\ About[q].status # "unknown" /\ About[q].witness # About[r].witness
      /\ {About[q].status, About[r].status} = {"grid_up", "grid_down"}
  BY DEF Conflicting, others
<1>2. About[r].status # "unknown"
  BY <1>1
<1>3. Close(r, q)
  BY <1>1 DEF Close
<1>4. {About[r].status, About[q].status} = {"grid_up", "grid_down"}
  BY <1>1
<1>5. r \in others(q, {r})
  BY <1>1, <1>2, <1>3 DEF others
<1> QED
  BY <1>1, <1>4, <1>5 DEF Conflicting, near

(* Within the limit the recent rows are all that have arrived. *)
LEMMA RecentIsAll ==
    ASSUME WitnessesFit, TypedInv, NEW r \in Reading, NEW S, isRecent(S, r)
    PROVE  S = inWindow(r)
<1>1. evidence \subseteq Reading /\ IsFiniteSet(evidence) /\ RecentLimit \in Nat
  BY IntakeAssumption DEF TypedInv, IntakeTypeOK, EvidenceArrived
<1>2. inWindow(r) \in SUBSET near(r)
  BY <1>1 DEF inWindow, near
<1>3. IsFiniteSet(near(r)) /\ Cardinality(near(r)) <= RecentLimit
  BY DEF WitnessesFit
<1>4. PICK n \in Nat : n = Cardinality(near(r))
  BY <1>3, FS_CardinalityType
<1>5. IsFiniteSet(inWindow(r)) /\ Cardinality(inWindow(r)) <= Cardinality(near(r))
  BY <1>2, <1>3, FS_Subset
<1>6. PICK m \in Nat : m = Cardinality(inWindow(r))
  BY <1>5, FS_CardinalityType
<1>7. MinOf(RecentLimit, m) = m
  BY <1>1, <1>3, <1>4, <1>5, <1>6 DEF MinOf
<1>8. S \in SUBSET inWindow(r) /\ Cardinality(inWindow(r)) = Cardinality(S)
  BY <1>6, <1>7 DEF isRecent
<1> QED
  BY <1>5, <1>8, FS_Subset

LEMMA SureArrived ==
    ASSUME TypedInv, NEW r \in Reading, Sure(r)
    PROVE  r \in evidence
<1>1. PICK c \in Confidence : c = candidates[r]
  BY Keys DEF TypedInv, IntakeTypeOK
<1>2. c > 8000 => c > 0
  BY DEF Confidence
<1> QED
  BY <1>1, <1>2 DEF TypedInv, EvidenceArrived, HandsOn, Sure

(* Only a judgement makes a reading sure, and one that has met no          *)
(* contradicting row.                                                      *)
LEMMA SureIsJudged ==
    ASSUME WitnessesFit, TypedInv, [IntakeNext]_ivars, NEW r \in Reading, Sure(r)', ~Sure(r)
    PROVE  /\ \A q \in Reading : Conflicting(q, r) => q \notin evidence
           /\ \A q \in Reading : q # r => (Sure(q)' => Sure(q))
<1> DEFINE Goal == /\ \A q \in Reading : Conflicting(q, r) => q \notin evidence
                   /\ \A q \in Reading : q # r => (Sure(q)' => Sure(q))
<1>0. IntakeTypeOK /\ EvidenceArrived
  BY DEF TypedInv
<1>1. ASSUME UNCHANGED <<candidates, found>>,
             \A u \in Request : pc'[u] = "store" => pc[u] = "store"
      PROVE  Goal
  BY <1>1 DEF Sure
<1>2. ASSUME NEW t \in Request, InsertEvidence(t) PROVE Goal
  <2>1. UNCHANGED <<candidates, found>>
    BY <1>2 DEF InsertEvidence
  <2>2. \E step \in {"done", "detect"} : pc' = [pc EXCEPT ![t] = step]
    BY <1>2 DEF InsertEvidence, Goto
  <2>3. \A u \in Request : pc'[u] = "store" => pc[u] = "store"
    BY <1>0, <2>2 DEF IntakeTypeOK
  <2> QED
    BY <1>1, <2>1, <2>3
<1>3. ASSUME NEW t \in Request, detectCandidateFromEvidence(t) PROVE Goal
  <2>1. ReadingOf[t] \in Reading /\ UNCHANGED candidates
    BY <1>3, Payloads DEF detectCandidateFromEvidence
  <2>2. CASE About[ReadingOf[t]].status = "unknown"
    <3>1. pc' = [pc EXCEPT ![t] = "done"] /\ UNCHANGED found
      BY <1>3, <2>2 DEF detectCandidateFromEvidence, Goto
    <3>2. \A u \in Request : pc'[u] = "store" => pc[u] = "store"
      BY <1>0, <3>1 DEF IntakeTypeOK
    <3> QED
      BY <1>1, <2>1, <3>1, <3>2
  <2>3. CASE About[ReadingOf[t]].status # "unknown"
    <3>1. PICK S \in SUBSET evidence : isRecent(S, ReadingOf[t])
                 /\ found' = [found EXCEPT ![t] = scoreAgreement(ReadingOf[t], S)]
      BY <1>3, <2>3 DEF detectCandidateFromEvidence
    <3>2. pc' = [pc EXCEPT ![t] = "store"]
      BY <1>3, <2>3 DEF detectCandidateFromEvidence, Goto
    <3>3. \A u \in Request : u # t => pc'[u] = pc[u] /\ found'[u] = found[u]
      BY <1>0, <3>1, <3>2 DEF IntakeTypeOK
    <3>4. \A q \in Reading : q # ReadingOf[t] => (Sure(q)' => Sure(q))
      BY <2>1, <3>3 DEF Sure
    <3>5. r = ReadingOf[t]
      BY <3>4
    <3>6. found'[t] > 8000
      BY <2>1, <3>3 DEF Sure
    <3>7. PICK c : c = scoreAgreement(r, S)
      OBVIOUS
    <3>8. c > 8000
      BY <1>0, <3>1, <3>5, <3>6, <3>7 DEF IntakeTypeOK
    <3>9. S \in SUBSET Reading /\ IsFiniteSet(S)
      BY <1>0, FS_Subset DEF IntakeTypeOK, EvidenceArrived
    <3>10. c \in Nat /\ ((\E q \in S : Conflicting(q, r)) => c <= 8000)
      BY <3>7, <3>9, ScoreBounds
    <3>11. ~\E q \in S : Conflicting(q, r)
      BY <3>8, <3>10
    <3>12. S = inWindow(r)
      BY <3>1, <3>5, RecentIsAll
    <3>13. ASSUME NEW q \in Reading, Conflicting(q, r) PROVE q \notin evidence
      <4>1. q \in near(r)
        BY <3>13, ConflictIsMutual
      <4>2. q \in evidence => q \in inWindow(r)
        BY <4>1 DEF near, inWindow
      <4> QED
        BY <3>11, <3>12, <3>13, <4>2
    <3> QED
      BY <3>4, <3>5, <3>13
  <2> QED
    BY <2>2, <2>3
<1>4. ASSUME NEW t \in Request, StoreCandidate(t) PROVE Goal
  <2>1. ReadingOf[t] \in Reading /\ UNCHANGED found /\ pc[t] = "store" /\ pc' = [pc EXCEPT ![t] = "publish"]
    BY <1>4, Payloads DEF StoreCandidate, Goto
  <2>2. \A q \in Reading : candidates'[q] = candidates[q]
                           \/ (q = ReadingOf[t] /\ candidates'[q] = found[t])
    <3>1. \/ UNCHANGED candidates
          \/ candidates' = [candidates EXCEPT ![ReadingOf[t]] = found[t]]
      BY <1>4 DEF StoreCandidate, insertCandidate
    <3>2. candidates \in [CandidateKey -> Confidence]
      BY <1>0 DEF IntakeTypeOK
    <3>3. CASE UNCHANGED candidates
      BY <3>3
    <3>4. CASE candidates' = [candidates EXCEPT ![ReadingOf[t]] = found[t]]
      BY <2>1, <3>2, <3>4, Keys
    <3> QED
      BY <3>1, <3>3, <3>4
  <2>3. \A u \in Request : pc'[u] = "store" => pc[u] = "store"
    BY <1>0, <2>1 DEF IntakeTypeOK
  <2>4. \A q \in Reading : Sure(q)' => Sure(q)
    BY <2>1, <2>2, <2>3 DEF Sure
  <2> QED
    BY <2>4
<1>5. ASSUME NEW t \in Request, publishIngestResult(t) PROVE Goal
  <2>1. UNCHANGED <<candidates, found>> /\ pc' = [pc EXCEPT ![t] = "done"]
    BY <1>5 DEF publishIngestResult, Goto
  <2>2. \A u \in Request : pc'[u] = "store" => pc[u] = "store"
    BY <1>0, <2>1 DEF IntakeTypeOK
  <2> QED
    BY <1>1, <2>1, <2>2
<1>6. ASSUME NEW w \in Sweeper, recordGapCandidate(w) PROVE Goal
  <2>1. PICK gap \in todo[w] : insertCandidate(keyOf(gap), gap.confidence)
    BY <1>6 DEF recordGapCandidate
  <2>2. keyOf(gap) \in GapKey
    BY <1>0, Keys DEF IntakeTypeOK
  <2>3. \A q \in Reading : candidates'[q] = candidates[q]
    BY <1>0, <2>1, <2>2, Keys DEF insertCandidate, IntakeTypeOK
  <2>4. UNCHANGED <<pc, found>>
    BY <1>6 DEF recordGapCandidate
  <2> QED
    BY <2>3, <2>4 DEF Sure
<1>7. CASE UNCHANGED <<candidates, pc, found>>
  BY <1>1, <1>7
<1>8. ASSUME NEW w \in Sweeper, listSweepEvidenceByZone(w) \/ processGap(w)
      PROVE UNCHANGED <<candidates, pc, found>>
  BY <1>8 DEF listSweepEvidenceByZone, processGap
<1> QED
  BY <1>2, <1>3, <1>4, <1>5, <1>6, <1>7, <1>8
  DEF IntakeNext, RequestStep, SweeperStep, Tick, ivars

LEMMA NotBothSureStep ==
    ASSUME WitnessesFit, TypedInv, NotBothSure, [IntakeNext]_ivars
    PROVE  NotBothSure'
<1> SUFFICES ASSUME NEW q \in Reading, NEW r \in Reading, Conflicting(q, r), Sure(q)', Sure(r)'
             PROVE  FALSE
  BY DEF NotBothSure
<1>1. Conflicting(r, q) /\ q # r
  BY ConflictIsMutual
<1>2. CASE Sure(q) /\ Sure(r)
  BY <1>2 DEF NotBothSure
<1>3. CASE ~Sure(r)
  <2>1. q \notin evidence /\ (Sure(q)' => Sure(q))
    BY <1>1, <1>3, SureIsJudged
  <2> QED
    BY <2>1, SureArrived
<1>4. CASE ~Sure(q)
  <2>1. r \notin evidence /\ (Sure(r)' => Sure(r))
    BY <1>1, <1>4, SureIsJudged
  <2> QED
    BY <2>1, SureArrived
<1> QED
  BY <1>2, <1>3, <1>4

-----------------------------------------------------------------------------
(* Silences.                                                               *)

(* A silence a sweep still holds is as well founded as a recorded one.     *)
Founded(gap) == overlooked(gap) # {} => gap.end = gap.created /\ crowded(gap.created)

HeldGaps == gapRows \cup UNION {todo[w] : w \in Sweeper}

SilenceInv ==
    /\ \A r \in evidence : receivedAt[r] <= now
    /\ \A gap \in HeldGaps : gap.created <= now /\ Founded(gap)

(* No beat a sweep reads falls into a silence it finds, which ends with    *)
(* another beat or is still open.                                          *)
LEMMA SilenceIsQuiet ==
    ASSUME NEW z, NEW S \in SUBSET Reading, NEW t \in Nat,
           NEW gap \in detectHeartbeatGapCandidates(z, S, t)
    PROVE  /\ gap.zone = z
           /\ gap.created = t
           /\ \E b \in beatsOf(z, S) : About[b].at = gap.start
           /\ gap.end = t \/ \E b \in beatsOf(z, S) : About[b].at = gap.end
           /\ \A r \in beatsOf(z, S) : ~(gap.start < About[r].at /\ About[r].at < gap.end)
<1> DEFINE beats == beatsOf(z, S)
<1>1. PICK g \in silences(beats, t) : gap.zone = z /\ gap.start = g[1] /\ gap.end = g[2] /\ gap.created = t
  BY DEF detectHeartbeatGapCandidates
<1> HIDE DEF beats
<1>2. \E b \in beats : About[b].at = g[1]
  BY DEF silences
<1>3. \A r \in beats : ~(g[1] < About[r].at /\ About[r].at < g[2])
  BY DEF silences
<1>4. g[2] = t \/ \E b \in beats : About[b].at = g[2]
  BY DEF silences
<1> QED
  BY <1>1, <1>2, <1>3, <1>4 DEF beats

(* Rows the query left out are no older than the ones it returned, and     *)
(* there are some only where the limit cut it off.                         *)
LEMMA LeftOut ==
    ASSUME IntakeTypeOK, EvidenceArrived, NEW S, isSweepEvidence(S),
           NEW r \in sensorRows(now), r \notin S
    PROVE  /\ \A b \in S : About[b].at <= About[r].at
           /\ Cardinality(sensorRows(now)) > SweepLimit
<1> DEFINE recent == sensorRows(now)
<1>1. recent \in SUBSET evidence /\ IsFiniteSet(recent)
  BY FS_Subset DEF EvidenceArrived, sensorRows
<1>2. S \subseteq recent /\ Cardinality(S) = MinOf(SweepLimit, Cardinality(recent))
  BY DEF isSweepEvidence
<1>3. \A b \in S : About[b].at <= About[r].at
  BY DEF isSweepEvidence
<1> HIDE DEF recent
<1>4. PICK m \in Nat : m = Cardinality(recent)
  BY <1>1, FS_CardinalityType
<1>5. Cardinality(S) # m
  <2>1. SUFFICES ASSUME Cardinality(S) = m PROVE FALSE
    OBVIOUS
  <2>2. S = recent
    BY <1>1, <1>2, <1>4, <2>1, FS_Subset
  <2> QED
    BY <2>2 DEF recent
<1>6. SweepLimit \in Nat
  BY IntakeAssumption
<1>7. m > SweepLimit
  BY <1>2, <1>4, <1>5, <1>6 DEF MinOf
<1> QED
  BY <1>3, <1>4, <1>7 DEF recent

(* What a sweep finds is founded on all that has arrived. *)
LEMMA FoundIsFounded ==
    ASSUME IntakeTypeOK, EvidenceArrived, \A q \in evidence : receivedAt[q] <= now,
           NEW S \in SUBSET evidence, isSweepEvidence(S), NEW z \in Zone,
           NEW gap \in detectHeartbeatGapCandidates(z, S, now), overlooked(gap) # {}
    PROVE  gap.end = now /\ crowded(now)
<1>1. evidence \subseteq Reading /\ now \in Nat /\ S \in SUBSET Reading
      /\ gap \in detectHeartbeatGapCandidates(z, S, now)
  BY IntakeAssumption DEF IntakeTypeOK
<1>2. /\ gap.zone = z
      /\ \E b \in beatsOf(z, S) : About[b].at = gap.start
      /\ gap.end = now \/ \E b \in beatsOf(z, S) : About[b].at = gap.end
      /\ \A q \in beatsOf(z, S) : ~(gap.start < About[q].at /\ About[q].at < gap.end)
  <2>1. now \in Nat /\ S \in SUBSET Reading
    BY <1>1
  <2>2. gap \in detectHeartbeatGapCandidates(z, S, now)
    BY <1>1
  <2>3. /\ gap.zone = z
        /\ gap.created = now
        /\ \E b \in beatsOf(z, S) : About[b].at = gap.start
        /\ gap.end = now \/ \E b \in beatsOf(z, S) : About[b].at = gap.end
        /\ \A r \in beatsOf(z, S) : ~(gap.start < About[r].at /\ About[r].at < gap.end)
    BY ONLY <2>1, <2>2, SilenceIsQuiet
  <2> QED
    BY <2>3
<1>3. PICK r \in beatsOf(z, evidence) : gap.start < About[r].at /\ About[r].at < gap.end
  BY <1>2 DEF overlooked
<1>4. r \notin S
  BY <1>2, <1>3 DEF beatsOf
<1>5. r \in sensorRows(now)
  <2>1. PICK b \in beatsOf(z, S) : About[b].at = gap.start
    BY <1>2
  <2>2. b \in Reading /\ About[b].at >= now - Lookback
    BY <1>1, <2>1 DEF beatsOf, isSweepEvidence, sensorRows
  <2>3. now - Lookback \in Int /\ About[r].at \in Nat /\ About[b].at \in Nat
    BY <1>1, <1>3, <2>2, Payloads, RulesAssumption DEF Lookback, beatsOf
  <2>4. About[r].at >= now - Lookback
    BY <1>3, <2>1, <2>2, <2>3
  <2> QED
    BY <1>3, <2>4 DEF beatsOf, sensorRows
<1>6. (\A b \in S : About[b].at <= About[r].at) /\ Cardinality(sensorRows(now)) > SweepLimit
  BY <1>4, <1>5, LeftOut
<1>7. gap.end = now
  <2>1. ASSUME NEW b \in beatsOf(z, S), About[b].at = gap.end PROVE FALSE
    <3>1. About[b].at \in Nat /\ About[r].at \in Nat /\ About[b].at <= About[r].at
      BY <1>1, <1>3, <1>6, Payloads DEF beatsOf
    <3> QED
      BY <1>3, <2>1, <3>1
  <2> QED
    BY <1>2, <2>1
<1>8. sensorRows(now) = {q \in sensorRows(now) : receivedAt[q] <= now}
  BY DEF sensorRows
<1> QED
  BY <1>6, <1>7, <1>8 DEF crowded

(* A row inserted later is late, and takes no row away. *)
LEMMA InsertKeepsFounded ==
    ASSUME IntakeTypeOK, EvidenceArrived, SilenceInv, NEW t \in Request, InsertEvidence(t),
           NEW gap \in Gap, gap.created <= now, Founded(gap)
    PROVE  Founded(gap)'
<1> DEFINE r == ReadingOf[t]
           early == {q \in sensorRows(gap.created) : receivedAt[q] <= gap.created}
<1>1. r \in Reading /\ evidence' = evidence \cup {r} /\ now \in Nat /\ gap.created \in Nat
  BY Payloads, IntakeAssumption DEF InsertEvidence, IntakeTypeOK, Gap
<1>2. \A q \in evidence : receivedAt'[q] = receivedAt[q]
  BY <1>1 DEF InsertEvidence, IntakeTypeOK
<1>3. r \notin evidence => receivedAt'[r] = now
  BY <1>1 DEF InsertEvidence, IntakeTypeOK
<1>4. overlooked(gap)' \subseteq overlooked(gap)
  <2> SUFFICES ASSUME NEW q \in beatsOf(gap.zone, evidence'), gap.start < About[q].at,
                      About[q].at < gap.end, receivedAt'[q] < gap.created
               PROVE  q \in overlooked(gap)
    BY DEF overlooked, beatsOf
  <2>1. q \in evidence
    BY <1>1, <1>3 DEF beatsOf
  <2> QED
    BY <1>2, <2>1 DEF overlooked, beatsOf
<1>5. ASSUME crowded(gap.created) PROVE crowded(gap.created)'
  <2>1. early \subseteq early'
    BY <1>1, <1>2 DEF sensorRows
  <2>2. IsFiniteSet(evidence')
    BY <1>1, FS_AddElement DEF EvidenceArrived
  <2>3. early' \in SUBSET evidence'
    BY DEF sensorRows
  <2>4. IsFiniteSet(early')
    BY <2>2, <2>3, FS_Subset
  <2>5. Cardinality(early) <= Cardinality(early') /\ IsFiniteSet(early)
    BY <2>1, <2>4, FS_Subset
  <2>6. Cardinality(early) > SweepLimit
    BY <1>5 DEF crowded
  <2> HIDE DEF early
  <2>7. PICK m \in Nat, n \in Nat : m = Cardinality(early) /\ n = Cardinality(early')
    BY <2>4, <2>5, FS_CardinalityType
  <2>8. n > SweepLimit
    BY <2>5, <2>6, <2>7, IntakeAssumption
  <2> QED
    BY <2>7, <2>8 DEF early, crowded
<1> QED
  BY <1>4, <1>5 DEF Founded

LEMMA SilenceStep ==
    ASSUME TypedInv, SilenceInv, [IntakeNext]_ivars
    PROVE  SilenceInv'
<1>0. IntakeTypeOK /\ EvidenceArrived /\ HeldGaps \subseteq Gap
  BY DEF TypedInv, IntakeTypeOK, HeldGaps
<1>1. ASSUME UNCHANGED <<now, evidence, receivedAt>>, HeldGaps' \subseteq HeldGaps PROVE SilenceInv'
  BY <1>1 DEF SilenceInv, Founded, overlooked, crowded, sensorRows
<1>2. ASSUME UNCHANGED <<now, evidence, receivedAt, gapRows, todo>> PROVE SilenceInv'
  BY <1>1, <1>2 DEF HeldGaps
<1>3. CASE Tick
  <2>1. UNCHANGED <<evidence, receivedAt, gapRows, todo>> /\ now' = now + 1 /\ now \in Nat
    BY <1>0, <1>3, IntakeAssumption DEF Tick, IntakeTypeOK
  <2>2. HeldGaps' = HeldGaps /\ \A gap \in Gap : Founded(gap)' <=> Founded(gap)
    BY <2>1 DEF HeldGaps, Founded, overlooked, crowded, sensorRows
  <2>3. \A r \in evidence' : receivedAt'[r] <= now'
    <3>1. \A r \in evidence : receivedAt[r] \in 0..MaxTime /\ receivedAt[r] <= now
      BY <1>0 DEF IntakeTypeOK, SilenceInv
    <3> QED
      BY <2>1, <3>1, IntakeAssumption
  <2>4. \A gap \in HeldGaps : gap.created <= now'
    <3>1. \A gap \in HeldGaps : gap.created \in 0..MaxTime /\ gap.created <= now
      BY <1>0 DEF SilenceInv, Gap
    <3> QED
      BY <2>1, <3>1, IntakeAssumption
  <2> QED
    BY <1>0, <2>2, <2>3, <2>4 DEF SilenceInv
<1>4. ASSUME NEW t \in Request, InsertEvidence(t) PROVE SilenceInv'
  <2>1. UNCHANGED <<now, gapRows, todo>> /\ HeldGaps' = HeldGaps
    BY <1>4 DEF InsertEvidence, HeldGaps
  <2>2. \A r \in evidence' : receivedAt'[r] <= now
    <3>1. ReadingOf[t] \in Reading /\ now \in Nat
      BY <1>0, Payloads DEF IntakeTypeOK
    <3> QED
      BY <1>0, <1>4, <3>1 DEF InsertEvidence, SilenceInv, IntakeTypeOK
  <2>3. \A gap \in HeldGaps : Founded(gap)'
    BY <1>0, <1>4, InsertKeepsFounded DEF SilenceInv
  <2> QED
    BY <2>1, <2>2, <2>3 DEF SilenceInv
<1>5. ASSUME NEW w \in Sweeper, listSweepEvidenceByZone(w) PROVE SilenceInv'
  <2>1. PICK S \in SUBSET evidence : isSweepEvidence(S)
          /\ todo' = [todo EXCEPT ![w] = UNION {detectHeartbeatGapCandidates(z, S, now) : z \in Zone}]
    BY <1>5 DEF listSweepEvidenceByZone
  <2>2. UNCHANGED <<now, evidence, receivedAt, gapRows>> /\ now \in Nat /\ S \in SUBSET Reading
    BY <1>0, <1>5 DEF listSweepEvidenceByZone, IntakeTypeOK
  <2>3. \A gap : Founded(gap)' <=> Founded(gap)
    BY <2>2 DEF Founded, overlooked, crowded, sensorRows
  <2>4. ASSUME NEW gap \in HeldGaps' PROVE gap.created <= now /\ Founded(gap)
    <3>1. CASE gap \in HeldGaps
      BY <3>1 DEF SilenceInv
    <3>2. CASE gap \notin HeldGaps
      <4>1. gap \in UNION {detectHeartbeatGapCandidates(z, S, now) : z \in Zone}
        BY <1>0, <2>1, <2>2, <2>4, <3>2 DEF HeldGaps, IntakeTypeOK
      <4>2. PICK z \in Zone : gap \in detectHeartbeatGapCandidates(z, S, now)
        BY <4>1
      <4>5. now \in Nat /\ S \in SUBSET Reading
            /\ gap \in detectHeartbeatGapCandidates(z, S, now)
        BY <2>2, <4>2
      <4>3. gap.created = now
        BY <4>5 DEF detectHeartbeatGapCandidates
      <4>4. overlooked(gap) # {} => gap.end = now /\ crowded(now)
        BY <1>0, <2>1, <4>2, FoundIsFounded DEF SilenceInv
      <4> QED
        BY <2>2, <4>3, <4>4 DEF Founded
    <3> QED
      BY <3>1, <3>2
  <2> QED
    BY <2>2, <2>3, <2>4 DEF SilenceInv
<1>6. ASSUME NEW w \in Sweeper, recordGapCandidate(w) PROVE SilenceInv'
  <2>1. PICK gap \in todo[w] :
          /\ gapRows' = IF candidates[keyOf(gap)] = 0 THEN gapRows \cup {gap} ELSE gapRows
          /\ todo' = [todo EXCEPT ![w] = @ \ {gap}]
    BY <1>6 DEF recordGapCandidate
  <2>2. HeldGaps' \subseteq HeldGaps
    BY <1>0, <2>1 DEF HeldGaps, IntakeTypeOK
  <2> QED
    BY <1>1, <1>6, <2>2 DEF recordGapCandidate
<1> QED
  BY <1>2, <1>3, <1>4, <1>5, <1>6
  DEF IntakeNext, RequestStep, SweeperStep, detectCandidateFromEvidence,
      StoreCandidate, publishIngestResult, processGap, ivars

-----------------------------------------------------------------------------
LEMMA IntakeInvariant == IntakeSpec => []OnceInv
<1>1. IntakeInit => OnceInv
  BY IntakeInitInv
<1>2. OnceInv /\ [IntakeNext]_ivars => OnceInv'
  <2> SUFFICES ASSUME OnceInv, [IntakeNext]_ivars PROVE OnceInv'
    OBVIOUS
  <2>1. TypedInv
    BY DEF OnceInv, TypedInv
  <2>2. TypedInv'
    BY <2>1, ArrivedStep
  <2>3. RequestsApart' /\ SweepsApart' /\ OncePerCandidate'
    BY OnceStep
  <2> QED
    BY <2>2, <2>3 DEF OnceInv, TypedInv
<1> QED
  BY <1>1, <1>2, PTL DEF IntakeSpec

(* The tables, the requests and the sweeps have their types (rules.ts,     *)
(* heartbeat.ts): no confidence, of a reading or of a silence, is above    *)
(* the maximum the rules promise.                                          *)
THEOREM IntakeTyped == IntakeSpec => []IntakeTypeOK
BY IntakeInvariant, PTL DEF OnceInv

(* No reading and no silence runs the pipeline twice, for any number of    *)
(* requests, retries and overlapping sweeps (store.ts, scheduler.ts).      *)
THEOREM OncePerCandidateProven == IntakeSpec => []OncePerCandidate
BY IntakeInvariant, PTL DEF OnceInv

(* While the rows near a reading fit into `limit 50`, contradicting        *)
(* witnesses are never both above the escalation band (rules.ts).          *)
THEOREM ConflictIsNoticedProven == WitnessesFit => (IntakeSpec => []ConflictIsNoticed)
<1> SUFFICES ASSUME WitnessesFit PROVE IntakeSpec => []ConflictIsNoticed
  OBVIOUS
<1>1. IntakeInit => NotBothSure
  BY IntakeInitInv
<1>2. OnceInv /\ NotBothSure /\ [IntakeNext]_ivars => NotBothSure'
  BY NotBothSureStep DEF OnceInv, TypedInv
<1>3. OnceInv /\ NotBothSure => ConflictIsNoticed
  <2> SUFFICES ASSUME OnceInv, NotBothSure, NEW q \in Reading, NEW r \in Reading, Conflicting(q, r),
                      ~(candidates[q] <= 8000), ~(candidates[r] <= 8000)
               PROVE  FALSE
    BY DEF ConflictIsNoticed
  <2>1. PICK c \in Confidence, d \in Confidence : c = candidates[q] /\ d = candidates[r]
    BY Keys DEF OnceInv, IntakeTypeOK
  <2>2. c > 8000 /\ d > 8000
    BY <2>1 DEF Confidence
  <2> QED
    BY <2>1, <2>2 DEF NotBothSure, Sure
<1> QED
  BY <1>1, <1>2, <1>3, IntakeInvariant, PTL DEF IntakeSpec

(* Whatever is recorded as a silence, only a reading that arrived late     *)
(* contests it, unless it was taken to be open by a sweep whose query the  *)
(* `limit 5000` cut off (heartbeat.ts, store.ts:203-204).                  *)
THEOREM SilenceIsRealProven == IntakeSpec => []SilenceIsReal
<1>1. IntakeInit => SilenceInv
  BY DEF IntakeInit, SilenceInv, HeldGaps
<1>2. OnceInv /\ SilenceInv /\ [IntakeNext]_ivars => SilenceInv'
  BY SilenceStep DEF OnceInv, TypedInv
<1>3. SilenceInv => SilenceIsReal
  BY DEF SilenceInv, HeldGaps, Founded, SilenceIsReal
<1> QED
  BY <1>1, <1>2, <1>3, IntakeInvariant, PTL DEF IntakeSpec

=============================================================================
