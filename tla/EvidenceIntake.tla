--------------------------- MODULE EvidenceIntake ---------------------------
(***************************************************************************)
(* How candidates come about: requests that store a reading and judge it   *)
(* (api/ingestion), and the heartbeat sweep that judges silence            *)
(* (pipeline/scheduler.ts).  Both store a candidate under a unique key and *)
(* hand it to the approval pipeline.  Requests, retries of a request, and  *)
(* sweeps of several API instances overlap between any two statements.  A *)
(* request or a sweep that throws or dies takes no further step; the next  *)
(* attempt is another request or sweeper.                                  *)
(***************************************************************************)
EXTENDS DetectionRules

CONSTANTS
    Request, ReadingOf,     \* requests, and the payload each carries
    Sweeper,                \* sweeps that may overlap
    Zone,
    RecentLimit,            \* `limit 50` of findRecentZoneEvidence
    SweepLimit,             \* `limit 5000` of listSweepEvidenceByZone
    MaxAge, MaxSkew,        \* accepted age and clock skew of a reading
    MaxTime                 \* bound on the clock

Lookback == 3 * GapLength

ASSUME IntakeAssumption ==
    /\ ReadingOf \in [Request -> Reading]
    /\ \A r \in Reading : About[r].zone \in Zone
    /\ RecentLimit \in Nat /\ SweepLimit \in Nat
    /\ MaxAge \in Nat /\ MaxSkew \in Nat /\ MaxTime \in Nat

Confidence == 0..9700
GapConfidence == 6000..9500
Stage == {"unsent", "detect", "store", "publish", "done"}

(* candidate_key: of a reading, or of a silence by its zone and start. *)
GapKey == Zone \X (0..(MaxTime + MaxSkew))
CandidateKey == Reading \cup GapKey
keyOf(gap) == <<gap.zone, gap.start>>

(* The key of a silence starts with "heartbeat-gap:" (heartbeat.ts:107).   *)
ASSUME KeysAssumption == Reading \cap GapKey = {}

Gap == [zone : Zone, start : 0..(MaxTime + MaxSkew), end : 0..(MaxTime + MaxSkew),
        confidence : GapConfidence, created : 0..MaxTime]

VARIABLES
    now,
    evidence,       \* rows of evidence_events
    receivedAt,     \* their column received_at
    candidates,     \* confidence of the rows of candidate_events, 0 for none
    gapRows,        \* those rows that record a silence, with their columns
    pc, found,      \* what a request does next, and the confidence it computed
    todo,           \* silences a sweep still has to record
    recorded,       \* the silence a sweep has recorded and not handed on yet
    pipelineRuns    \* history: calls of processCandidatePipeline

ivars == <<now, evidence, receivedAt, candidates, gapRows, pc, found, todo, recorded,
           pipelineRuns>>

IntakeInit ==
    /\ now = 0
    /\ evidence = {}
    /\ receivedAt = [r \in Reading |-> 0]
    /\ candidates = [k \in CandidateKey |-> 0]
    /\ gapRows = {}
    /\ pc = [t \in Request |-> "unsent"]
    /\ found = [t \in Request |-> 0]
    /\ todo = [w \in Sweeper |-> {}]
    /\ recorded = [w \in Sweeper |-> {}]
    /\ pipelineRuns = [k \in CandidateKey |-> 0]

Tick ==
    /\ now < MaxTime
    /\ now' = now + 1
    /\ UNCHANGED <<evidence, receivedAt, candidates, gapRows, pc, found, todo, recorded,
                   pipelineRuns>>

Goto(t, step) == pc' = [pc EXCEPT ![t] = step]

-----------------------------------------------------------------------------
(* A reading that is too old or from the future is refused. *)
validateObservedAt(r) == About[r].at <= now + MaxSkew /\ About[r].at >= now - MaxAge

(* `on conflict (idempotency_key) do nothing`: a duplicate ends here. *)
InsertEvidence(t) ==
    LET r == ReadingOf[t] IN
    /\ pc[t] = "unsent"
    /\ validateObservedAt(r)
    /\ evidence' = evidence \cup {r}
    /\ receivedAt' = IF r \in evidence THEN receivedAt ELSE [receivedAt EXCEPT ![r] = now]
    /\ Goto(t, IF r \in evidence THEN "done" ELSE "detect")
    /\ UNCHANGED <<now, candidates, gapRows, found, todo, recorded, pipelineRuns>>

(* Fault: only what was observed before the reading. *)
inWindow_Before(r) == {q \in evidence : q # r /\ Close(q, r)
                                        /\ About[q].zone = About[r].zone
                                        /\ About[q].at <= About[r].at}

inWindow(r) == {q \in evidence : q # r /\ Close(q, r) /\ About[q].zone = About[r].zone}

(* `order by observed_at desc limit 50`; ties come in any order. *)
isRecent(S, r) ==
    /\ S \subseteq inWindow(r)
    /\ Cardinality(S) = MinOf(RecentLimit, Cardinality(inWindow(r)))
    /\ \A q \in S, p \in inWindow(r) \ S : About[q].at >= About[p].at

detectCandidateFromEvidence(t) ==
    LET r == ReadingOf[t] IN
    /\ pc[t] = "detect"
    /\ IF About[r].status = "unknown"
         THEN Goto(t, "done") /\ UNCHANGED found
         ELSE /\ \E S \in SUBSET evidence :
                    isRecent(S, r) /\ found' = [found EXCEPT ![t] = scoreAgreement(r, S)]
              /\ Goto(t, "store")
    /\ UNCHANGED <<now, evidence, receivedAt, candidates, gapRows, todo, recorded, pipelineRuns>>

insertCandidate(k, confidence) ==
    candidates' = IF candidates[k] = 0 THEN [candidates EXCEPT ![k] = confidence]
                  ELSE candidates

StoreCandidate(t) ==
    /\ pc[t] = "store"
    /\ insertCandidate(ReadingOf[t], found[t])
    /\ Goto(t, "publish")
    /\ UNCHANGED <<now, evidence, receivedAt, gapRows, found, todo, recorded, pipelineRuns>>

publishIngestResult(t) ==
    /\ pc[t] = "publish"
    /\ pipelineRuns' = [pipelineRuns EXCEPT ![ReadingOf[t]] = @ + 1]
    /\ Goto(t, "done")
    /\ UNCHANGED <<now, evidence, receivedAt, candidates, gapRows, found, todo, recorded>>

-----------------------------------------------------------------------------
(* `where source = 'sensor' and observed_at >= $1` *)
sensorRows(t) == {r \in evidence : About[r].source = "sensor" /\ About[r].at >= t - Lookback}

(* `order by observed_at asc limit 5000`, ties in any order. *)
isSweepEvidence(S) ==
    LET recent == sensorRows(now) IN
    /\ S \subseteq recent
    /\ Cardinality(S) = MinOf(SweepLimit, Cardinality(recent))
    /\ \A q \in S, p \in recent \ S : About[q].at <= About[p].at

idleSweeper(w) == todo[w] = {} /\ recorded[w] = {}

listSweepEvidenceByZone(w) ==
    /\ idleSweeper(w)
    /\ \E S \in SUBSET evidence :
          /\ isSweepEvidence(S)
          /\ todo' = [todo EXCEPT ![w] =
                        UNION {detectHeartbeatGapCandidates(z, S, now) : z \in Zone}]
    /\ todo[w] # todo'[w]
    /\ UNCHANGED <<now, evidence, receivedAt, candidates, gapRows, pc, found, recorded,
                   pipelineRuns>>

(* Fault: the candidate is returned whether or not it was inserted. *)
isNewGap_Always(gap) == TRUE

(* `insert.rowCount === 0 ? null : candidate` *)
isNewGap(gap) == candidates[keyOf(gap)] = 0

(* The silences of a zone are taken in the order of their start. *)
recordGapCandidate(w) ==
    /\ recorded[w] = {}
    /\ \E gap \in todo[w] :
          /\ \A g \in todo[w] : g.zone = gap.zone => gap.start <= g.start
          /\ insertCandidate(keyOf(gap), gap.confidence)
          /\ gapRows' = IF candidates[keyOf(gap)] = 0 THEN gapRows \cup {gap} ELSE gapRows
          /\ todo' = [todo EXCEPT ![w] = @ \ {gap}]
          /\ recorded' = [recorded EXCEPT ![w] = IF isNewGap(gap) THEN {gap} ELSE {}]
    /\ UNCHANGED <<now, evidence, receivedAt, pc, found, pipelineRuns>>

(* A failure of the pipeline is logged, and the sweep goes on. *)
processGap(w) ==
    /\ \E gap \in recorded[w] :
          pipelineRuns' = [pipelineRuns EXCEPT ![keyOf(gap)] = @ + 1]
    /\ recorded' = [recorded EXCEPT ![w] = {}]
    /\ UNCHANGED <<now, evidence, receivedAt, candidates, gapRows, pc, found, todo>>

RequestStep(t) ==
    \/ InsertEvidence(t) \/ detectCandidateFromEvidence(t)
    \/ StoreCandidate(t) \/ publishIngestResult(t)

SweeperStep(w) ==
    \/ listSweepEvidenceByZone(w) \/ recordGapCandidate(w)
    \/ processGap(w)

IntakeNext ==
    \/ Tick
    \/ \E t \in Request : RequestStep(t)
    \/ \E w \in Sweeper : SweeperStep(w)

IntakeSpec == IntakeInit /\ [][IntakeNext]_ivars

-----------------------------------------------------------------------------
(* The rows, the requests and the sweeps have their types; no confidence   *)
(* exceeds MAX_AGREED_CONFIDENCE.                                          *)
IntakeTypeOK ==
    /\ now \in 0..MaxTime
    /\ evidence \subseteq Reading
    /\ receivedAt \in [Reading -> 0..MaxTime]
    /\ gapRows \subseteq Gap
    /\ candidates \in [CandidateKey -> Confidence]
    /\ pc \in [Request -> Stage]
    /\ found \in [Request -> Confidence]
    /\ todo \in [Sweeper -> SUBSET Gap] /\ recorded \in [Sweeper -> SUBSET Gap]
    /\ pipelineRuns \in [CandidateKey -> Nat]

(* "A repeated payload ... does not run the pipeline again" (README.md:198) *)
(* and a silence runs it once "even across restarts and concurrent         *)
(* instances" (scheduler.ts:143-145): never twice, in whatever order       *)
(* requests, their retries and sweeps interleave or die.                   *)
OncePerCandidate == \A k \in CandidateKey : pipelineRuns[k] <= 1

(* Of two witnesses that contradict each other, at least one is held in    *)
(* the escalation band (rules.ts:8-12), even when their requests run at    *)
(* the same time: each stores its row before it looks for the other's.     *)
ConflictIsNoticed ==
    \A q, r \in Reading :
        Conflicting(q, r) /\ candidates[q] > 0 /\ candidates[r] > 0
        => candidates[q] <= 8000 \/ candidates[r] <= 8000

(* The heartbeats that fall into a recorded silence and had been received  *)
(* before the sweep that found it looked.                                  *)
overlooked(gap) ==
    {r \in beatsOf(gap.zone, evidence) :
        gap.start < About[r].at /\ About[r].at < gap.end /\ receivedAt[r] < gap.created}

(* More rows of the look-back had arrived by t than a sweep reads.         *)
crowded(t) == Cardinality({r \in sensorRows(t) : receivedAt[r] <= t}) > SweepLimit

(* Only a late reading contests a recorded silence (heartbeat.ts:34-37),   *)
(* however long the sweep took to record what it found and whichever of    *)
(* two overlapping sweeps did.  A heartbeat that had arrived is overlooked *)
(* in one case: `limit 5000` (store.ts:203-204) cut the newest rows off,   *)
(* and the silence was thought to be still open.                           *)
SilenceIsReal ==
    \A gap \in gapRows :
        overlooked(gap) # {} => gap.end = gap.created /\ crowded(gap.created)

=============================================================================
