----------------------------- MODULE MemoryMode -----------------------------
(***************************************************************************)
(* The API without a database: evidence, candidates, decisions and scores  *)
(* are maps of the process (ingestion/store.ts, pipeline/service.ts).      *)
(* What runs between two awaits is one step: a recomputation reads the     *)
(* approved candidates and stores the score and its commitment in one, as  *)
(* the tables of ApprovalPipeline do not.  A restart empties everything.   *)
(***************************************************************************)
EXTENDS FiniteSets

CONSTANTS
    Evidence,       \* readings and reports, by idempotency key
    Unclear,        \* those no candidate is detected from
    Epoch,          \* (zone, hour) pairs
    EpochOf,        \* the epoch of an evidence's candidate
    Confidence,     \* "high", "middle" or "low" for the policy gate
    Preview,        \* demo evidence whose run may not write to the chain
    Reviewer

ASSUME MemoryAssumption ==
    /\ Unclear \subseteq Evidence /\ Preview \subseteq Evidence
    /\ EpochOf \in [Evidence -> Epoch]
    /\ Confidence \in [Evidence -> {"high", "middle", "low"}]
    /\ "api" \notin Reviewer

VARIABLES
    evidenceByIdempotencyKey, candidatesByKey,  \* maps of ingestion/store.ts
    memoryDecisions,    \* a candidate's one decision
    memoryEpochScores,  \* by epoch: the approved candidates it counts
    task,               \* what each request does after the await it is at
    approvers           \* history: who approved a candidate

memvars == <<evidenceByIdempotencyKey, candidatesByKey, memoryDecisions,
             memoryEpochScores, task, approvers>>

(* A candidate is known by the evidence it was detected from. *)
Running == {"decide", "score", "skip"}
Task == (Reviewer \cup {"api"}) \X Evidence
Absent == {"absent"}

MemoryInit ==
    /\ evidenceByIdempotencyKey = {} /\ candidatesByKey = {}
    /\ memoryDecisions = [e \in Evidence |-> "none"]
    /\ memoryEpochScores = [s \in Epoch |-> Absent]
    /\ task = [t \in Task |-> "idle"]
    /\ approvers = [e \in Evidence |-> {}]

Goto(t, step) == task' = [task EXCEPT ![t] = step]

-----------------------------------------------------------------------------
(* storeMemoryCandidate *)
storeMemoryCandidate(e) ==
    IF e \in Unclear THEN UNCHANGED candidatesByKey
    ELSE candidatesByKey' = candidatesByKey \cup {e}

(* Fault: the key is looked up after the evidence has been stored. *)
isNew_Any(e) == TRUE

isNew(e) == e \notin evidenceByIdempotencyKey

(* upsertTelemetryEvidence, upsertReporterEvidence: a known key is a       *)
(* duplicate and goes no further; a candidate goes to the pipeline.        *)
upsertEvidence(e) ==
    /\ isNew(e)
    /\ task[<<"api", e>>] = "idle"
    /\ evidenceByIdempotencyKey' = evidenceByIdempotencyKey \cup {e}
    /\ storeMemoryCandidate(e)
    /\ Goto(<<"api", e>>, IF e \in Unclear THEN "idle" ELSE "decide")
    /\ UNCHANGED <<memoryDecisions, memoryEpochScores, approvers>>

decisionForCandidate(e) ==
    CASE Confidence[e] = "high" -> "approve"
      [] Confidence[e] = "middle" -> "escalate"
      [] Confidence[e] = "low" -> "reject"

SetDecision(e, decision, who) ==
    /\ memoryDecisions' = [memoryDecisions EXCEPT ![e] = decision]
    /\ approvers' = IF decision = "approve"
                      THEN [approvers EXCEPT ![e] = @ \cup {who}] ELSE approvers

(* processCandidatePipeline up to its first await.  What follows depends   *)
(* on the decision of the gate, not on what the map says by then.          *)
processCandidatePipeline(e) ==
    LET decision == decisionForCandidate(e) IN
    /\ task[<<"api", e>>] = "decide"
    /\ SetDecision(e, decision, "gate")
    /\ Goto(<<"api", e>>, IF decision = "approve" /\ e \notin Preview
                          THEN "score" ELSE "skip")
    /\ UNCHANGED <<evidenceByIdempotencyKey, candidatesByKey, memoryEpochScores>>

(* resolveReviewDecision up to its first await, of any decision there is. *)
resolveReviewDecision(r, e, decision) ==
    /\ task[<<r, e>>] = "idle"
    /\ memoryDecisions[e] # "none"
    /\ SetDecision(e, decision, "human")
    /\ Goto(<<r, e>>, IF decision = "approve" THEN "score" ELSE "skip")
    /\ UNCHANGED <<evidenceByIdempotencyKey, candidatesByKey, memoryEpochScores>>

(* Fault: the score counts the candidate that was approved and no other.   *)
recomputeMemoryEpochScore_Own(e) ==
    {d \in {e} : memoryDecisions[d] = "approve"}

(* Fault: the filter forgets `decision?.decision === "approve"`. *)
recomputeMemoryEpochScore_All(e) == {d \in candidatesByKey : EpochOf[d] = EpochOf[e]}

(* The approved candidates of the candidate's epoch. *)
recomputeMemoryEpochScore(e) ==
    {d \in candidatesByKey : EpochOf[d] = EpochOf[e] /\ memoryDecisions[d] = "approve"}

(* After the audit: the score and its pending commitment. *)
Score(t) ==
    /\ task[t] = "score"
    /\ memoryEpochScores' =
          [memoryEpochScores EXCEPT ![EpochOf[t[2]]] = recomputeMemoryEpochScore(t[2])]
    /\ Goto(t, "idle")
    /\ UNCHANGED <<evidenceByIdempotencyKey, candidatesByKey, memoryDecisions, approvers>>

(* Nothing to score: the request is answered. *)
Skip(t) ==
    /\ task[t] = "skip"
    /\ Goto(t, "idle")
    /\ UNCHANGED <<evidenceByIdempotencyKey, candidatesByKey, memoryDecisions,
                   memoryEpochScores, approvers>>

Restart ==
    /\ evidenceByIdempotencyKey' = {} /\ candidatesByKey' = {}
    /\ memoryDecisions' = [e \in Evidence |-> "none"]
    /\ memoryEpochScores' = [s \in Epoch |-> Absent]
    /\ task' = [t \in Task |-> "idle"]
    /\ approvers' = [e \in Evidence |-> {}]

MemoryNext ==
    \/ \E e \in Evidence : upsertEvidence(e) \/ processCandidatePipeline(e)
    \/ \E r \in Reviewer, e \in Evidence, d \in {"approve", "reject"} :
          resolveReviewDecision(r, e, d)
    \/ \E t \in Task : Score(t) \/ Skip(t)
    \/ Restart

MemorySpec == MemoryInit /\ [][MemoryNext]_memvars

-----------------------------------------------------------------------------
(* The maps and the requests have their types. *)
MemoryTypeOK ==
    /\ evidenceByIdempotencyKey \subseteq Evidence
    /\ candidatesByKey \subseteq evidenceByIdempotencyKey
    /\ memoryDecisions \in [Evidence -> {"none", "approve", "escalate", "reject"}]
    /\ memoryEpochScores \in [Epoch -> (SUBSET Evidence) \cup {Absent}]
    /\ task \in [Task -> Running \cup {"idle"}]
    /\ approvers \in [Evidence -> SUBSET {"gate", "human"}]

Settled(s) == \A t \in Task : EpochOf[t[2]] = s => task[t] = "idle"

(* What the database mode loses (ScoreIsApprovedSet of ApprovalPipeline)   *)
(* stays here: when an epoch's requests are done, its score counts every   *)
(* approved candidate that may be, whatever gate and reviewers did while   *)
(* one another's audits were awaited.                                      *)
NoApprovalIsLost ==
    \A e \in candidatesByKey \ Preview :
        memoryDecisions[e] = "approve" /\ Settled(EpochOf[e]) =>
            e \in memoryEpochScores[EpochOf[e]]

(* Evidence that is sent again never undoes a reviewer's decision: the     *)
(* gate decides a candidate once in the life of the process.               *)
DecidedByGateOnce ==
    [][\A e \in Evidence :
          memoryDecisions[e] # "none" /\ task[<<"api", e>>] = "decide"
          => memoryDecisions'[e] = memoryDecisions[e]]_memvars

(* A score counts no candidate but those the gate was sure of and those a  *)
(* reviewer had approved.                                                  *)
MemoryCountsOnlyVetted ==
    \A s \in Epoch : memoryEpochScores[s] # Absent =>
        \A e \in memoryEpochScores[s] :
            "human" \in approvers[e] \/ Confidence[e] = "high"

-----------------------------------------------------------------------------
(* The other half of ScoreIsApprovedSet: a reviewer's rejection takes the  *)
(* candidate out of the score.  It recomputes nothing, here as there.      *)
RejectedIsNotCounted ==
    \A s \in Epoch : memoryEpochScores[s] # Absent /\ Settled(s) =>
        \A e \in memoryEpochScores[s] : memoryDecisions[e] # "reject"

=============================================================================
