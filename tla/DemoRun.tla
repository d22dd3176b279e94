------------------------------- MODULE DemoRun -------------------------------
(***************************************************************************)
(* The Judge Demo Lab (api/demo/service.ts): a signed one-time challenge    *)
(* authorises one synthetic reading of a feeder, which runs through the     *)
(* pipeline as a preview or, when the wallet agreed, up to the chain.      *)
(* Challenges and runs are in memory; everything else is in the tables.    *)
(***************************************************************************)
EXTENDS Integers, FiniteSets

CONSTANTS
    Nonce,          \* challenges
    Live,           \* those that authorise publishing
    Ambiguous,      \* those of the scenario the gate escalates
    NoNonce,
    RunRequest,     \* POST /demo/simulations
    LastHour,       \* bound: the clock's last hour
    DemoFaults      \* which of "abort", "restart" happen

ASSUME DemoAssumption ==
    /\ Live \subseteq Nonce /\ Ambiguous \subseteq Nonce /\ NoNonce \notin Nonce
    /\ LastHour \in Nat \ {0}
    /\ DemoFaults \subseteq {"abort", "restart"}

VARIABLES
    hour,           \* the current hour; the epochs before it are completed
    challenge,      \* memoryChallenges
    at,             \* where a request stands between two awaits
    nonceOf,        \* the challenge it consumed
    epochOf,        \* the epoch of its reading
    gate, ai,       \* its candidate's agent_decisions rows
    agentJob,       \* its review job in the worker
    reviewed,       \* history: candidates a reviewer approved
    scored,         \* epochs of the feeder with an epoch_scores row
    proof,          \* chain_commitments of the feeder by epoch
    previewed,      \* audit rows demo.proof_previewed
    inMemory,       \* memoryRuns
    audited         \* audit rows demo.simulation_started

clientVars == <<challenge, nonceOf>>
runVars == <<at, epochOf, inMemory, audited>>
rowVars == <<gate, ai, agentJob, reviewed, scored, proof, previewed>>
demovars == <<hour, clientVars, runVars, rowVars>>

Hour == 1..LastHour
isLive(r) == nonceOf[r] \in Live

DemoInit ==
    /\ hour = 2
    /\ challenge = [n \in Nonce |-> "none"]
    /\ at = [r \in RunRequest |-> "idle"]
    /\ nonceOf = [r \in RunRequest |-> NoNonce]
    /\ epochOf = [r \in RunRequest |-> 0]
    /\ gate = [r \in RunRequest |-> "none"] /\ ai = [r \in RunRequest |-> "none"]
    /\ agentJob = [r \in RunRequest |-> "none"]
    /\ reviewed = {} /\ scored = {}
    /\ proof = [e \in Hour |-> "none"]
    /\ previewed = {} /\ inMemory = {} /\ audited = {}

HourPasses ==
    /\ hour < LastHour
    /\ hour' = hour + 1
    /\ UNCHANGED <<clientVars, runVars, rowVars>>

(* Verified evidence of the feeder itself scores an epoch; its commitment   *)
(* is not one of this module's.                                            *)
FieldScore(e) ==
    /\ e <= hour /\ e \notin scored
    /\ scored' = scored \cup {e}
    /\ UNCHANGED <<hour, clientVars, runVars, gate, ai, agentJob, reviewed, proof, previewed>>

-----------------------------------------------------------------------------
(* The request *)

createDemoWalletChallenge(n) ==
    /\ challenge[n] = "none"
    /\ challenge' = [challenge EXCEPT ![n] = "open"]
    /\ UNCHANGED <<hour, nonceOf, runVars, rowVars>>

(* expiresAt has passed *)
ExpireChallenge(n) ==
    /\ challenge[n] = "open"
    /\ challenge' = [challenge EXCEPT ![n] = "expired"]
    /\ UNCHANGED <<hour, nonceOf, runVars, rowVars>>

Step(r, from, to) == at[r] = from /\ at' = [at EXCEPT ![r] = to]

(* Fault: the challenge is marked used when the run is recorded. *)
consumeChallenge_Late(r, n) ==
    /\ challenge[n] = "open"
    /\ Step(r, "idle", "choose")
    /\ nonceOf' = [nonceOf EXCEPT ![r] = n]
    /\ UNCHANGED <<hour, challenge, epochOf, inMemory, audited, rowVars>>

(* Checked and marked used before the first await.                          *)
consumeChallenge(r, n) ==
    /\ challenge[n] = "open"
    /\ Step(r, "idle", "choose")
    /\ challenge' = [challenge EXCEPT ![n] = "used"]
    /\ nonceOf' = [nonceOf EXCEPT ![r] = n]
    /\ UNCHANGED <<hour, epochOf, inMemory, audited, rowVars>>

(* The newest completed epoch without a score; a preview takes the present. *)
unusedEpoch(e) ==
    /\ e < hour /\ e \notin scored
    /\ \A f \in Hour : e < f /\ f < hour => f \in scored

demoObservedAt(r, e) ==
    /\ IF isLive(r) THEN unusedEpoch(e) ELSE e = hour
    /\ epochOf' = [epochOf EXCEPT ![r] = e]

ChooseEpoch(r) ==
    \/ /\ Step(r, "choose", "decide")
       /\ \E e \in Hour : demoObservedAt(r, e)
       /\ UNCHANGED <<hour, clientVars, inMemory, audited, rowVars>>
    \/ /\ isLive(r) /\ \A e \in Hour : e < hour => e \in scored     \* 409
       /\ Step(r, "choose", "failed")
       /\ UNCHANGED <<hour, clientVars, epochOf, inMemory, audited, rowVars>>

(* Evidence and candidate rows, then processCandidatePipeline: the gate's   *)
(* row, and what follows from it.                                          *)
GateDecides(r) ==
    /\ at[r] = "decide"
    /\ IF nonceOf[r] \in Ambiguous
       THEN gate' = [gate EXCEPT ![r] = "escalate"] /\ Step(r, "decide", "enqueue")
       ELSE /\ gate' = [gate EXCEPT ![r] = "approve"]
            /\ Step(r, "decide", IF isLive(r) THEN "score" ELSE "preview")
    /\ UNCHANGED <<hour, clientVars, epochOf, inMemory, audited,
                   ai, agentJob, reviewed, scored, proof, previewed>>

queueAgentReview(r) ==
    /\ Step(r, "enqueue", "record")
    /\ agentJob' = [agentJob EXCEPT ![r] = "queued"]
    /\ UNCHANGED <<hour, clientVars, epochOf, inMemory, audited,
                   gate, ai, reviewed, scored, proof, previewed>>

auditSimulationProofPreview(r) ==
    /\ Step(r, "preview", "record")
    /\ previewed' = previewed \cup {r}
    /\ UNCHANGED <<hour, clientVars, epochOf, inMemory, audited,
                   gate, ai, agentJob, reviewed, scored, proof>>

(* upsertEpochScore, then upsertPendingCommitment of the reading's epoch.   *)
score(r) ==
    /\ scored' = scored \cup {epochOf[r]}
    /\ UNCHANGED proof
queueProof(r) ==
    /\ proof' = [proof EXCEPT ![epochOf[r]] = "pending"]
    /\ UNCHANGED scored

ScoreRun(r) ==
    /\ \/ Step(r, "score", "commit") /\ score(r)
       \/ Step(r, "commit", "record") /\ queueProof(r)
    /\ UNCHANGED <<hour, clientVars, epochOf, inMemory, audited,
                   gate, ai, agentJob, reviewed, previewed>>

(* memoryRuns.set, the audit row, the answer.                               *)
RecordRun(r) ==
    /\ \/ /\ Step(r, "record", "audit")
          /\ inMemory' = inMemory \cup {r}
          /\ UNCHANGED audited
       \/ /\ Step(r, "audit", "answered")
          /\ audited' = audited \cup {r}
          /\ UNCHANGED inMemory
    /\ UNCHANGED <<hour, clientVars, epochOf, rowVars>>

AbortRun(r) ==
    /\ "abort" \in DemoFaults
    /\ at[r] \notin {"idle", "answered", "failed"}
    /\ at' = [at EXCEPT ![r] = "failed"]
    /\ UNCHANGED <<hour, clientVars, epochOf, inMemory, audited, rowVars>>

RestartDemo ==
    /\ "restart" \in DemoFaults
    /\ challenge' = [n \in Nonce |-> IF challenge[n] = "none" THEN "none" ELSE "gone"]
    /\ at' = [r \in RunRequest |-> IF at[r] \in {"idle", "answered"} THEN at[r] ELSE "failed"]
    /\ inMemory' = {}
    /\ UNCHANGED <<hour, nonceOf, epochOf, audited, rowVars>>

-----------------------------------------------------------------------------
(* The worker, the reviewer, the relayer *)

(* Fault: the job does not say whether the run may write to the chain. *)
mayPublish_Always(r) == TRUE
mayPublish(r) == isLive(r)

(* persistOrchestrationResult *)
WorkerDecides(r) ==
    /\ agentJob[r] = "queued"
    /\ \E v \in {"approve", "escalate", "reject"} :
         /\ ai' = [ai EXCEPT ![r] = v]
         /\ agentJob' = [agentJob EXCEPT ![r] = IF v # "approve" THEN "done"
                                      ELSE IF mayPublish(r) THEN "score" ELSE "preview"]
    /\ UNCHANGED <<hour, clientVars, runVars, gate, reviewed, scored, proof, previewed>>

WorkerFollows(r) ==
    /\ \/ /\ agentJob[r] = "preview" /\ agentJob' = [agentJob EXCEPT ![r] = "done"]
          /\ previewed' = previewed \cup {r}
          /\ UNCHANGED <<scored, proof>>
       \/ /\ agentJob[r] = "score" /\ agentJob' = [agentJob EXCEPT ![r] = "commit"]
          /\ score(r) /\ UNCHANGED previewed
       \/ /\ agentJob[r] = "commit" /\ agentJob' = [agentJob EXCEPT ![r] = "done"]
          /\ queueProof(r) /\ UNCHANGED previewed
    /\ UNCHANGED <<hour, clientVars, runVars, gate, ai, reviewed>>

(* resolveReviewDecision approves an escalated row: it does not look at the *)
(* simulation.  Its score and commitment are one step here.                *)
ReviewerApproves(r) ==
    /\ "escalate" \in {gate[r], ai[r]}
    /\ \/ gate[r] = "escalate" /\ gate' = [gate EXCEPT ![r] = "approve"] /\ UNCHANGED ai
       \/ ai[r] = "escalate" /\ ai' = [ai EXCEPT ![r] = "approve"] /\ UNCHANGED gate
    /\ reviewed' = reviewed \cup {r}
    /\ scored' = scored \cup {epochOf[r]}
    /\ proof' = [proof EXCEPT ![epochOf[r]] = "pending"]
    /\ UNCHANGED <<hour, clientVars, runVars, agentJob, previewed>>

(* The sweeps, once the epoch is completed.                                 *)
Relayed(e) ==
    /\ proof[e] = "pending" /\ e < hour
    /\ \E s \in {"confirmed", "failed"} : proof' = [proof EXCEPT ![e] = s]
    /\ UNCHANGED <<hour, clientVars, runVars, gate, ai, agentJob, reviewed, scored, previewed>>

-----------------------------------------------------------------------------
(* GET /demo/simulations/:id *)

agentState(r) ==
    IF gate[r] # "escalate" THEN "not_required"
    ELSE IF ai[r] # "none" THEN "complete" ELSE "queued"

findChainState(r) ==
    IF ~isLive(r) THEN IF r \in previewed THEN "preview" ELSE "not_requested"
    ELSE IF proof[epochOf[r]] = "none" THEN "not_requested" ELSE proof[epochOf[r]]

(* databaseRun: the audit row, and a decision row whose agent_name is       *)
(* 'evidence-verification-agent': no writer uses that name.                *)
DecisionName == {"deterministic-policy-gate", "ai-evidence-verification-agent"}
databaseRun(r) == r \in audited /\ "evidence-verification-agent" \in DecisionName
getDemoSimulation(r) == r \in inMemory \/ databaseRun(r)

runStep(r) ==
    \/ ChooseEpoch(r) \/ GateDecides(r) \/ queueAgentReview(r)
    \/ auditSimulationProofPreview(r) \/ ScoreRun(r) \/ RecordRun(r)

DemoNext ==
    \/ HourPasses \/ RestartDemo
    \/ \E e \in Hour : FieldScore(e) \/ Relayed(e)
    \/ \E n \in Nonce : createDemoWalletChallenge(n) \/ ExpireChallenge(n)
    \/ \E r \in RunRequest :
         \/ \E n \in Nonce : consumeChallenge(r, n)
         \/ runStep(r) \/ AbortRun(r)
         \/ WorkerDecides(r) \/ WorkerFollows(r) \/ ReviewerApproves(r)

DemoSpec == DemoInit /\ [][DemoNext]_demovars

-----------------------------------------------------------------------------
(* Properties *)

(* Types of the lab's state. *)
DemoTypeOK ==
    /\ hour \in Hour
    /\ challenge \in [Nonce -> {"none", "open", "used", "expired", "gone"}]
    /\ at \in [RunRequest -> {"idle", "choose", "decide", "enqueue", "preview", "score",
                              "commit", "record", "audit", "answered", "failed"}]
    /\ nonceOf \in [RunRequest -> Nonce \cup {NoNonce}]
    /\ epochOf \in [RunRequest -> 0..LastHour]
    /\ gate \in [RunRequest -> {"none", "approve", "escalate"}]
    /\ ai \in [RunRequest -> {"none", "approve", "escalate", "reject"}]
    /\ agentJob \in [RunRequest -> {"none", "queued", "preview", "score", "commit", "done"}]
    /\ scored \subseteq Hour
    /\ proof \in [Hour -> {"none", "pending", "confirmed", "failed"}]
    /\ UNION {reviewed, previewed, inMemory, audited} \subseteq RunRequest

(* README.md:460 "the one-time authorization message": a signed challenge   *)
(* starts one run, whatever requests present it at once (service.ts:226).   *)
OneRunPerChallenge ==
    \A r, q \in RunRequest : nonceOf[r] = nonceOf[q] /\ nonceOf[r] # NoNonce => r = q

(* The gate and the worker queue a commitment for a demo reading only if    *)
(* its wallet authorised publishing; a reviewer's approval is the only      *)
(* other way to one (pipeline/service.ts:41, result-sink.ts:55).            *)
PublishedIfAuthorized ==
    \A e \in Hour : proof[e] # "none" =>
        \E r \in RunRequest : epochOf[r] = e /\ (isLive(r) \/ r \in reviewed)

(* DemoLab.tsx:250 "Replays the reading in an unused completed epoch": two  *)
(* live runs never replay in the same one.                                 *)
LiveRunsHaveOwnEpoch ==
    \A r, q \in RunRequest :
        isLive(r) /\ isLive(q) /\ epochOf[r] = epochOf[q] /\ epochOf[r] # 0 => r = q

(* A run that was answered can be read back, also after a restart.          *)
RunSurvivesRestart == \A r \in RunRequest : at[r] = "answered" => getDemoSimulation(r)
=============================================================================
