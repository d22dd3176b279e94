-------------------------- MODULE EpochProofProofs --------------------------
(***************************************************************************)
(* What holds of EpochProof for any number of candidates, epochs, tasks,   *)
(* sweeps and transactions, and under any failures: what is scored and put *)
(* on the ledger is vetted, what is shown as confirmed is on the ledger,   *)
(* its hash is the right one if submitting sweeps do not overlap, and the  *)
(* seed (SeedReset) breaks none of the first two.  Together: EpochProof,   *)
(* with and without the seed, implements ProofPromise.  And if nothing     *)
(* fails, an approval is never forgotten on its way to the ledger.         *)
(***************************************************************************)
EXTENDS SeedReset, SumTheorems, FiniteSetTheorems, TLAPS

-----------------------------------------------------------------------------
(* A candidate has two decision rows at most, so the join counts it at     *)
(* most twice.                                                             *)
LEMMA VotesType ==
    ASSUME NEW s \in Slot
    PROVE  approvedVotes(s) \in Votes
<1>1. IsFiniteSet(Agent) /\ Cardinality(Agent) = 2
  <2>1. Agent = {"gate"} \cup {"ai"} /\ "ai" \notin {"gate"}
    BY DEF Agent
  <2>2. IsFiniteSet({"gate"}) /\ Cardinality({"gate"}) = 1
    BY FS_Singleton
  <2>3. QED BY <2>1, <2>2, FS_AddElement
<1>2. ASSUME NEW c \in Candidate
      PROVE  Cardinality({a \in Agent : decisions[c][a] = "approve"}) \in 0..2
  <2>1. {a \in Agent : decisions[c][a] = "approve"} \in SUBSET Agent
    OBVIOUS
  <2>2. QED BY <1>1, <2>1, FS_Subset, FS_CardinalityType
<1>3. QED BY <1>2 DEF approvedVotes, Votes

(* What a task reads to store is a score. *)
LEMMA VotesForType ==
    ASSUME NEW t \in Task
    PROVE  votesFor(t) \in Votes
<1>1. t[2] \in Candidate /\ SlotOf[t[2]] \in Slot
  BY StoreAssumption DEF Task
<1>2. approvedVotes(SlotOf[t[2]]) \in Votes
  BY <1>1, VotesType
<1>3. [NoVotes EXCEPT ![t[2]] = 1] \in Votes
  <2>1. NoVotes \in Votes
    BY DEF NoVotes, Votes
  <2>2. QED BY <1>1, <2>1 DEF Votes
<1>4. QED BY <1>2, <1>3 DEF votesFor

(* The upsert leaves a well-formed commitment in every slot. *)
LEMMA UpsertType ==
    ASSUME StoreTypeOK, NEW s \in Slot, upsertPendingCommitment(s)
    PROVE  commitments' \in [Slot -> Commitment]
<1> DEFINE n == Cardinality({r \in Slot : Exists(r)})
<1>1. n \in 0..Cardinality(Slot)
  <2>1. {r \in Slot : Exists(r)} \in SUBSET Slot
    OBVIOUS
  <2>2. QED BY <2>1, StoreAssumption, FS_Subset, FS_CardinalityType
<1>2. NoTx \in Tx \cup {NoTx}
  OBVIOUS
<1> HIDE DEF n
<1>3. [status |-> "pending", txHash |-> NoTx, createdAt |-> n] \in Commitment
  BY <1>1, <1>2 DEF Commitment
<1>4. [commitments[s] EXCEPT !.status = "pending"] \in Commitment
  BY DEF StoreTypeOK, Commitment
<1>5. commitments' = [commitments EXCEPT ![s] =
          IF Exists(s) THEN [commitments[s] EXCEPT !.status = "pending"]
          ELSE [status |-> "pending", txHash |-> NoTx, createdAt |-> n]]
  BY DEF upsertPendingCommitment, n
<1>6. QED BY <1>3, <1>4, <1>5 DEF StoreTypeOK

-----------------------------------------------------------------------------
(* What a verdict leaves in the decisions and the history. *)
LEMMA RecordType ==
    ASSUME PipelineTypeOK, NEW c \in Candidate, NEW a \in Agent,
           NEW v \in Verdict, NEW who \in {"gate", "ai", "human"},
           Record(c, a, v, who)
    PROVE  /\ decisions' \in [Candidate -> [Agent -> Verdict \cup {"none"}]]
           /\ approvers' \in [Candidate -> SUBSET {"gate", "ai", "human"}]
<1>1. decisions' = [decisions EXCEPT ![c][a] = v]
  BY DEF Record, upsertDecision
<1>2. decisions' \in [Candidate -> [Agent -> Verdict \cup {"none"}]]
  BY <1>1 DEF PipelineTypeOK, StoreTypeOK
<1>3. approvers' \in [Candidate -> SUBSET {"gate", "ai", "human"}]
  BY DEF Record, PipelineTypeOK
<1>4. QED BY <1>2, <1>3

LEMMA GotoType ==
    ASSUME PipelineTypeOK, NEW t \in Task, NEW step \in Step, Goto(t, step)
    PROVE  pc' \in [Task -> Step]
BY DEF PipelineTypeOK, Goto

(* The tasks of a candidate. *)
LEMMA Tasks ==
    ASSUME NEW c \in Candidate
    PROVE  /\ <<"api", c>> \in Task /\ <<"worker", c>> \in Task
           /\ \A r \in Reviewer : <<r, c>> \in Task /\ r # "api" /\ r # "worker"
BY PipelineAssumption DEF Task, Actor

(* A jump moves one task, and the tasks of a candidate are distinct. *)
LEMMA GotoFrame ==
    ASSUME PipelineTypeOK, NEW t \in Task, NEW step, Goto(t, step)
    PROVE  /\ pc'[t] = step
           /\ \A u \in Task : u # t => pc'[u] = pc[u]
BY DEF PipelineTypeOK, Goto

LEMMA TasksDiffer ==
    ASSUME NEW c \in Candidate, NEW d \in Candidate
    PROVE  /\ <<"api", c>> # <<"worker", d>>
           /\ d # c => <<"api", d>> # <<"api", c>> /\ <<"worker", d>> # <<"worker", c>>
           /\ \A r \in Reviewer : <<r, c>> # <<"api", d>> /\ <<r, c>> # <<"worker", d>>
BY PipelineAssumption

(* The type invariant of the pipeline is preserved by each of its steps. *)
LEMMA PipelineTypeStep ==
    ASSUME PipelineTypeOK, PipelineNext
    PROVE  PipelineTypeOK'
<1> USE DEF PipelineTypeOK, StoreTypeOK, dbvars
<1>1. ASSUME NEW c \in Candidate, Detect(c)
      PROVE  PipelineTypeOK'
  BY <1>1, Tasks, GotoType DEF Detect, Step
<1>2. ASSUME NEW c \in Candidate, Decide(c)
      PROVE  PipelineTypeOK'
  <2>1. decisionForConfidence(Confidence[c]) \in Verdict
    BY DEF decisionForConfidence, Verdict
  <2>2. pc' \in [Task -> Step]
    BY <1>2, Tasks, GotoType DEF Decide, Step
  <2>3. QED BY <1>2, <2>1, <2>2, RecordType DEF Decide, Agent
<1>3. ASSUME NEW c \in Candidate, enqueueAgentReviewJob(c)
      PROVE  PipelineTypeOK'
  <2>1. pc' \in [Task -> Step]
    BY <1>3, Tasks, GotoType DEF enqueueAgentReviewJob, Step
  <2>2. jobs' \in [Candidate -> 0..Attempts]
    BY <1>3, PipelineAssumption DEF enqueueAgentReviewJob
  <2>3. QED BY <1>3, <2>1, <2>2 DEF enqueueAgentReviewJob
<1>4. ASSUME NEW c \in Candidate, StartJob(c)
      PROVE  PipelineTypeOK'
  <2>1. pc' \in [Task -> Step]
    BY <1>4, Tasks, GotoType DEF StartJob, Step
  <2>2. jobs[c] - 1 \in 0..Attempts
    BY <1>4, PipelineAssumption DEF StartJob
  <2>3. QED BY <1>4, <2>1, <2>2 DEF StartJob
<1>5. ASSUME NEW c \in Candidate, NEW v \in Verdict, persistOrchestrationResult(c, v)
      PROVE  PipelineTypeOK'
  <2>1. pc' \in [Task -> Step]
    BY <1>5, Tasks, GotoType DEF persistOrchestrationResult, Step
  <2>2. jobs' \in [Candidate -> 0..Attempts]
    BY <1>5, PipelineAssumption DEF EndAttempt, persistOrchestrationResult
  <2>3. QED BY <1>5, <2>1, <2>2, RecordType DEF persistOrchestrationResult, Agent
<1>6. ASSUME NEW c \in Candidate, NEW r \in Reviewer, NEW a \in Agent,
             NEW v \in {"approve", "reject"}, resolveReviewDecision(r, c, a, v)
      PROVE  PipelineTypeOK'
  <2>1. pc' \in [Task -> Step]
    BY <1>6, Tasks, GotoType DEF resolveReviewDecision, Step
  <2>2. v \in Verdict
    BY DEF Verdict
  <2>3. QED BY <1>6, <2>1, <2>2, RecordType DEF resolveReviewDecision
<1>7. ASSUME NEW t \in Task, SelectApproved(t)
      PROVE  PipelineTypeOK'
  BY <1>7, GotoType, VotesForType DEF SelectApproved, Step
<1>8. ASSUME NEW t \in Task, UpsertScore(t)
      PROVE  PipelineTypeOK'
  BY <1>8, GotoType DEF UpsertScore, upsertEpochScore, Step
<1>9. ASSUME NEW t \in Task, QueueCommitment(t)
      PROVE  PipelineTypeOK'
  <2>1. t[2] \in Candidate /\ SlotOf[t[2]] \in Slot
    BY StoreAssumption DEF Task
  <2>2. commitments' \in [Slot -> Commitment]
    BY <1>9, <2>1, UpsertType DEF QueueCommitment
  <2>3. pc' \in [Task -> Step]
    BY <1>9, GotoType DEF QueueCommitment, Step
  <2>4. jobs' \in [Candidate -> 0..Attempts]
    <3>1. 0 \in 0..Attempts
      BY PipelineAssumption
    <3>2. [jobs EXCEPT ![t[2]] = 0] \in [Candidate -> 0..Attempts]
      BY <3>1
    <3>3. QED BY <1>9, <3>2 DEF EndAttempt, QueueCommitment
  <2>5. QED BY <1>9, <2>2, <2>3, <2>4 DEF QueueCommitment
<1>10. ASSUME NEW t \in Task, Abort(t)
       PROVE  PipelineTypeOK'
  BY <1>10, GotoType DEF Abort, Step
<1>11. ASSUME RestartApi
       PROVE  PipelineTypeOK'
  BY <1>11 DEF RestartApi, Step
<1>12. QED
  BY <1>1, <1>2, <1>3, <1>4, <1>5, <1>6, <1>7, <1>8, <1>9, <1>10, <1>11
     DEF PipelineNext, CandidateStep, TaskStep

-----------------------------------------------------------------------------
(* A failed submission marks a row and forgets the batch. *)
LEMMA GiveUpType ==
    ASSUME StoreTypeOK, RelayerTypeOK, NEW w \in Submitter, NEW s \in Slot,
           GiveUp(w, s), txs' \in [Tx -> TxState \cup {Unsent}],
           \A t \in Tx : txs[t] # Unsent => txs'[t] # Unsent
    PROVE  StoreTypeOK' /\ RelayerTypeOK'
<1>1. commitments' \in [Slot -> Commitment]
  <2>1. [commitments[s] EXCEPT !.status = "failed"] \in Commitment
    BY DEF StoreTypeOK, Commitment
  <2>2. commitments' = [commitments EXCEPT ![s] = [commitments[s] EXCEPT !.status = "failed"]]
    BY DEF GiveUp, setStatus
  <2>3. QED BY <2>1, <2>2 DEF StoreTypeOK
<1>2. batch' \in [Submitter -> [Slot -> Votes \cup {NoScore}]]
  BY DEF GiveUp, RelayerTypeOK, EmptyBatch
<1>3. /\ sent' \in [Submitter -> Tx \cup {NoTx}]
      /\ \A v \in Submitter : sent'[v] # NoTx => sent'[v] = sent[v]
  BY DEF GiveUp, RelayerTypeOK
<1>4. \A v \in Submitter : sent'[v] # NoTx => txs'[sent'[v]] # Unsent
  BY <1>3 DEF RelayerTypeOK
<1>5. QED BY <1>1, <1>2, <1>3, <1>4 DEF GiveUp, StoreTypeOK, RelayerTypeOK

(* What a submitter sends is a score it holds. *)
LEMMA BroadcastType ==
    ASSUME RelayerTypeOK, NEW w \in Submitter, NEW s \in Slot, NEW t \in Tx,
           NextToSend(w, s), Broadcast(t, s, batch[w][s])
    PROVE  /\ batch[w][s] \in Votes
           /\ txs' \in [Tx -> TxState \cup {Unsent}]
           /\ \A u \in Tx : txs[u] # Unsent => txs'[u] = txs[u]
           /\ txs'[t] # Unsent
<1>1. batch[w][s] \in Votes
  BY DEF NextToSend, Oldest, RelayerTypeOK
<1>2. [status |-> "mempool", slot |-> s, score |-> batch[w][s]] \in TxState
  BY <1>1 DEF TxState
<1>3. [status |-> "mempool", slot |-> s, score |-> batch[w][s]] # Unsent
  BY DEF Unsent
<1>4. QED BY <1>1, <1>2, <1>3 DEF Broadcast, RelayerTypeOK

(* The type invariant of tables and relayer is preserved by its steps. *)
LEMMA RelayerTypeStep ==
    ASSUME StoreTypeOK, RelayerTypeOK, RelayerNext
    PROVE  StoreTypeOK' /\ RelayerTypeOK'
<1> DEFINE Goal == StoreTypeOK' /\ RelayerTypeOK'
<1>1. ASSUME NEW s \in Slot, EndEpoch(s)
      PROVE  Goal
  BY <1>1 DEF EndEpoch, dbvars, StoreTypeOK, RelayerTypeOK
<1>2. ASSUME NEW w \in Submitter, SubmitScan(w)
      PROVE  Goal
  <2>1. [s \in Slot |-> IF s \in Oldest(Submittable, SubmitLimit)
                          THEN scores[s] ELSE NoScore] \in [Slot -> Votes \cup {NoScore}]
    BY DEF StoreTypeOK
  <2>2. QED BY <1>2, <2>1 DEF SubmitScan, dbvars, StoreTypeOK, RelayerTypeOK
<1>3. ASSUME NEW w \in Submitter, NEW s \in Slot, NEW t \in Tx, commitEpoch(w, s, t)
      PROVE  Goal
  <2>1. /\ txs' \in [Tx -> TxState \cup {Unsent}]
        /\ \A u \in Tx : txs[u] # Unsent => txs'[u] = txs[u]
        /\ txs'[t] # Unsent
    BY <1>3, BroadcastType DEF commitEpoch
  <2>2. QED BY <1>3, <2>1 DEF commitEpoch, dbvars, StoreTypeOK, RelayerTypeOK
<1>4. ASSUME NEW w \in Submitter, StoreTxHash(w)
      PROVE  Goal
  <2> DEFINE s == txs[sent[w]].slot
  <2>1. sent[w] \in Tx /\ s \in Slot
    BY <1>4 DEF StoreTxHash, RelayerTypeOK, TxState
  <2> HIDE DEF s
  <2>2. [commitments[s] EXCEPT !.txHash = sent[w], !.status = "pending"] \in Commitment
    BY <2>1 DEF StoreTypeOK, Commitment
  <2>3. commitments' = [commitments EXCEPT
            ![s] = [commitments[s] EXCEPT !.txHash = sent[w], !.status = "pending"]]
    BY <1>4, <2>1 DEF StoreTxHash, s, StoreTypeOK, Commitment
  <2>4. commitments' \in [Slot -> Commitment]
    BY <2>2, <2>3 DEF StoreTypeOK
  <2>5. batch' \in [Submitter -> [Slot -> Votes \cup {NoScore}]]
    BY <1>4, <2>1 DEF StoreTxHash, s, RelayerTypeOK
  <2>6. QED BY <1>4, <2>4, <2>5 DEF StoreTxHash, StoreTypeOK, RelayerTypeOK
<1>5. ASSUME NEW w \in Submitter, NEW s \in Slot, SendFails(w, s)
      PROVE  Goal
  <2>1. CASE UNCHANGED txs
    BY <1>5, <2>1, GiveUpType DEF SendFails, RelayerTypeOK
  <2>2. CASE \E t \in Tx : Broadcast(t, s, batch[w][s])
    BY <1>5, <2>2, GiveUpType, BroadcastType DEF SendFails
  <2>3. QED BY <1>5, <2>1, <2>2 DEF SendFails
<1>6. ASSUME NEW w \in Submitter, StoreFails(w)
      PROVE  Goal
  <2>1. txs[sent[w]].slot \in Slot
    BY <1>6 DEF StoreFails, RelayerTypeOK, TxState
  <2>2. QED BY <1>6, <2>1, GiveUpType DEF StoreFails, RelayerTypeOK
<1>6a. ASSUME NEW w \in Submitter, AuditFails(w)
       PROVE  Goal
  <2> DEFINE s == txs[sent[w]].slot
  <2>1. sent[w] \in Tx /\ s \in Slot
    BY <1>6a DEF AuditFails, RelayerTypeOK, TxState
  <2> HIDE DEF s
  <2>2. [commitments[s] EXCEPT !.txHash = sent[w], !.status = "failed"] \in Commitment
    BY <2>1 DEF StoreTypeOK, Commitment
  <2>3. commitments' = [commitments EXCEPT
            ![s] = [commitments[s] EXCEPT !.txHash = sent[w], !.status = "failed"]]
    BY <1>6a, <2>1 DEF AuditFails, s, StoreTypeOK, Commitment
  <2>4. commitments' \in [Slot -> Commitment]
    BY <2>2, <2>3 DEF StoreTypeOK
  <2>5. batch' \in [Submitter -> [Slot -> Votes \cup {NoScore}]]
    BY <1>6a DEF AuditFails, EmptyBatch, RelayerTypeOK
  <2>6. QED BY <1>6a, <2>4, <2>5 DEF AuditFails, StoreTypeOK, RelayerTypeOK
<1>7. ASSUME NEW w \in Submitter, SubmitterCrash(w)
      PROVE  Goal
  BY <1>7 DEF SubmitterCrash, dbvars, StoreTypeOK, RelayerTypeOK, EmptyBatch
<1>8. ASSUME NEW i \in Indexer, IndexScan(i)
      PROVE  Goal
  <2>1. \A s \in Slot : commitments[s].txHash \in Tx \cup {NoTx}
    BY DEF StoreTypeOK, Commitment
  <2>2. QED BY <1>8, <2>1 DEF IndexScan, dbvars, StoreTypeOK, RelayerTypeOK
<1>9. ASSUME NEW i \in Indexer, NEW s \in Slot, IndexRow(i, s)
      PROVE  Goal
  <2>1. \A st \in {"confirmed", "failed"} :
            [commitments[s] EXCEPT !.status = st] \in Commitment
    BY DEF StoreTypeOK, Commitment
  <2>2. \/ UNCHANGED commitments
        \/ \E st \in {"confirmed", "failed"} :
             commitments' = [commitments EXCEPT ![s] = [commitments[s] EXCEPT !.status = st]]
    BY <1>9 DEF IndexRow, confirmationUpdateFromReceipt, setStatus
  <2>3. commitments' \in [Slot -> Commitment]
    BY <2>1, <2>2 DEF StoreTypeOK
  <2>4. checks' \in [Indexer -> [Slot -> Tx \cup {NoTx}]]
    BY <1>9 DEF IndexRow, RelayerTypeOK
  <2>5. QED BY <1>9, <2>3, <2>4 DEF IndexRow, StoreTypeOK, RelayerTypeOK
<1>10. ASSUME NEW i \in Indexer, IndexerCrash(i)
       PROVE  Goal
  BY <1>10 DEF IndexerCrash, dbvars, StoreTypeOK, RelayerTypeOK, NoChecks
<1>11. ASSUME NEW t \in Tx, Mine(t)
       PROVE  Goal
  <2>1. txs[t] \in TxState
    BY <1>11 DEF Mine, RelayerTypeOK, Unsent
  <2>2. \A st \in {"success", "reverted"} :
            [txs[t] EXCEPT !.status = st] \in TxState /\ [txs[t] EXCEPT !.status = st] # Unsent
    BY <2>1 DEF TxState, Unsent
  <2>3. \E st \in {"success", "reverted"} : txs' = [txs EXCEPT ![t] = [txs[t] EXCEPT !.status = st]]
    BY <1>11 DEF Mine
  <2>4. /\ txs' \in [Tx -> TxState \cup {Unsent}]
        /\ \A u \in Tx : txs[u] # Unsent => txs'[u] # Unsent
    BY <2>2, <2>3 DEF RelayerTypeOK
  <2>5. ledger' \in [Slot -> Votes \cup {NoScore}]
    BY <1>11, <2>1 DEF Mine, RelayerTypeOK, TxState, Chain!Commit
  <2>6. QED BY <1>11, <2>4, <2>5 DEF Mine, dbvars, StoreTypeOK, RelayerTypeOK
<1>12. ASSUME NEW t \in Tx, Drop(t)
       PROVE  Goal
  <2>1. txs[t] \in TxState
    BY <1>12 DEF Drop, RelayerTypeOK, Unsent
  <2>2. /\ [txs[t] EXCEPT !.status = "dropped"] \in TxState
        /\ [txs[t] EXCEPT !.status = "dropped"] # Unsent
    BY <2>1 DEF TxState, Unsent
  <2>3. /\ txs' \in [Tx -> TxState \cup {Unsent}]
        /\ \A u \in Tx : txs[u] # Unsent => txs'[u] # Unsent
    BY <1>12, <2>2 DEF Drop, RelayerTypeOK
  <2>4. QED BY <1>12, <2>3 DEF Drop, dbvars, StoreTypeOK, RelayerTypeOK
<1>13. QED
  BY <1>1, <1>2, <1>3, <1>4, <1>5, <1>6, <1>6a, <1>7, <1>8, <1>9, <1>10, <1>11, <1>12
     DEF RelayerNext, SubmitterStep, IndexerStep

-----------------------------------------------------------------------------
(* The inductive invariant.  A vote on the ledger has come a long way: it  *)
(* was an approving decision row (or the worker's own candidate) when a    *)
(* task read it, then a score, a row of a submitter's batch, a transaction.*)
(* All of these count vetted candidates only, and only candidates of       *)
(* sufficient confidence are ever in the hands of the AI worker.           *)
DecisionsVetted ==
    \A c \in Candidate, a \in Agent : decisions[c][a] = "approve" => Vetted(c)

HandoffVetted ==
    \A c \in Candidate : pc[<<"worker", c>>] = "recompute" => Vetted(c)

OnlyAmbiguousAsked ==
    \A c \in Candidate :
        \/ jobs[c] > 0
        \/ pc[<<"worker", c>>] # "idle"
        \/ pc[<<"api", c>>] = "enqueue"
        => Confidence[c] >= 50

Clean(v) == v # NoScore => CountsOnlyVetted(v)

TablesClean ==
    /\ \A t \in Task : Clean(readVotes[t])
    /\ \A s \in Slot : Clean(scores[s])

ChainClean ==
    /\ \A w \in Submitter, s \in Slot : Clean(batch[w][s])
    /\ \A t \in Tx : txs[t] # Unsent => CountsOnlyVetted(txs[t].score)
    /\ \A s \in Slot : Clean(ledger[s])

VettedInv ==
    /\ DecisionsVetted
    /\ HandoffVetted
    /\ OnlyAmbiguousAsked
    /\ TablesClean
    /\ ChainClean

IInv == TypeOK /\ VettedInv

(* Approvals are never forgotten, so nothing vetted ceases to be. *)
LEMMA VettedGrows ==
    ASSUME \A c \in Candidate : approvers[c] \subseteq approvers'[c]
    PROVE  /\ \A c \in Candidate : Vetted(c) => Vetted(c)'
           /\ \A v : (\A c \in Candidate : v[c] > 0 => Vetted(c))
                    => (\A c \in Candidate : v[c] > 0 => Vetted(c)')
BY DEF Vetted

LEMMA ChainCleanStays ==
    ASSUME ChainClean, UNCHANGED relayervars,
           \A c \in Candidate : approvers[c] \subseteq approvers'[c]
    PROVE  ChainClean'
BY VettedGrows DEF ChainClean, Clean, CountsOnlyVetted, relayervars

LEMMA TablesCleanStay ==
    ASSUME TablesClean, UNCHANGED <<scores, readVotes>>,
           \A c \in Candidate : approvers[c] \subseteq approvers'[c]
    PROVE  TablesClean'
BY VettedGrows DEF TablesClean, Clean, CountsOnlyVetted

(* An approval by somebody entitled to it vets the candidate.              *)
LEMMA RecordVets ==
    ASSUME PipelineTypeOK, DecisionsVetted,
           NEW c \in Candidate, NEW a \in Agent, NEW v \in Verdict, NEW who,
           Record(c, a, v, who),
           v = "approve" => \/ who = "human"
                            \/ who = "ai" /\ Confidence[c] >= 50
                            \/ who = "gate" /\ Confidence[c] >= 85
    PROVE  /\ \A d \in Candidate : approvers[d] \subseteq approvers'[d]
           /\ v = "approve" => Vetted(c)'
           /\ DecisionsVetted'
<1>1. \A d \in Candidate : approvers[d] \subseteq approvers'[d]
  BY DEF Record, PipelineTypeOK
<1>2. v = "approve" => who \in approvers'[c]
  BY DEF Record, PipelineTypeOK
<1>3. v = "approve" => Vetted(c)'
  BY <1>2 DEF Vetted
<1>4. ASSUME NEW d \in Candidate, NEW b \in Agent, decisions'[d][b] = "approve"
      PROVE  Vetted(d)'
  <2>1. decisions' = [decisions EXCEPT ![c] = [decisions[c] EXCEPT ![a] = v]]
    BY DEF Record, upsertDecision
  <2>2. CASE d = c
    <3>1. decisions'[d] = [decisions[c] EXCEPT ![a] = v]
      BY <2>1, <2>2 DEF PipelineTypeOK, StoreTypeOK
    <3>2. decisions'[d][b] = IF b = a THEN v ELSE decisions[c][b]
      BY <3>1 DEF PipelineTypeOK, StoreTypeOK
    <3>3. v = "approve" \/ decisions[c][b] = "approve"
      BY <3>2, <1>4
    <3>4. QED BY <1>1, <1>3, <2>2, <3>3, VettedGrows DEF DecisionsVetted
  <2>3. CASE d # c
    <3>1. decisions'[d] = decisions[d]
      BY <2>1, <2>3 DEF PipelineTypeOK, StoreTypeOK
    <3>2. QED BY <1>1, <1>4, <3>1, VettedGrows DEF DecisionsVetted
  <2>4. QED BY <2>2, <2>3
<1>5. DecisionsVetted'
  BY <1>4 DEF DecisionsVetted
<1>6. QED BY <1>1, <1>3, <1>5

(* A task reads vetted votes: approving rows, or a worker's own candidate. *)
LEMMA VotesForVetted ==
    ASSUME DecisionsVetted, HandoffVetted, NEW t \in Task, pc[t] = "recompute"
    PROVE  CountsOnlyVetted(votesFor(t))
<1> DEFINE s == SlotOf[t[2]]
<1>1. ASSUME NEW c \in Candidate, approvedVotes(s)[c] > 0
      PROVE  Vetted(c)
  <2>1. Cardinality({a \in Agent : decisions[c][a] = "approve"}) # 0
    BY <1>1 DEF approvedVotes
  <2>2. {a \in Agent : decisions[c][a] = "approve"} # {}
    BY <2>1, FS_EmptySet
  <2>3. QED BY <2>2 DEF DecisionsVetted
<1>2. CASE t[1] = "worker" /\ approvedVotes(s) = NoVotes
  <2>1. t = <<"worker", t[2]>> /\ t[2] \in Candidate
    BY <1>2 DEF Task
  <2>2. Vetted(t[2])
    BY <2>1 DEF HandoffVetted
  <2>3. \A c \in Candidate : [NoVotes EXCEPT ![t[2]] = 1][c] > 0 => c = t[2]
    BY <2>1 DEF NoVotes
  <2>4. votesFor(t) = [NoVotes EXCEPT ![t[2]] = 1]
    BY <1>2 DEF votesFor
  <2>5. QED BY <2>2, <2>3, <2>4 DEF CountsOnlyVetted
<1>3. CASE ~(t[1] = "worker" /\ approvedVotes(s) = NoVotes)
  <2>1. votesFor(t) = approvedVotes(s)
    BY <1>3 DEF votesFor
  <2>2. QED BY <1>1, <2>1 DEF CountsOnlyVetted
<1>4. QED BY <1>2, <1>3

-----------------------------------------------------------------------------
(* The steps of the pipeline preserve the invariant. *)
LEMMA PipelineStepVetted ==
    ASSUME IInv, PipelineNext, UNCHANGED relayervars
    PROVE  VettedInv'
<1> USE DEF TypeOK, PipelineTypeOK, IInv, VettedInv
<1>1. ASSUME UNCHANGED <<decisions, approvers>>
      PROVE  /\ DecisionsVetted' /\ ChainClean'
             /\ \A c \in Candidate : approvers[c] \subseteq approvers'[c]
             /\ \A c \in Candidate : Vetted(c) => Vetted(c)'
  <2>1. \A c \in Candidate : approvers[c] \subseteq approvers'[c]
    BY <1>1
  <2>2. QED BY <1>1, <2>1, ChainCleanStays, VettedGrows DEF DecisionsVetted
<1>2. ASSUME NEW c \in Candidate, Detect(c)
      PROVE  VettedInv'
  <2>1. \A d \in Candidate : /\ pc'[<<"worker", d>>] = pc[<<"worker", d>>]
                             /\ pc'[<<"api", d>>] = "enqueue" => pc[<<"api", d>>] = "enqueue"
    BY <1>2, Tasks, TasksDiffer, GotoFrame DEF Detect
  <2>2. HandoffVetted' /\ OnlyAmbiguousAsked'
    <3>1. UNCHANGED <<decisions, approvers, jobs>>
      BY <1>2 DEF Detect, dbvars
    <3>2. HandoffVetted'
      BY <1>1, <2>1, <3>1 DEF HandoffVetted
    <3>3. OnlyAmbiguousAsked'
      BY <2>1, <3>1 DEF OnlyAmbiguousAsked
    <3>4. QED BY <3>2, <3>3
  <2>3. TablesClean'
    BY <1>1, <1>2, TablesCleanStay DEF Detect, dbvars
  <2>4. DecisionsVetted' /\ ChainClean'
    BY <1>1, <1>2 DEF Detect, dbvars
  <2>5. QED BY <2>2, <2>3, <2>4
<1>3. ASSUME NEW c \in Candidate, Decide(c)
      PROVE  VettedInv'
  <2> DEFINE v == decisionForConfidence(Confidence[c])
  <2>1. /\ v \in Verdict
        /\ v = "approve" => Confidence[c] >= 85
        /\ v = "escalate" => Confidence[c] >= 50
    BY StoreAssumption DEF decisionForConfidence, Verdict
  <2>2. Record(c, "gate", v, "gate")
    BY <1>3 DEF Decide
  <2>3. "gate" \in Agent
    BY DEF Agent
  <2> HIDE DEF v
  <2>4. /\ \A d \in Candidate : approvers[d] \subseteq approvers'[d]
        /\ DecisionsVetted'
    BY <2>1, <2>2, <2>3, RecordVets
  <2>5. \A d \in Candidate :
          /\ pc'[<<"worker", d>>] = pc[<<"worker", d>>]
          /\ pc'[<<"api", d>>] = "enqueue" =>
                pc[<<"api", d>>] = "enqueue" \/ (d = c /\ v = "escalate")
    <3>1. ASSUME NEW d \in Candidate, d # c
          PROVE  /\ pc'[<<"worker", d>>] = pc[<<"worker", d>>]
                 /\ pc'[<<"api", d>>] = pc[<<"api", d>>]
      BY <1>3, <3>1, Tasks, TasksDiffer, GotoFrame DEF Decide
    <3>2. pc'[<<"worker", c>>] = pc[<<"worker", c>>]
      BY <1>3, Tasks, TasksDiffer, GotoFrame DEF Decide
    <3>3. pc'[<<"api", c>>] = "enqueue" => v = "escalate"
      <4>1. Goto(<<"api", c>>, IF v = "escalate" THEN "enqueue"
                               ELSE IF v = "approve" /\ c \notin Preview THEN "recompute"
                               ELSE "idle")
        BY <1>3 DEF Decide, v
      <4>2. pc'[<<"api", c>>] = IF v = "escalate" THEN "enqueue"
                                ELSE IF v = "approve" /\ c \notin Preview THEN "recompute"
                                ELSE "idle"
        BY <4>1, Tasks, GotoFrame
      <4>3. QED BY <4>2
    <3>4. QED BY <3>1, <3>2, <3>3
  <2>6. HandoffVetted' /\ OnlyAmbiguousAsked'
    BY <1>3, <2>1, <2>4, <2>5, VettedGrows DEF Decide, HandoffVetted, OnlyAmbiguousAsked
  <2>7. TablesClean' /\ ChainClean'
    BY <1>3, <2>4, TablesCleanStay, ChainCleanStays DEF Decide
  <2>8. QED BY <2>4, <2>6, <2>7
<1>4. ASSUME NEW c \in Candidate, enqueueAgentReviewJob(c)
      PROVE  VettedInv'
  <2>1. \A d \in Candidate :
          /\ pc'[<<"worker", d>>] = pc[<<"worker", d>>]
          /\ pc'[<<"api", d>>] = "enqueue" => pc[<<"api", d>>] = "enqueue"
    BY <1>4, Tasks, TasksDiffer, GotoFrame DEF enqueueAgentReviewJob
  <2>2. pc[<<"api", c>>] = "enqueue"
    BY <1>4 DEF enqueueAgentReviewJob
  <2>3. \A d \in Candidate : d # c => jobs'[d] = jobs[d]
    BY <1>4 DEF enqueueAgentReviewJob
  <2>4. UNCHANGED <<dbvars, readVotes, approvers>>
    BY <1>4 DEF enqueueAgentReviewJob
  <2>5. DecisionsVetted' /\ ChainClean' /\ TablesClean'
    BY <1>1, <2>4, TablesCleanStay DEF dbvars
  <2>6. HandoffVetted'
    BY <1>1, <2>1, <2>4 DEF dbvars, HandoffVetted
  <2>7. OnlyAmbiguousAsked'
    BY <2>1, <2>2, <2>3 DEF OnlyAmbiguousAsked
  <2>8. QED BY <2>5, <2>6, <2>7
<1>5. ASSUME NEW c \in Candidate, StartJob(c)
      PROVE  VettedInv'
  <2>1. \A d \in Candidate :
          /\ d # c => pc'[<<"worker", d>>] = pc[<<"worker", d>>]
          /\ pc'[<<"api", d>>] = pc[<<"api", d>>]
    BY <1>5, Tasks, TasksDiffer, GotoFrame DEF StartJob
  <2>2. pc'[<<"worker", c>>] = "decide"
    BY <1>5, Tasks, GotoFrame DEF StartJob
  <2>3. jobs[c] > 0 /\ \A d \in Candidate : d # c => jobs'[d] = jobs[d]
    BY <1>5 DEF StartJob
  <2>4. UNCHANGED <<dbvars, readVotes, approvers>>
    BY <1>5 DEF StartJob
  <2>5. DecisionsVetted' /\ ChainClean' /\ TablesClean'
    BY <1>1, <2>4, TablesCleanStay DEF dbvars
  <2>6. HandoffVetted'
    BY <1>1, <2>1, <2>2, <2>4 DEF dbvars, HandoffVetted
  <2>7. OnlyAmbiguousAsked'
    BY <2>1, <2>3 DEF OnlyAmbiguousAsked
  <2>8. QED BY <2>5, <2>6, <2>7
<1>6. ASSUME NEW c \in Candidate, NEW v \in Verdict, persistOrchestrationResult(c, v)
      PROVE  VettedInv'
  <2>1. Confidence[c] >= 50
    BY <1>6 DEF persistOrchestrationResult, OnlyAmbiguousAsked
  <2>2. /\ \A d \in Candidate : approvers[d] \subseteq approvers'[d]
        /\ v = "approve" => Vetted(c)'
        /\ DecisionsVetted'
    BY <1>6, <2>1, RecordVets DEF persistOrchestrationResult, Agent
  <2>3. \A d \in Candidate :
          /\ pc'[<<"api", d>>] = pc[<<"api", d>>]
          /\ d # c => pc'[<<"worker", d>>] = pc[<<"worker", d>>]
    BY <1>6, Tasks, TasksDiffer, GotoFrame DEF persistOrchestrationResult
  <2>4. pc'[<<"worker", c>>] = "recompute" => v = "approve"
    <3>1. Goto(<<"worker", c>>, IF v = "approve" /\ c \notin Preview
                                  THEN "recompute" ELSE "idle")
      BY <1>6 DEF persistOrchestrationResult
    <3>2. pc'[<<"worker", c>>] = IF v = "approve" /\ c \notin Preview
                                   THEN "recompute" ELSE "idle"
      BY <3>1, Tasks, GotoFrame
    <3>3. QED BY <3>2
  <2>5. \A d \in Candidate : d # c => jobs'[d] = jobs[d]
    BY <1>6 DEF EndAttempt, persistOrchestrationResult
  <2>6. HandoffVetted'
    BY <2>2, <2>3, <2>4, VettedGrows DEF HandoffVetted
  <2>7. OnlyAmbiguousAsked'
    BY <2>1, <2>3, <2>5 DEF OnlyAmbiguousAsked
  <2>8. TablesClean' /\ ChainClean'
    BY <1>6, <2>2, TablesCleanStay, ChainCleanStays DEF persistOrchestrationResult
  <2>9. QED BY <2>2, <2>6, <2>7, <2>8
<1>7. ASSUME NEW c \in Candidate, NEW r \in Reviewer, NEW a \in Agent,
             NEW v \in {"approve", "reject"}, resolveReviewDecision(r, c, a, v)
      PROVE  VettedInv'
  <2>1. v \in Verdict
    BY DEF Verdict
  <2>2. /\ \A d \in Candidate : approvers[d] \subseteq approvers'[d]
        /\ DecisionsVetted'
    BY <1>7, <2>1, RecordVets DEF resolveReviewDecision
  <2>3. \A d \in Candidate : /\ pc'[<<"api", d>>] = pc[<<"api", d>>]
                             /\ pc'[<<"worker", d>>] = pc[<<"worker", d>>]
    BY <1>7, Tasks, TasksDiffer, GotoFrame DEF resolveReviewDecision
  <2>4. HandoffVetted' /\ OnlyAmbiguousAsked'
    BY <1>7, <2>2, <2>3, VettedGrows DEF resolveReviewDecision, HandoffVetted, OnlyAmbiguousAsked
  <2>5. TablesClean' /\ ChainClean'
    BY <1>7, <2>2, TablesCleanStay, ChainCleanStays DEF resolveReviewDecision
  <2>6. QED BY <2>2, <2>4, <2>5
<1>8. ASSUME NEW t \in Task, SelectApproved(t)
      PROVE  VettedInv'
  <2>1. \A u \in Task :
          pc'[u] = pc[u] \/ (pc[u] # "idle" /\ pc[u] # "enqueue" /\ pc'[u] = "score")
    <3>1. pc'[t] = "score" /\ pc[t] # "idle" /\ pc[t] # "enqueue"
      BY <1>8, GotoFrame DEF SelectApproved
    <3>2. \A u \in Task : u # t => pc'[u] = pc[u]
      BY <1>8, GotoFrame DEF SelectApproved
    <3>3. QED BY <3>1, <3>2
  <2>2. HandoffVetted' /\ OnlyAmbiguousAsked'
    BY <1>1, <1>8, <2>1, Tasks DEF SelectApproved, dbvars, HandoffVetted, OnlyAmbiguousAsked
  <2>3. CountsOnlyVetted(votesFor(t))
    BY <1>8, VotesForVetted DEF SelectApproved
  <2>4. TablesClean'
    BY <1>8, <2>3 DEF SelectApproved, dbvars, TablesClean, Clean, CountsOnlyVetted, Vetted
  <2>5. QED BY <1>1, <1>8, <2>2, <2>4 DEF SelectApproved, dbvars
<1>9. ASSUME NEW t \in Task, UpsertScore(t)
      PROVE  VettedInv'
  <2>1. \A u \in Task :
          pc'[u] = pc[u] \/ (pc[u] # "idle" /\ pc[u] # "enqueue" /\ pc'[u] = "commit")
    <3>1. pc'[t] = "commit" /\ pc[t] # "idle" /\ pc[t] # "enqueue"
      BY <1>9, GotoFrame DEF UpsertScore
    <3>2. \A u \in Task : u # t => pc'[u] = pc[u]
      BY <1>9, GotoFrame DEF UpsertScore
    <3>3. QED BY <3>1, <3>2
  <2>2. HandoffVetted' /\ OnlyAmbiguousAsked'
    BY <1>1, <1>9, <2>1, Tasks DEF UpsertScore, HandoffVetted, OnlyAmbiguousAsked
  <2>3. \A s \in Slot : scores'[s] = scores[s] \/ scores'[s] = readVotes[t]
    BY <1>9 DEF UpsertScore, upsertEpochScore, StoreTypeOK
  <2>4. \A u \in Task : readVotes'[u] = readVotes[u] \/ readVotes'[u] = NoScore
    BY <1>9 DEF UpsertScore
  <2>5. TablesClean'
    BY <1>9, <2>3, <2>4 DEF UpsertScore, TablesClean, Clean, CountsOnlyVetted, Vetted
  <2>6. QED BY <1>1, <1>9, <2>2, <2>5 DEF UpsertScore
<1>10. ASSUME NEW t \in Task, QueueCommitment(t)
       PROVE  VettedInv'
  <2>1. \A u \in Task : pc'[u] = pc[u] \/ pc'[u] = "idle"
    BY <1>10, GotoFrame DEF QueueCommitment
  <2>2. \A d \in Candidate : jobs'[d] > 0 => jobs[d] > 0
    BY <1>10 DEF EndAttempt, QueueCommitment
  <2>3. HandoffVetted' /\ OnlyAmbiguousAsked'
    BY <1>1, <1>10, <2>1, <2>2, Tasks DEF QueueCommitment, HandoffVetted, OnlyAmbiguousAsked
  <2>4. QED BY <1>1, <1>10, <2>3, TablesCleanStay DEF QueueCommitment
<1>11. ASSUME \A u \in Task : pc'[u] = pc[u] \/ pc'[u] = "idle",
              \A u \in Task : readVotes'[u] = readVotes[u] \/ readVotes'[u] = NoScore,
              UNCHANGED <<dbvars, jobs, approvers>>
       PROVE  VettedInv'
  <2>1. HandoffVetted' /\ OnlyAmbiguousAsked'
    BY <1>1, <1>11, Tasks DEF dbvars, HandoffVetted, OnlyAmbiguousAsked
  <2>2. TablesClean'
    BY <1>11 DEF dbvars, TablesClean, Clean, CountsOnlyVetted, Vetted
  <2>3. QED BY <1>1, <1>11, <2>1, <2>2 DEF dbvars
<1>12. ASSUME NEW t \in Task, Abort(t)
       PROVE  VettedInv'
  BY <1>11, <1>12 DEF Abort, Goto
<1>13. ASSUME RestartApi
       PROVE  VettedInv'
  BY <1>11, <1>13 DEF RestartApi
<1>14. QED
  BY <1>2, <1>3, <1>4, <1>5, <1>6, <1>7, <1>8, <1>9, <1>10, <1>12, <1>13
     DEF PipelineNext, CandidateStep, TaskStep

(* So do the steps of the relayer, which decide nothing. *)
LEMMA RelayerStepVetted ==
    ASSUME IInv, RelayerNext, UNCHANGED taskvars
    PROVE  VettedInv'
<1> USE DEF IInv, VettedInv, TypeOK, RelayerTypeOK
<1>1. UNCHANGED <<decisions, scores>>
  BY DEF RelayerNext, EndEpoch, SubmitterStep, IndexerStep, SubmitScan, SendFails,
         commitEpoch, StoreTxHash, StoreFails, AuditFails, SubmitterCrash, IndexScan, IndexRow,
         IndexerCrash, Mine, Drop, GiveUp, dbvars
<1>2. /\ DecisionsVetted' /\ HandoffVetted' /\ OnlyAmbiguousAsked'
      /\ TablesClean'
      /\ \A v : CountsOnlyVetted(v) => CountsOnlyVetted(v)'
  BY <1>1 DEF taskvars, DecisionsVetted, HandoffVetted, OnlyAmbiguousAsked,
              TablesClean, Clean, CountsOnlyVetted, Vetted
<1>3. \A w \in Submitter, s \in Slot : Clean(batch'[w][s])
  <2> DEFINE Kept == \A w \in Submitter, s \in Slot :
                        batch'[w][s] \in {batch[w][s], scores[s], NoScore}
  <2>0. UNCHANGED batch => Kept
    OBVIOUS
  <2>1. ASSUME NEW w \in Submitter, SubmitScan(w)
        PROVE  Kept
    BY <2>1 DEF SubmitScan
  <2>2. ASSUME NEW w \in Submitter, NEW s \in Slot, GiveUp(w, s)
        PROVE  Kept
    BY <2>2 DEF GiveUp, EmptyBatch
  <2>3. ASSUME NEW w \in Submitter, StoreTxHash(w)
        PROVE  Kept
    BY <2>3 DEF StoreTxHash
  <2>4. ASSUME NEW w \in Submitter, SubmitterCrash(w)
        PROVE  Kept
    BY <2>4 DEF SubmitterCrash, EmptyBatch
  <2>5. ASSUME NEW w \in Submitter, SubmitterStep(w)
        PROVE  Kept
    <3>1. ASSUME StoreFails(w)
          PROVE  Kept
      BY <2>2, <3>1 DEF StoreFails, RelayerTypeOK, TxState
    <3>5. ASSUME AuditFails(w)
          PROVE  Kept
      BY <3>5 DEF AuditFails, EmptyBatch
    <3>2. ASSUME NEW s \in Slot, SendFails(w, s)
          PROVE  Kept
      BY <2>2, <3>2 DEF SendFails
    <3>3. ASSUME NEW s \in Slot, NEW t \in Tx, commitEpoch(w, s, t)
          PROVE  Kept
      BY <2>0, <3>3 DEF commitEpoch
    <3> HIDE DEF Kept
    <3>4. QED
      BY <2>1, <2>3, <2>4, <2>5, <3>1, <3>2, <3>3, <3>5 DEF SubmitterStep
  <2>6. Kept
    <3>1. CASE UNCHANGED batch
      BY <2>0, <3>1
    <3>2. CASE \E w \in Submitter : SubmitterStep(w)
      BY <2>5, <3>2
    <3>3. QED
      BY <3>1, <3>2 DEF RelayerNext, EndEpoch, IndexerStep, IndexScan, IndexRow,
                        IndexerCrash, Mine, Drop
  <2>7. QED BY <2>6 DEF TablesClean, ChainClean, Clean
<1>4. \A t \in Tx : txs'[t] # Unsent => CountsOnlyVetted(txs'[t].score)
  <2>1. ASSUME NEW w \in Submitter, NEW s \in Slot, NEW t \in Tx,
               NextToSend(w, s), Broadcast(t, s, batch[w][s])
        PROVE  \A u \in Tx : txs'[u] # Unsent => CountsOnlyVetted(txs'[u].score)
    <3>1. batch[w][s] # NoScore
      BY <2>1 DEF NextToSend, Oldest
    <3>2. \A u \in Tx : txs'[u] = txs[u] \/ txs'[u].score = batch[w][s]
      BY <2>1 DEF Broadcast
    <3>3. QED BY <3>1, <3>2 DEF ChainClean, Clean
  <2>2. ASSUME NEW t \in Tx, Mine(t) \/ Drop(t)
        PROVE  \A u \in Tx : txs'[u] # Unsent => CountsOnlyVetted(txs'[u].score)
    <3>1. txs[t] \in TxState
      BY <2>2 DEF Mine, Drop, Unsent
    <3>2. txs[t] # Unsent
      BY <3>1 DEF TxState, Unsent
    <3>3. \A st : [txs[t] EXCEPT !.status = st].score = txs[t].score
      BY <3>1 DEF TxState
    <3>4. \E st : txs' = [txs EXCEPT ![t] = [txs[t] EXCEPT !.status = st]]
      BY <2>2 DEF Mine, Drop
    <3>5. txs'[t].score = txs[t].score /\ \A u \in Tx : u # t => txs'[u] = txs[u]
      BY <3>3, <3>4
    <3>6. ASSUME NEW u \in Tx, txs'[u] # Unsent
          PROVE  CountsOnlyVetted(txs'[u].score)
      BY <3>2, <3>5, <3>6 DEF ChainClean
    <3>7. QED BY <3>6
  <2>3. CASE UNCHANGED txs
    BY <2>3 DEF ChainClean
  <2>4. QED
    BY <2>1, <2>2, <2>3
       DEF RelayerNext, EndEpoch, SubmitterStep, IndexerStep, SubmitScan, SendFails,
           commitEpoch, StoreTxHash, StoreFails, AuditFails, SubmitterCrash, IndexScan, IndexRow,
           IndexerCrash
<1>5. \A s \in Slot : Clean(ledger'[s])
  <2>1. ASSUME NEW t \in Tx, Mine(t)
        PROVE  \A s \in Slot : Clean(ledger'[s])
    <3>1. txs[t] # Unsent
      BY <2>1 DEF Mine, Unsent
    <3>2. \A s \in Slot : ledger'[s] = ledger[s] \/ ledger'[s] = txs[t].score
      BY <2>1 DEF Mine, Chain!Commit
    <3>3. QED BY <3>1, <3>2 DEF ChainClean, Clean
  <2>2. CASE UNCHANGED ledger
    BY <2>2 DEF ChainClean
  <2>3. QED
    BY <2>1, <2>2
       DEF RelayerNext, EndEpoch, SubmitterStep, IndexerStep, SubmitScan, SendFails,
           commitEpoch, StoreTxHash, StoreFails, AuditFails, SubmitterCrash, IndexScan, IndexRow,
           IndexerCrash, Drop, GiveUp
<1>6. ChainClean'
  BY <1>2, <1>3, <1>4, <1>5 DEF ChainClean, Clean
<1>7. QED BY <1>2, <1>6

(* The invariant holds initially and is preserved by every step.           *)
LEMMA InitIInv == Init => IInv
<1> SUFFICES ASSUME Init PROVE IInv
  OBVIOUS
<1> USE DEF Init, PipelineInit, StoreInit, RelayerInit, Chain!LedgerInit
<1>1. StoreTypeOK
  <2>1. NoCommitment \in Commitment
    <3>1. 0 \in 0..Cardinality(Slot)
      BY StoreAssumption, FS_CardinalityType
    <3>2. QED BY <3>1 DEF NoCommitment, Commitment
  <2>2. QED BY <2>1 DEF StoreTypeOK
<1>2. PipelineTypeOK
  <2>1. 0 \in 0..Attempts
    BY PipelineAssumption
  <2>2. QED BY <1>1, <2>1 DEF PipelineTypeOK, Step
<1>3. RelayerTypeOK
  BY DEF RelayerTypeOK, EmptyBatch, NoChecks
<1>4. DecisionsVetted /\ HandoffVetted /\ OnlyAmbiguousAsked
  <2>1. DecisionsVetted
    BY DEF DecisionsVetted
  <2>2. \A c \in Candidate :
          /\ pc[<<"api", c>>] = "idle" /\ pc[<<"worker", c>>] = "idle"
          /\ jobs[c] = 0
    BY Tasks
  <2>3. HandoffVetted
    BY <2>2 DEF HandoffVetted
  <2>4. ~(0 > 0)
    OBVIOUS
  <2>5. OnlyAmbiguousAsked
    BY <2>2, <2>4, Zenon DEF OnlyAmbiguousAsked
  <2>6. QED BY <2>1, <2>3, <2>5
<1>5. TablesClean /\ ChainClean
  BY DEF TablesClean, ChainClean, Clean, EmptyBatch
<1>6. QED BY <1>2, <1>3, <1>4, <1>5 DEF IInv, VettedInv, TypeOK

LEMMA NextIInv ==
    ASSUME IInv, [Next]_vars
    PROVE  IInv'
<1>1. CASE PipelineNext /\ UNCHANGED relayervars
  <2>1. PipelineTypeOK'
    BY <1>1, PipelineTypeStep DEF IInv, TypeOK
  <2>2. RelayerTypeOK'
    BY <1>1 DEF IInv, TypeOK, RelayerTypeOK, relayervars
  <2>3. QED BY <1>1, <2>1, <2>2, PipelineStepVetted DEF IInv, TypeOK
<1>2. CASE RelayerNext /\ UNCHANGED taskvars
  <2>1. StoreTypeOK' /\ RelayerTypeOK'
    BY <1>2, RelayerTypeStep DEF IInv, TypeOK, PipelineTypeOK
  <2>2. PipelineTypeOK'
    BY <1>2, <2>1 DEF IInv, TypeOK, PipelineTypeOK, taskvars
  <2>3. QED BY <1>2, <2>1, <2>2, RelayerStepVetted DEF IInv, TypeOK
<1>3. CASE UNCHANGED vars
  <2>1. TypeOK'
    BY <1>3 DEF IInv, TypeOK, PipelineTypeOK, StoreTypeOK, RelayerTypeOK,
                vars, dbvars, taskvars, relayervars
  <2>2. VettedInv'
    BY <1>3 DEF IInv, VettedInv, DecisionsVetted, HandoffVetted, OnlyAmbiguousAsked,
                TablesClean, ChainClean, Clean, CountsOnlyVetted, Vetted,
                vars, dbvars, taskvars, relayervars
  <2>3. QED BY <2>1, <2>2 DEF IInv
<1>4. QED BY <1>1, <1>2, <1>3 DEF Next

(* For any number of candidates, epochs, reviewers, sweeps that overlap,   *)
(* attempts and transactions, and with every failure possible: the types   *)
(* hold, and neither a stored score nor the ledger counts a candidate that *)
(* nobody entitled to had approved.                                        *)
THEOREM OnlyVettedProven ==
    Spec => [](TypeOK /\ ScoresCountOnlyVetted /\ LedgerCountsOnlyVetted)
<1>1. IInv => TypeOK /\ ScoresCountOnlyVetted /\ LedgerCountsOnlyVetted
  BY DEF IInv, VettedInv, TablesClean, ChainClean, Clean, ScoresCountOnlyVetted,
         LedgerCountsOnlyVetted, Chain!isFree
<1>2. IInv /\ [Next]_vars => IInv'
  BY NextIInv
<1>3. QED BY <1>1, <1>2, InitIInv, PTL DEF Spec

(* A stored score counts vetted candidates only (pipeline/service.ts:336),  *)
(* also while sweeps and restarts interleave with the tasks.               *)
THEOREM ScoresVettedProven == Spec => []ScoresCountOnlyVetted
  BY OnlyVettedProven, PTL

-----------------------------------------------------------------------------
(* Math.round of a share is a share. *)
LEMMA ShareIsValid ==
    ASSUME NEW u \in Nat, NEW n \in Nat, u <= n, n # 0
    PROVE  (20000 * u + n) \div (2 * n) <= 10000
<1> DEFINE a == 20000 * u + n
           b == 2 * n
           q == a \div b
<1>1. a \in Nat /\ b \in Nat \ {0} /\ a < 10001 * b
  OBVIOUS
<1> HIDE DEF a, b
<1>2. q \in Nat /\ b * q <= a
  BY <1>1
<1> HIDE DEF q
<1>3. ASSUME q >= 10001 PROVE FALSE
  <2>1. PICK d \in Nat : q = 10001 + d
    BY <1>2, <1>3
  <2>2. b * q = 10001 * b + b * d /\ b * d >= 0
    BY <1>1, <2>1
  <2>3. QED BY <1>1, <1>2, <2>2
<1>4. QED BY <1>2, <1>3 DEF q, a, b

(* The uptime of any votes is a share in basis points. *)
LEMMA UptimeIsValid ==
    ASSUME NEW v \in Votes
    PROVE  uptimeBps(v) <= 10000
<1> DEFINE g == [c \in Restored |-> v[c]]
<1>1. /\ IsFiniteSet(Candidate) /\ IsFiniteSet(Restored) /\ Restored \in SUBSET Candidate
      /\ \A c \in Candidate : v[c] \in Nat
  BY StoreAssumption, FS_Subset DEF Votes
<1>2. TotalVotes(v) = Sum(v, Candidate) /\ UpVotes(v) = Sum(g, Restored)
  BY DEF TotalVotes, UpVotes, SumFunction, Sum, Votes
<1>3. \A c \in Restored : g[c] = v[c]
  OBVIOUS
<1> HIDE DEF g
<1>4. Sum(g, Restored) = Sum(v, Restored)
  BY <1>1, <1>3, SumSame
<1>5. /\ Sum(v, Candidate) \in Nat /\ Sum(v, Restored) \in Nat
      /\ Sum(v, Restored) <= Sum(v, Candidate)
  BY <1>1, SumNat, SumOfPart
<1> DEFINE n == TotalVotes(v)
           u == UpVotes(v)
<1>6. n \in Nat /\ u \in Nat /\ u <= n
  BY <1>2, <1>4, <1>5
<1>7. uptimeBps(v) = IF n = 0 THEN 0 ELSE (20000 * u + n) \div (2 * n)
  BY DEF uptimeBps
<1> HIDE DEF n, u
<1>8. QED BY <1>6, <1>7, ShareIsValid

(* The contract accepts whatever the relayer submits (isValidBps): for any  *)
(* number of candidates and any decisions the rounded share of the votes    *)
(* for "restored" is at most 10000 (pipeline/service.ts:336).              *)
THEOREM ScoresValidProven == Spec => []ScoresAreValidBps
<1>1. TypeOK => ScoresAreValidBps
  BY UptimeIsValid DEF TypeOK, PipelineTypeOK, StoreTypeOK, ScoresAreValidBps
<1>2. QED BY <1>1, OnlyVettedProven, PTL

-----------------------------------------------------------------------------
(* Confirmation: a commitment shown as confirmed is on the ledger, under    *)
(* every failure of the chain, the database or a process.                  *)

(* Whatever hash is attached to a slot, in the table or in the hands of an *)
(* indexer, is that of a transaction for that slot which was really sent.  *)
BelongsTo(t, s) == t # NoTx => txs[t] # Unsent /\ txs[t].slot = s

HashesBelong ==
    /\ \A s \in Slot : BelongsTo(commitments[s].txHash, s)
    /\ \A i \in Indexer, s \in Slot : BelongsTo(checks[i][s], s)

SuccessIsRecorded ==
    \A t \in Tx : txs[t] # Unsent /\ txs[t].status = "success"
                    => ledger[txs[t].slot] # NoScore

ConfirmedInv == HashesBelong /\ SuccessIsRecorded /\ ConfirmedIsOnChain

(* Transactions keep their slot, records stay, and nothing succeeds        *)
(* without leaving a record.                                               *)
ChainGrows ==
    /\ \A t \in Tx : txs[t] # Unsent => txs'[t] # Unsent /\ txs'[t].slot = txs[t].slot
    /\ \A s \in Slot : ledger[s] # NoScore => ledger'[s] # NoScore
    /\ SuccessIsRecorded'

(* A chain that does not move grows. *)
LEMMA ChainStays ==
    ASSUME SuccessIsRecorded, UNCHANGED <<txs, ledger>>
    PROVE  ChainGrows
BY DEF ChainGrows, SuccessIsRecorded

(* Sending a transaction records nothing yet. *)
LEMMA BroadcastGrows ==
    ASSUME RelayerTypeOK, SuccessIsRecorded, UNCHANGED ledger,
           NEW w \in Submitter, NEW s \in Slot, NEW t \in Tx,
           NextToSend(w, s), Broadcast(t, s, batch[w][s])
    PROVE  ChainGrows
<1>1. \A u \in Tx : txs[u] # Unsent => txs'[u] = txs[u]
  BY BroadcastType
<1>2. \A u \in Tx : u # t => txs'[u] = txs[u]
  BY DEF Broadcast, RelayerTypeOK
<1>3. txs'[t].status = "mempool"
  BY DEF Broadcast, RelayerTypeOK
<1>4. SuccessIsRecorded'
  BY <1>2, <1>3 DEF SuccessIsRecorded
<1>5. QED BY <1>1, <1>4 DEF ChainGrows

(* A block executes a transaction, for the first time in its slot or not.  *)
LEMMA MineGrows ==
    ASSUME RelayerTypeOK, SuccessIsRecorded, NEW t \in Tx, Mine(t)
    PROVE  ChainGrows
<1>1. txs[t] \in TxState /\ txs[t] # Unsent
  BY DEF Mine, RelayerTypeOK, Unsent
<1>2. PICK st \in {"success", "reverted"} :
         /\ txs' = [txs EXCEPT ![t] = [txs[t] EXCEPT !.status = st]]
         /\ st = "success" => Chain!Commit(txs[t].slot, txs[t].score)
         /\ st = "reverted" => UNCHANGED ledger
  BY DEF Mine
<1>3. /\ txs'[t].slot = txs[t].slot /\ txs'[t].status = st
      /\ txs'[t] # Unsent
      /\ \A u \in Tx : u # t => txs'[u] = txs[u]
  BY <1>1, <1>2 DEF RelayerTypeOK, TxState, Unsent
<1>4. \A s \in Slot : ledger[s] # NoScore => ledger'[s] # NoScore
  BY <1>2 DEF Chain!Commit, Chain!isFree, RelayerTypeOK
<1>5. st = "success" => ledger'[txs[t].slot] # NoScore
  BY <1>1, <1>2, StoreAssumption DEF Chain!Commit, RelayerTypeOK, TxState
<1>6. ASSUME NEW u \in Tx, txs'[u] # Unsent, txs'[u].status = "success"
      PROVE  ledger'[txs'[u].slot] # NoScore
  <2>1. CASE u = t
    BY <1>3, <1>5, <1>6, <2>1
  <2>2. CASE u # t
    <3>1. txs'[u] = txs[u] /\ txs[u].slot \in Slot
      BY <1>3, <1>6, <2>2 DEF RelayerTypeOK, TxState
    <3>2. QED BY <1>4, <1>6, <3>1 DEF SuccessIsRecorded
  <2>3. QED BY <2>1, <2>2
<1>7. SuccessIsRecorded'
  BY <1>6 DEF SuccessIsRecorded
<1>8. QED BY <1>3, <1>4, <1>7 DEF ChainGrows

(* A lost transaction leaves the records alone. *)
LEMMA DropGrows ==
    ASSUME RelayerTypeOK, SuccessIsRecorded, NEW t \in Tx, Drop(t)
    PROVE  ChainGrows
<1>1. txs[t] \in TxState
  BY DEF Drop, RelayerTypeOK, Unsent
<1>2. txs' = [txs EXCEPT ![t] = [txs[t] EXCEPT !.status = "dropped"]]
  BY DEF Drop
<1>3. /\ txs'[t].slot = txs[t].slot /\ txs'[t].status = "dropped"
      /\ txs'[t] # Unsent
      /\ \A u \in Tx : u # t => txs'[u] = txs[u]
  BY <1>1, <1>2 DEF RelayerTypeOK, TxState, Unsent
<1>4. UNCHANGED ledger
  BY DEF Drop
<1>5. QED BY <1>3, <1>4 DEF ChainGrows, SuccessIsRecorded

-----------------------------------------------------------------------------
(* What a growing chain leaves true of the rows and lookups that stay. *)
LEMMA RowsStay ==
    ASSUME ConfirmedInv, ChainGrows, StoreTypeOK, RelayerTypeOK
    PROVE  /\ \A s \in Slot, t \in Tx \cup {NoTx} : BelongsTo(t, s) => BelongsTo(t, s)'
           /\ \A s \in Slot : commitments[s].status = "confirmed" => ledger'[s] # NoScore
<1>1. \A s \in Slot, t \in Tx \cup {NoTx} : BelongsTo(t, s) => BelongsTo(t, s)'
  BY DEF ChainGrows, BelongsTo
<1>2. \A s \in Slot : commitments[s].status = "confirmed" => ledger'[s] # NoScore
  BY DEF ConfirmedInv, ConfirmedIsOnChain, Chain!isFree, ChainGrows
<1>3. QED BY <1>1, <1>2

(* One row changes: to a status that claims nothing, or to "confirmed"     *)
(* with a record on the ledger; and to a hash that belongs to it.          *)
LEMMA RowChanges ==
    ASSUME ConfirmedInv, ChainGrows, StoreTypeOK, RelayerTypeOK, UNCHANGED checks,
           NEW s \in Slot, NEW row,
           commitments' = [commitments EXCEPT ![s] = row],
           row.txHash \in Tx \cup {NoTx}, BelongsTo(row.txHash, s),
           row.status # "confirmed" \/ ledger[s] # NoScore
    PROVE  ConfirmedInv'
<1>1. commitments'[s] = row /\ \A r \in Slot : r # s => commitments'[r] = commitments[r]
  BY DEF StoreTypeOK
<1>2. ASSUME NEW r \in Slot
      PROVE  BelongsTo(commitments[r].txHash, r)'
  <2>1. CASE r = s
    BY <1>1, <2>1, RowsStay DEF BelongsTo
  <2>2. CASE r # s
    <3>1. commitments[r].txHash \in Tx \cup {NoTx}
      BY DEF StoreTypeOK, Commitment
    <3>2. QED BY <1>1, <2>2, <3>1, RowsStay DEF ConfirmedInv, HashesBelong, BelongsTo
  <2>3. QED BY <2>1, <2>2
<1>3. ASSUME NEW i \in Indexer, NEW r \in Slot
      PROVE  BelongsTo(checks[i][r], r)'
  <2>1. checks[i][r] \in Tx \cup {NoTx}
    BY DEF RelayerTypeOK
  <2>2. QED BY <2>1, RowsStay DEF ConfirmedInv, HashesBelong, BelongsTo
<1>4. ASSUME NEW r \in Slot, commitments'[r].status = "confirmed"
      PROVE  ledger'[r] # NoScore
  BY <1>1, <1>4, RowsStay DEF ChainGrows
<1>5. HashesBelong'
  BY <1>2, <1>3 DEF HashesBelong
<1>6. ConfirmedIsOnChain'
  BY <1>4 DEF ConfirmedIsOnChain, Chain!isFree
<1>7. QED BY <1>5, <1>6 DEF ConfirmedInv, ChainGrows

(* No row changes, and lookups are kept, dropped or read from the rows. *)
LEMMA LookupsChange ==
    ASSUME ConfirmedInv, ChainGrows, StoreTypeOK, RelayerTypeOK, UNCHANGED commitments,
           \A i \in Indexer, s \in Slot :
              checks'[i][s] \in {checks[i][s], commitments[s].txHash, NoTx}
    PROVE  ConfirmedInv'
<1>1. ASSUME NEW r \in Slot
      PROVE  BelongsTo(commitments[r].txHash, r)'
  <2>1. commitments[r].txHash \in Tx \cup {NoTx}
    BY DEF StoreTypeOK, Commitment
  <2>2. QED BY <2>1, RowsStay DEF ConfirmedInv, HashesBelong, BelongsTo
<1>2. ASSUME NEW i \in Indexer, NEW r \in Slot
      PROVE  BelongsTo(checks[i][r], r)'
  <2>1. checks[i][r] \in Tx \cup {NoTx} /\ commitments[r].txHash \in Tx \cup {NoTx}
    BY DEF RelayerTypeOK, StoreTypeOK, Commitment
  <2>2. checks'[i][r] \in Tx \cup {NoTx} /\ BelongsTo(checks'[i][r], r)
    BY <2>1 DEF ConfirmedInv, HashesBelong, BelongsTo
  <2>3. QED BY <2>2, RowsStay DEF BelongsTo
<1>3. HashesBelong'
  BY <1>1, <1>2 DEF HashesBelong
<1>4. ConfirmedIsOnChain'
  BY RowsStay DEF ConfirmedIsOnChain, Chain!isFree
<1>5. QED BY <1>3, <1>4 DEF ConfirmedInv, ChainGrows

-----------------------------------------------------------------------------
(* Giving up claims nothing. *)
LEMMA GiveUpConfirms ==
    ASSUME ConfirmedInv, ChainGrows, StoreTypeOK, RelayerTypeOK,
           NEW w \in Submitter, NEW s \in Slot, GiveUp(w, s)
    PROVE  ConfirmedInv'
<1> DEFINE row == [commitments[s] EXCEPT !.status = "failed"]
<1>1. commitments[s] \in Commitment
  BY DEF StoreTypeOK
<1>2. row.txHash = commitments[s].txHash /\ row.status = "failed"
  BY <1>1 DEF Commitment
<1>3. row.txHash \in Tx \cup {NoTx}
  BY <1>1, <1>2 DEF Commitment
<1>4. commitments' = [commitments EXCEPT ![s] = row] /\ UNCHANGED checks
  BY DEF GiveUp, setStatus
<1>5. BelongsTo(row.txHash, s)
  BY <1>2 DEF ConfirmedInv, HashesBelong
<1> HIDE DEF row
<1>6. QED BY <1>2, <1>3, <1>4, <1>5, RowChanges

(* The steps of the sweeps and of the chain preserve the invariant. *)
LEMMA RelayerStepConfirmed ==
    ASSUME StoreTypeOK, RelayerTypeOK, ConfirmedInv, RelayerNext
    PROVE  ConfirmedInv'
<1> USE DEF ConfirmedInv
<1>1. ASSUME UNCHANGED <<txs, ledger, commitments, checks>>
      PROVE  ConfirmedInv'
  BY <1>1, ChainStays, LookupsChange
<1>2. ASSUME NEW s \in Slot, EndEpoch(s)
      PROVE  ConfirmedInv'
  BY <1>1, <1>2 DEF EndEpoch, dbvars
<1>3. ASSUME NEW w \in Submitter, SubmitScan(w) \/ SubmitterCrash(w)
      PROVE  ConfirmedInv'
  BY <1>1, <1>3 DEF SubmitScan, SubmitterCrash, dbvars
<1>4. ASSUME NEW w \in Submitter, NEW s \in Slot, NEW t \in Tx, commitEpoch(w, s, t)
      PROVE  ConfirmedInv'
  <2>1. ChainGrows
    BY <1>4, BroadcastGrows DEF commitEpoch
  <2>2. QED BY <1>4, <2>1, LookupsChange DEF commitEpoch, dbvars
<1>5. ASSUME NEW w \in Submitter, StoreTxHash(w)
      PROVE  ConfirmedInv'
  <2> DEFINE s == txs[sent[w]].slot
             row == [commitments[s] EXCEPT !.txHash = sent[w], !.status = "pending"]
  <2>1. sent[w] \in Tx /\ txs[sent[w]] # Unsent /\ s \in Slot
    BY <1>5 DEF StoreTxHash, RelayerTypeOK, TxState
  <2>2. commitments[s] \in Commitment
    BY <2>1 DEF StoreTypeOK
  <2>3. row.txHash = sent[w] /\ row.status = "pending"
    BY <2>2 DEF Commitment
  <2>4. commitments' = [commitments EXCEPT ![s] = row] /\ UNCHANGED <<txs, ledger, checks>>
    BY <1>5, <2>1 DEF StoreTxHash, StoreTypeOK, Commitment
  <2>5. BelongsTo(row.txHash, s)
    BY <2>1, <2>3 DEF BelongsTo
  <2> HIDE DEF row, s
  <2>6. QED BY <2>1, <2>3, <2>4, <2>5, RowChanges, ChainStays
<1>6. ASSUME NEW w \in Submitter, NEW s \in Slot, SendFails(w, s)
      PROVE  ConfirmedInv'
  <2>1. UNCHANGED ledger /\ GiveUp(w, s)
    BY <1>6 DEF SendFails, GiveUp
  <2>2. ChainGrows
    <3>1. CASE UNCHANGED txs
      BY <2>1, <3>1, ChainStays
    <3>2. CASE \E t \in Tx : Broadcast(t, s, batch[w][s])
      BY <1>6, <2>1, <3>2, BroadcastGrows DEF SendFails
    <3>3. QED BY <1>6, <3>1, <3>2 DEF SendFails
  <2>3. QED BY <2>1, <2>2, GiveUpConfirms
<1>7. ASSUME NEW w \in Submitter, StoreFails(w)
      PROVE  ConfirmedInv'
  <2>1. txs[sent[w]].slot \in Slot
    BY <1>7 DEF StoreFails, RelayerTypeOK, TxState
  <2>2. QED BY <1>7, <2>1, ChainStays, GiveUpConfirms DEF StoreFails, GiveUp
<1>7a. ASSUME NEW w \in Submitter, AuditFails(w)
       PROVE  ConfirmedInv'
  <2> DEFINE s == txs[sent[w]].slot
             row == [commitments[s] EXCEPT !.txHash = sent[w], !.status = "failed"]
  <2>1. sent[w] \in Tx /\ txs[sent[w]] # Unsent /\ s \in Slot
    BY <1>7a DEF AuditFails, RelayerTypeOK, TxState
  <2>2. commitments[s] \in Commitment
    BY <2>1 DEF StoreTypeOK
  <2>3. row.txHash = sent[w] /\ row.status = "failed"
    BY <2>2 DEF Commitment
  <2>4. commitments' = [commitments EXCEPT ![s] = row] /\ UNCHANGED <<txs, ledger, checks>>
    BY <1>7a, <2>1 DEF AuditFails, StoreTypeOK, Commitment
  <2>5. BelongsTo(row.txHash, s)
    BY <2>1, <2>3 DEF BelongsTo
  <2> HIDE DEF row, s
  <2>6. QED BY <2>1, <2>3, <2>4, <2>5, RowChanges, ChainStays
<1>8. ASSUME NEW i \in Indexer, IndexScan(i) \/ IndexerCrash(i)
      PROVE  ConfirmedInv'
  <2>1. UNCHANGED <<txs, ledger, commitments>>
    BY <1>8 DEF IndexScan, IndexerCrash, dbvars
  <2>2. \A j \in Indexer, s \in Slot :
          checks'[j][s] \in {checks[j][s], commitments[s].txHash, NoTx}
    <3>1. CASE IndexScan(i)
      BY <3>1 DEF IndexScan, RelayerTypeOK
    <3>2. CASE IndexerCrash(i)
      BY <3>2 DEF IndexerCrash, RelayerTypeOK, NoChecks
    <3>3. QED BY <1>8, <3>1, <3>2
  <2>3. QED BY <2>1, <2>2, ChainStays, LookupsChange
<1>9. ASSUME NEW i \in Indexer, NEW s \in Slot, IndexRow(i, s)
      PROVE  ConfirmedInv'
  <2> DEFINE t == checks[i][s]
  <2>1. t \in Tx /\ txs[t] # Unsent /\ txs[t].slot = s
    BY <1>9 DEF IndexRow, Oldest, RelayerTypeOK, HashesBelong, BelongsTo
  <2>2. UNCHANGED <<txs, ledger>> /\ ChainGrows
    BY <1>9, ChainStays DEF IndexRow
  <2>3. txs[t].status = "success" => ledger[s] # NoScore
    BY <2>1 DEF SuccessIsRecorded
  <2>4. \A j \in Indexer, r \in Slot : checks'[j][r] \in {checks[j][r], NoTx}
    BY <1>9 DEF IndexRow, RelayerTypeOK
  <2>5. CASE UNCHANGED commitments
    BY <2>2, <2>4, <2>5, LookupsChange
  <2>6. ASSUME NEW st \in {"confirmed", "failed"},
               st = "confirmed" => ledger[s] # NoScore,
               setStatus(s, st)
        PROVE  ConfirmedInv'
    <3>1. commitments[s] \in Commitment
      BY DEF StoreTypeOK
    <3>2. /\ commitments'[s].txHash = commitments[s].txHash
          /\ commitments'[s].status = st
          /\ \A r \in Slot : r # s => commitments'[r] = commitments[r]
      BY <2>6, <3>1 DEF setStatus, StoreTypeOK, Commitment
    <3>3. \A r \in Slot : commitments'[r].txHash = commitments[r].txHash
      BY <3>2
    <3>4. HashesBelong'
      BY <2>2, <2>4, <3>3 DEF HashesBelong, BelongsTo
    <3>5. ConfirmedIsOnChain'
      BY <2>2, <2>6, <3>2 DEF ConfirmedIsOnChain, Chain!isFree
    <3>6. QED BY <2>2, <3>4, <3>5 DEF ChainGrows
  <2>7. \/ UNCHANGED commitments
        \/ txs[t].status = "success" /\ setStatus(s, "confirmed")
        \/ setStatus(s, "failed")
    BY <1>9 DEF IndexRow, confirmationUpdateFromReceipt
  <2>8. QED BY <2>3, <2>5, <2>6, <2>7
<1>10. ASSUME NEW t \in Tx, Mine(t) \/ Drop(t)
       PROVE  ConfirmedInv'
  <2>1. ChainGrows
    BY <1>10, MineGrows, DropGrows
  <2>2. UNCHANGED <<commitments, checks>>
    BY <1>10 DEF Mine, Drop, dbvars
  <2>3. QED BY <2>1, <2>2, LookupsChange
<1>11. QED
  BY <1>2, <1>3, <1>4, <1>5, <1>6, <1>7, <1>7a, <1>8, <1>9, <1>10
     DEF RelayerNext, SubmitterStep, IndexerStep

(* An approval queues its slot again; whatever else the pipeline does, it  *)
(* leaves the commitments alone.                                           *)
LEMMA PipelineStepConfirmed ==
    ASSUME StoreTypeOK, RelayerTypeOK, ConfirmedInv, PipelineNext,
           UNCHANGED relayervars
    PROVE  ConfirmedInv'
<1>1. ChainGrows /\ UNCHANGED checks
  BY ChainStays DEF relayervars, ConfirmedInv
<1>2. CASE UNCHANGED commitments
  BY <1>1, <1>2, LookupsChange
<1>3. ASSUME NEW t \in Task, QueueCommitment(t)
      PROVE  ConfirmedInv'
  <2> DEFINE s == SlotOf[t[2]]
             new == [status |-> "pending", txHash |-> NoTx,
                     createdAt |-> Cardinality({r \in Slot : Exists(r)})]
             row == IF Exists(s) THEN [commitments[s] EXCEPT !.status = "pending"] ELSE new
  <2>1. s \in Slot
    BY StoreAssumption DEF Task
  <2>2. commitments[s] \in Commitment
    BY <2>1 DEF StoreTypeOK
  <2>3. commitments' = [commitments EXCEPT ![s] = row]
    BY <1>3 DEF QueueCommitment, upsertPendingCommitment
  <2>4. row.status = "pending" /\ row.txHash \in {commitments[s].txHash, NoTx}
    BY <2>2 DEF Commitment
  <2>5. row.txHash \in Tx \cup {NoTx} /\ BelongsTo(row.txHash, s)
    BY <2>1, <2>2, <2>4 DEF Commitment, ConfirmedInv, HashesBelong, BelongsTo
  <2> HIDE DEF row, s
  <2>6. QED BY <1>1, <2>1, <2>3, <2>4, <2>5, RowChanges
<1>4. CASE \A t \in Task : ~QueueCommitment(t)
  <2>1. UNCHANGED commitments
    BY <1>4 DEF PipelineNext, CandidateStep, TaskStep, Detect, Decide,
                enqueueAgentReviewJob, StartJob, persistOrchestrationResult,
                resolveReviewDecision, SelectApproved, UpsertScore, Abort,
                RestartApi, dbvars
  <2>2. QED BY <1>2, <2>1
<1>5. QED BY <1>3, <1>4

LEMMA ConfirmedStep ==
    ASSUME TypeOK, ConfirmedInv, [Next]_vars
    PROVE  ConfirmedInv'
<1>1. CASE UNCHANGED vars
  BY <1>1 DEF vars, dbvars, relayervars, ConfirmedInv, HashesBelong, BelongsTo,
              SuccessIsRecorded, ConfirmedIsOnChain, Chain!isFree
<1>2. QED
  BY <1>1, RelayerStepConfirmed, PipelineStepConfirmed
     DEF Next, TypeOK, PipelineTypeOK

LEMMA ConfirmedInvProven == Spec => []ConfirmedInv
<1>1. Init => ConfirmedInv
  BY DEF Init, PipelineInit, StoreInit, RelayerInit, Chain!LedgerInit, ConfirmedInv,
         HashesBelong, BelongsTo, SuccessIsRecorded, ConfirmedIsOnChain,
         NoCommitment, NoChecks, Unsent
<1>2. QED BY <1>1, ConfirmedStep, OnlyVettedProven, PTL DEF Spec

(* "Confirmed: BOT Chain included the commitment in a successful           *)
(* transaction" (README.md:52), for any number of sweeps that overlap,     *)
(* whatever they lose, repeat or leave half done.                          *)
THEOREM ConfirmedProven == Spec => []ConfirmedIsOnChain
<1>1. ConfirmedInv => ConfirmedIsOnChain
  BY DEF ConfirmedInv
<1>2. QED BY <1>1, ConfirmedInvProven, PTL

-----------------------------------------------------------------------------
(* The refinement: a step approves, publishes, shows or hides.             *)

TrustedNow == {c \in Candidate : Vetted(c)}
ShownNow == {s \in Slot : commitments[s].status = "confirmed"}

(* Approvals grow, and a row that changes claims nothing or is confirmed.  *)
LEMMA TrustGrows ==
    ASSUME \A c \in Candidate : approvers[c] \subseteq approvers'[c]
    PROVE  TrustedNow \subseteq TrustedNow'
BY VettedGrows DEF TrustedNow

LEMMA TrustStays == ASSUME UNCHANGED approvers PROVE TrustedNow' = TrustedNow
BY DEF TrustedNow, Vetted

LEMMA RowIsShown ==
    ASSUME StoreTypeOK, NEW s \in Slot, NEW row,
           commitments' = [commitments EXCEPT ![s] = row]
    PROVE  IF row.status = "confirmed" THEN ShownNow' = ShownNow \cup {s}
           ELSE ShownNow' \subseteq ShownNow
<1>1. commitments'[s] = row /\ \A r \in Slot : r # s => commitments'[r] = commitments[r]
  BY DEF StoreTypeOK
<1>2. QED BY <1>1 DEF ShownNow

LEMMA Revised ==
    ASSUME TrustedNow \subseteq TrustedNow', ShownNow' \subseteq ShownNow, UNCHANGED ledger
    PROVE  Promise!PromiseNext
BY DEF Promise!PromiseNext, Promise!Revise, TrustedNow, ShownNow

(* A task approves, or queues an epoch again, or does nothing that counts. *)
LEMMA PipelineStepRevises ==
    ASSUME PipelineTypeOK, PipelineNext, UNCHANGED relayervars
    PROVE  Promise!PromiseNext
<1>1. UNCHANGED ledger
  BY DEF relayervars
<1>2. CASE \A t \in Task : ~QueueCommitment(t)
  <2>1. UNCHANGED commitments
    BY <1>2 DEF PipelineNext, CandidateStep, TaskStep, Detect, Decide,
                enqueueAgentReviewJob, StartJob, persistOrchestrationResult,
                resolveReviewDecision, SelectApproved, UpsertScore, Abort,
                RestartApi, dbvars
  <2>2. ShownNow' \subseteq ShownNow
    BY <2>1 DEF ShownNow
  <2>3. ASSUME NEW c \in Candidate, NEW a, NEW v, NEW who, Record(c, a, v, who)
        PROVE  \A d \in Candidate : approvers[d] \subseteq approvers'[d]
    BY <2>3 DEF Record, PipelineTypeOK
  <2>4. \/ UNCHANGED approvers
        \/ \E c \in Candidate : \E a, v, who : Record(c, a, v, who)
    BY <1>2 DEF PipelineNext, CandidateStep, TaskStep, Detect, Decide,
                enqueueAgentReviewJob, StartJob, persistOrchestrationResult,
                resolveReviewDecision, SelectApproved, UpsertScore, Abort,
                RestartApi
  <2>5. TrustedNow \subseteq TrustedNow'
    BY <2>3, <2>4, TrustGrows, TrustStays
  <2>6. QED BY <1>1, <2>2, <2>5, Revised
<1>3. ASSUME NEW t \in Task, QueueCommitment(t)
      PROVE  Promise!PromiseNext
  <2> DEFINE s == SlotOf[t[2]]
             new == [status |-> "pending", txHash |-> NoTx,
                     createdAt |-> Cardinality({r \in Slot : Exists(r)})]
             row == IF Exists(s) THEN [commitments[s] EXCEPT !.status = "pending"] ELSE new
  <2>1. s \in Slot
    BY StoreAssumption DEF Task
  <2>2. commitments[s] \in Commitment
    BY <2>1 DEF PipelineTypeOK, StoreTypeOK
  <2>3. commitments' = [commitments EXCEPT ![s] = row] /\ UNCHANGED approvers
    BY <1>3 DEF QueueCommitment, upsertPendingCommitment
  <2>4. row.status # "confirmed"
    BY <2>2 DEF Commitment
  <2> HIDE DEF row, s
  <2>5. ShownNow' \subseteq ShownNow
    BY <2>1, <2>3, <2>4, RowIsShown DEF PipelineTypeOK
  <2>6. QED BY <1>1, <2>3, <2>5, TrustStays, Revised
<1>4. QED BY <1>2, <1>3

(* A sweep hides or shows a row, a block publishes a transaction's score.  *)
LEMMA RelayerStepKeepsPromise ==
    ASSUME IInv, ConfirmedInv', RelayerNext, UNCHANGED taskvars
    PROVE  Promise!PromiseNext
<1>1. /\ TrustedNow' = TrustedNow
      /\ StoreTypeOK /\ RelayerTypeOK
  BY TrustStays DEF taskvars, IInv, TypeOK, PipelineTypeOK
<1>2. ASSUME UNCHANGED <<commitments, ledger>>
      PROVE  Promise!PromiseNext
  <2>1. ShownNow' = ShownNow
    BY <1>2 DEF ShownNow
  <2>2. QED BY <1>1, <1>2, <2>1, Revised
<1>3. ASSUME NEW s \in Slot, NEW status \in {"pending", "failed"}, UNCHANGED ledger,
             NEW hash, commitments' = [commitments EXCEPT ![s].txHash = hash,
                                                          ![s].status = status]
                       \/ setStatus(s, status)
      PROVE  Promise!PromiseNext
  <2>1. commitments[s] \in Commitment
    BY <1>1 DEF StoreTypeOK
  <2>2. PICK row : /\ commitments' = [commitments EXCEPT ![s] = row]
                   /\ row.status = status
    <3>1. CASE setStatus(s, status)
      <4>1. [commitments[s] EXCEPT !.status = status].status = status
        BY <2>1 DEF Commitment
      <4>2. QED BY <3>1, <4>1 DEF setStatus
    <3>2. CASE commitments' = [commitments EXCEPT ![s].txHash = hash, ![s].status = status]
      <4> DEFINE row == [commitments[s] EXCEPT !.txHash = hash, !.status = status]
      <4>1. commitments' = [commitments EXCEPT ![s] = row]
        BY <1>1, <3>2 DEF StoreTypeOK
      <4>2. row.status = status
        BY <2>1 DEF Commitment
      <4> HIDE DEF row
      <4>3. QED BY <4>1, <4>2
    <3>3. QED BY <1>3, <3>1, <3>2
  <2>3. ShownNow' \subseteq ShownNow
    BY <1>1, <2>2, RowIsShown
  <2>4. QED BY <1>1, <1>3, <2>3, Revised
<1>4. ASSUME NEW s \in Slot, EndEpoch(s)
      PROVE  Promise!PromiseNext
  BY <1>2, <1>4 DEF EndEpoch, dbvars
<1>5. ASSUME NEW w \in Submitter, SubmitScan(w) \/ SubmitterCrash(w)
      PROVE  Promise!PromiseNext
  BY <1>2, <1>5 DEF SubmitScan, SubmitterCrash, dbvars
<1>6. ASSUME NEW w \in Submitter, NEW s \in Slot, NEW t \in Tx, commitEpoch(w, s, t)
      PROVE  Promise!PromiseNext
  BY <1>2, <1>6 DEF commitEpoch, dbvars
<1>7. ASSUME NEW w \in Submitter, StoreTxHash(w)
      PROVE  Promise!PromiseNext
  <2>1. txs[sent[w]].slot \in Slot
    <3>1. sent[w] \in Tx /\ txs[sent[w]] # Unsent
      BY <1>1, <1>7 DEF StoreTxHash, RelayerTypeOK
    <3>2. txs[sent[w]] \in TxState
      BY <1>1, <3>1 DEF RelayerTypeOK
    <3>3. QED BY <3>2 DEF TxState
  <2>2. QED BY <1>3, <1>7, <2>1 DEF StoreTxHash
<1>8. ASSUME NEW w \in Submitter, NEW s \in Slot, SendFails(w, s)
      PROVE  Promise!PromiseNext
  BY <1>3, <1>8 DEF SendFails, GiveUp
<1>9. ASSUME NEW w \in Submitter, StoreFails(w)
      PROVE  Promise!PromiseNext
  <2>1. txs[sent[w]].slot \in Slot
    <3>1. sent[w] \in Tx /\ txs[sent[w]] # Unsent
      BY <1>1, <1>9 DEF StoreFails, RelayerTypeOK
    <3>2. txs[sent[w]] \in TxState
      BY <1>1, <3>1 DEF RelayerTypeOK
    <3>3. QED BY <3>2 DEF TxState
  <2>2. QED BY <1>3, <1>9, <2>1 DEF StoreFails, GiveUp
<1>9a. ASSUME NEW w \in Submitter, AuditFails(w)
       PROVE  Promise!PromiseNext
  <2>1. txs[sent[w]].slot \in Slot
    <3>1. sent[w] \in Tx /\ txs[sent[w]] # Unsent
      BY <1>1, <1>9a DEF AuditFails, RelayerTypeOK
    <3>2. txs[sent[w]] \in TxState
      BY <1>1, <3>1 DEF RelayerTypeOK
    <3>3. QED BY <3>2 DEF TxState
  <2>2. QED BY <1>3, <1>9a, <2>1 DEF AuditFails
<1>10. ASSUME NEW i \in Indexer, IndexScan(i) \/ IndexerCrash(i)
       PROVE  Promise!PromiseNext
  BY <1>2, <1>10 DEF IndexScan, IndexerCrash, dbvars
<1>11. ASSUME NEW i \in Indexer, NEW s \in Slot, IndexRow(i, s)
       PROVE  Promise!PromiseNext
  <2>1. UNCHANGED ledger
    BY <1>11 DEF IndexRow
  <2>2. CASE setStatus(s, "confirmed")
    <3>1. commitments[s] \in Commitment
      BY <1>1 DEF StoreTypeOK
    <3>2. PICK row : /\ commitments' = [commitments EXCEPT ![s] = row]
                     /\ row.status = "confirmed"
      <4>1. [commitments[s] EXCEPT !.status = "confirmed"].status = "confirmed"
        BY <3>1 DEF Commitment
      <4>2. QED BY <2>2, <4>1 DEF setStatus
    <3>3. ShownNow' = ShownNow \cup {s}
      BY <1>1, <3>2, RowIsShown
    <3>4. commitments'[s].status = "confirmed"
      BY <3>3 DEF ShownNow
    <3>5. ledger[s] # NoScore
      BY <2>1, <3>4 DEF ConfirmedInv, ConfirmedIsOnChain, Chain!isFree
    <3>6. Promise!Show(s)
      BY <1>1, <2>1, <3>3, <3>5 DEF Promise!Show, TrustedNow, ShownNow
    <3>7. QED BY <3>6 DEF Promise!PromiseNext
  <2>3. CASE setStatus(s, "failed")
    BY <1>3, <2>1, <2>3
  <2>4. CASE UNCHANGED commitments
    BY <1>2, <2>1, <2>4
  <2>5. QED BY <1>11, <2>2, <2>3, <2>4 DEF IndexRow, confirmationUpdateFromReceipt
<1>12. ASSUME NEW t \in Tx, Mine(t)
       PROVE  Promise!PromiseNext
  <2>1. UNCHANGED commitments
    BY <1>12 DEF Mine, dbvars
  <2>2. txs[t] \in TxState /\ txs[t] # Unsent
    BY <1>1, <1>12 DEF Mine, RelayerTypeOK, Unsent
  <2> DEFINE s == txs[t].slot
             v == txs[t].score
  <2>3. s \in Slot /\ v \in Votes
    BY <2>2 DEF TxState
  <2>4. \A c \in Candidate : v[c] > 0 => c \in TrustedNow
    BY <2>2 DEF IInv, VettedInv, ChainClean, CountsOnlyVetted, TrustedNow
  <2>5. CASE Chain!Commit(s, v)
    <3>1. ShownNow' = ShownNow
      BY <2>1 DEF ShownNow
    <3>2. ledger[s] = NoScore /\ ledger' = [ledger EXCEPT ![s] = v]
      BY <2>5 DEF Chain!Commit, Chain!isFree
    <3> HIDE DEF s, v
    <3>3. Promise!Publish(s, v)
      BY <1>1, <2>4, <3>1, <3>2 DEF Promise!Publish, TrustedNow, ShownNow
    <3>4. QED BY <2>3, <3>3 DEF Promise!PromiseNext
  <2>6. CASE UNCHANGED ledger
    BY <1>2, <2>1, <2>6
  <2>7. QED BY <1>12, <2>5, <2>6 DEF Mine
<1>13. ASSUME NEW t \in Tx, Drop(t)
       PROVE  Promise!PromiseNext
  BY <1>2, <1>13 DEF Drop, dbvars
<1>14. QED
  BY <1>4, <1>5, <1>6, <1>7, <1>8, <1>9, <1>9a, <1>10, <1>11, <1>12, <1>13
     DEF RelayerNext, SubmitterStep, IndexerStep

LEMMA StepKeepsPromise ==
    ASSUME IInv, ConfirmedInv', [Next]_vars
    PROVE  [Promise!PromiseNext]_(Promise!promisevars)
<1>1. CASE PipelineNext /\ UNCHANGED relayervars
  BY <1>1, PipelineStepRevises DEF IInv, TypeOK
<1>2. CASE RelayerNext /\ UNCHANGED taskvars
  BY <1>2, RelayerStepKeepsPromise
<1>3. CASE UNCHANGED vars
  <2>1. UNCHANGED <<approvers, commitments, ledger>>
    BY <1>3 DEF vars, dbvars, taskvars, relayervars
  <2>2. TrustedNow' = TrustedNow /\ ShownNow' = ShownNow
    BY <2>1, TrustStays DEF ShownNow
  <2>3. QED BY <2>1, <2>2, Revised
<1>4. QED BY <1>1, <1>2, <1>3 DEF Next

(* From detection to confirmation, with any number of candidates, tasks,   *)
(* sweeps and transactions and under every failure, the system does to the *)
(* ledger and to what it shows as confirmed only what ProofPromise allows  *)
(* (README.md:52, README.md:284, UptimeAttestation.sol:9-11).              *)
THEOREM PromiseProven == Spec => PromiseIsKept
<1>1. Init => Promise!Promised
  <2> SUFFICES ASSUME Init PROVE Promise!Promised
    OBVIOUS
  <2>1. /\ ledger = [s \in Slot |-> NoScore]
        /\ commitments = [s \in Slot |-> NoCommitment]
    BY DEF Init, PipelineInit, StoreInit, RelayerInit, Chain!LedgerInit
  <2>2. QED BY <2>1 DEF Promise!Promised, NoCommitment
<1>2. IInv /\ ConfirmedInv' /\ [Next]_vars => [Promise!PromiseNext]_(Promise!promisevars)
  BY StepKeepsPromise
<1>3. Spec => []IInv
  BY InitIInv, NextIInv, PTL DEF Spec
<1>4. QED
  BY <1>1, <1>2, <1>3, ConfirmedInvProven, PTL DEF Spec, PromiseIsKept, Promise!PromiseSpec

-----------------------------------------------------------------------------
(* The hash of a confirmed row, when sweeps that submit do not overlap *)

OneSubmitter == \A v, w \in Submitter : v = w

Succeeded(t) == txs[t] # Unsent /\ txs[t].status = "success"

(* A success is the transaction that put its score on the ledger. *)
SuccessIsTheRecord == \A t \in Tx : Succeeded(t) => txs[t].score = ledger[txs[t].slot]

(* A row is given a hash once: a submitter holds it only without one, and a *)
(* transaction only while it holds the row; so a lookup is of the row's own *)
(* hash, and that hash succeeded if the row is confirmed.                   *)
BatchHasNoHash ==
    \A w \in Submitter, s \in Slot : batch[w][s] # NoScore => commitments[s].txHash = NoTx
SentIsInBatch ==
    \A w \in Submitter : sent[w] # NoTx => batch[w][txs[sent[w]].slot] # NoScore
LooksUpItsRow ==
    \A i \in Indexer, s \in Slot : checks[i][s] \in {NoTx, commitments[s].txHash}
NoRowNoHash ==
    \A s \in Slot : commitments[s].status = "none" => commitments[s].txHash = NoTx
ConfirmedSucceeded ==
    \A s \in Slot : commitments[s].status = "confirmed" =>
        commitments[s].txHash \in Tx /\ Succeeded(commitments[s].txHash)

HashInv ==
    /\ SuccessIsTheRecord /\ BatchHasNoHash /\ SentIsInBatch /\ LooksUpItsRow
    /\ NoRowNoHash /\ ConfirmedSucceeded

(* Successes last, and each is the record of its slot. *)
ChainSettles ==
    /\ ChainGrows
    /\ \A t \in Tx : Succeeded(t) => Succeeded(t)'
    /\ SuccessIsTheRecord'

LEMMA SettledStays ==
    ASSUME SuccessIsRecorded, SuccessIsTheRecord, UNCHANGED <<txs, ledger>>
    PROVE  ChainSettles
<1>1. ChainGrows
  BY ChainStays
<1> QED
  BY <1>1 DEF ChainSettles, Succeeded, SuccessIsTheRecord

LEMMA BroadcastSettles ==
    ASSUME RelayerTypeOK, SuccessIsRecorded, SuccessIsTheRecord, UNCHANGED ledger,
           NEW w \in Submitter, NEW s \in Slot, NEW t \in Tx,
           NextToSend(w, s), Broadcast(t, s, batch[w][s])
    PROVE  ChainSettles /\ txs'[t].slot = s
<1>1. ChainGrows
  BY BroadcastGrows
<1>2. \A u \in Tx : u # t => txs'[u] = txs[u]
  BY DEF Broadcast, RelayerTypeOK
<1>3. txs[t] = Unsent /\ txs'[t].status = "mempool" /\ txs'[t].slot = s
  BY DEF Broadcast, RelayerTypeOK
<1>4. \A u \in Tx : Succeeded(u) => Succeeded(u)'
  BY <1>2, <1>3 DEF Succeeded
<1>5. SuccessIsTheRecord'
  BY <1>2, <1>3 DEF Succeeded, SuccessIsTheRecord
<1> QED
  BY <1>1, <1>3, <1>4, <1>5 DEF ChainSettles

LEMMA MineSettles ==
    ASSUME RelayerTypeOK, SuccessIsRecorded, SuccessIsTheRecord, NEW t \in Tx, Mine(t) \/ Drop(t)
    PROVE  ChainSettles
<1>1. ChainGrows
  BY MineGrows, DropGrows
<1>2. txs[t] \in TxState /\ txs[t].status = "mempool"
  BY DEF Mine, Drop, RelayerTypeOK, Unsent
<1>3. PICK st \in {"success", "reverted", "dropped"} :
         /\ txs' = [txs EXCEPT ![t] = [txs[t] EXCEPT !.status = st]]
         /\ st = "success" => Chain!Commit(txs[t].slot, txs[t].score)
         /\ st # "success" => UNCHANGED ledger
  BY DEF Mine, Drop
<1>4. /\ txs'[t].slot = txs[t].slot /\ txs'[t].score = txs[t].score /\ txs'[t].status = st
      /\ \A u \in Tx : u # t => txs'[u] = txs[u]
  BY <1>2, <1>3 DEF RelayerTypeOK, TxState
<1>5. \A u \in Tx : Succeeded(u) => u # t /\ Succeeded(u)'
  BY <1>2, <1>4 DEF Succeeded
<1>6. ASSUME NEW u \in Tx, Succeeded(u)'
      PROVE  txs'[u].score = ledger'[txs'[u].slot]
  <2>1. CASE u = t
    <3>1. txs[t].slot \in Slot /\ st = "success"
      BY <1>2, <1>4, <1>6, <2>1 DEF Succeeded, TxState
    <3>2. ledger' = [ledger EXCEPT ![txs[t].slot] = txs[t].score]
      BY <1>3, <3>1 DEF Chain!Commit
    <3> QED
      BY <1>4, <2>1, <3>1, <3>2 DEF RelayerTypeOK
  <2>2. CASE u # t
    <3>1. Succeeded(u) /\ txs'[u] = txs[u]
      BY <1>4, <1>6, <2>2 DEF Succeeded
    <3>2. ledger[txs[u].slot] # NoScore /\ txs[u].score = ledger[txs[u].slot]
      BY <3>1 DEF Succeeded, SuccessIsRecorded, SuccessIsTheRecord
    <3>3. ledger'[txs[u].slot] = ledger[txs[u].slot]
      <4>1. CASE st # "success"
        BY <1>3, <4>1
      <4>2. CASE st = "success"
        <5>1. /\ ledger[txs[t].slot] = NoScore
              /\ ledger' = [ledger EXCEPT ![txs[t].slot] = txs[t].score]
          BY <1>3, <4>2 DEF Chain!Commit, Chain!isFree
        <5>2. txs[u].slot # txs[t].slot /\ txs[u].slot \in Slot
          BY <1>4, <3>1, <3>2, <5>1 DEF Succeeded, RelayerTypeOK, TxState
        <5> QED
          BY <5>1, <5>2 DEF RelayerTypeOK
      <4> QED
        BY <4>1, <4>2
    <3> QED
      BY <3>1, <3>2, <3>3
  <2> QED
    BY <2>1, <2>2
<1>7. SuccessIsTheRecord'
  BY <1>6 DEF SuccessIsTheRecord
<1> QED
  BY <1>1, <1>5, <1>7 DEF ChainSettles

(* What the sweeps hold, when the rows keep their hashes. *)
LEMMA HandsKeep ==
    ASSUME RelayerTypeOK, HashInv, ChainSettles,
           \A s \in Slot : commitments'[s].txHash = commitments[s].txHash,
           \A w \in Submitter, s \in Slot :
              batch'[w][s] \in {batch[w][s], NoScore} \/ commitments[s].txHash = NoTx,
           \A w \in Submitter :
              sent'[w] = NoTx \/ (sent'[w] = sent[w] /\ batch'[w] = batch[w]),
           \A i \in Indexer, s \in Slot :
              checks'[i][s] \in {checks[i][s], commitments[s].txHash, NoTx}
    PROVE  BatchHasNoHash' /\ SentIsInBatch' /\ LooksUpItsRow'
<1>1. BatchHasNoHash'
  BY DEF HashInv, BatchHasNoHash
<1>2. SentIsInBatch'
  <2> SUFFICES ASSUME NEW w \in Submitter, sent'[w] # NoTx
               PROVE  batch'[w][txs'[sent'[w]].slot] # NoScore
    BY DEF SentIsInBatch
  <2>1. sent'[w] = sent[w] /\ batch'[w] = batch[w] /\ sent[w] \in Tx /\ txs[sent[w]] # Unsent
    BY DEF RelayerTypeOK
  <2>2. txs'[sent[w]].slot = txs[sent[w]].slot
    BY <2>1 DEF ChainSettles, ChainGrows
  <2> QED
    BY <2>1, <2>2 DEF HashInv, SentIsInBatch
<1>3. LooksUpItsRow'
  BY DEF HashInv, LooksUpItsRow
<1> QED
  BY <1>1, <1>2, <1>3

(* The rows, when they stay or one changes its status. *)
LEMMA RowsKeep ==
    ASSUME HashInv, ChainSettles, UNCHANGED commitments
    PROVE  NoRowNoHash' /\ ConfirmedSucceeded'
BY DEF HashInv, ChainSettles, NoRowNoHash, ConfirmedSucceeded

LEMMA StatusChanges ==
    ASSUME StoreTypeOK, HashInv, ChainSettles, NEW s \in Slot, NEW row,
           commitments' = [commitments EXCEPT ![s] = row],
           row.txHash = commitments[s].txHash, row.status # "none",
           row.status = "confirmed" => row.txHash \in Tx /\ Succeeded(row.txHash)
    PROVE  /\ \A r \in Slot : commitments'[r].txHash = commitments[r].txHash
           /\ NoRowNoHash' /\ ConfirmedSucceeded'
<1>1. commitments'[s] = row /\ \A r \in Slot : r # s => commitments'[r] = commitments[r]
  BY DEF StoreTypeOK
<1>2. NoRowNoHash'
  BY <1>1 DEF HashInv, NoRowNoHash
<1>3. ASSUME NEW r \in Slot, commitments'[r].status = "confirmed"
      PROVE  commitments'[r].txHash \in Tx /\ Succeeded(commitments[r].txHash)'
  <2>1. commitments'[r].txHash \in Tx /\ Succeeded(commitments'[r].txHash)
    <3>1. CASE r = s
      BY <1>1, <1>3, <3>1
    <3>2. CASE r # s
      BY <1>1, <1>3, <3>2 DEF HashInv, ConfirmedSucceeded
    <3> QED
      BY <3>1, <3>2
  <2> QED
    BY <2>1 DEF ChainSettles, Succeeded
<1>4. ConfirmedSucceeded'
  BY <1>3 DEF ConfirmedSucceeded
<1> QED
  BY <1>1, <1>2, <1>4

(* Giving up marks a row as failed and drops the submitter's batch. *)
LEMMA GiveUpKeepsHash ==
    ASSUME StoreTypeOK, RelayerTypeOK, HashInv, ChainSettles,
           NEW w \in Submitter, NEW s \in Slot, GiveUp(w, s)
    PROVE  HashInv'
<1> DEFINE row == [commitments[s] EXCEPT !.status = "failed"]
<1>1. commitments[s] \in Commitment
  BY DEF StoreTypeOK
<1>2. row.txHash = commitments[s].txHash /\ row.status = "failed"
  BY <1>1 DEF Commitment
<1>3. commitments' = [commitments EXCEPT ![s] = row] /\ UNCHANGED checks
  BY DEF GiveUp, setStatus
<1> HIDE DEF row
<1>4. /\ \A r \in Slot : commitments'[r].txHash = commitments[r].txHash
      /\ NoRowNoHash' /\ ConfirmedSucceeded'
  BY <1>2, <1>3, StatusChanges
<1>5. /\ \A v \in Submitter, r \in Slot : batch'[v][r] \in {batch[v][r], NoScore}
      /\ \A v \in Submitter : sent'[v] = NoTx \/ (sent'[v] = sent[v] /\ batch'[v] = batch[v])
  BY DEF GiveUp, EmptyBatch, RelayerTypeOK
<1>6. BatchHasNoHash' /\ SentIsInBatch' /\ LooksUpItsRow'
  BY <1>3, <1>4, <1>5, HandsKeep
<1> QED
  BY <1>4, <1>6 DEF HashInv, ChainSettles

LEMMA RelayerStepHash ==
    ASSUME OneSubmitter, StoreTypeOK, RelayerTypeOK, ConfirmedInv, HashInv, RelayerNext
    PROVE  HashInv'
<1>0. SuccessIsRecorded /\ SuccessIsTheRecord
  BY DEF ConfirmedInv, HashInv
(* No row changes. *)
<1>1. ASSUME UNCHANGED commitments, ChainSettles,
             \A w \in Submitter, s \in Slot :
                batch'[w][s] \in {batch[w][s], NoScore} \/ commitments[s].txHash = NoTx,
             \A w \in Submitter :
                sent'[w] = NoTx \/ (sent'[w] = sent[w] /\ batch'[w] = batch[w]),
             \A i \in Indexer, s \in Slot :
                checks'[i][s] \in {checks[i][s], commitments[s].txHash, NoTx}
      PROVE  HashInv'
  <2>1. BatchHasNoHash' /\ SentIsInBatch' /\ LooksUpItsRow'
    BY <1>1, HandsKeep
  <2>2. NoRowNoHash' /\ ConfirmedSucceeded'
    BY <1>1, RowsKeep
  <2> QED
    BY <1>1, <2>1, <2>2 DEF HashInv, ChainSettles
<1>2. ASSUME NEW s \in Slot, EndEpoch(s)
      PROVE  HashInv'
  BY <1>0, <1>1, <1>2, SettledStays DEF EndEpoch, dbvars
<1>3. ASSUME NEW w \in Submitter, SubmitScan(w) \/ SubmitterCrash(w)
      PROVE  HashInv'
  <2>1. UNCHANGED <<commitments, txs, ledger, checks>>
    BY <1>3 DEF SubmitScan, SubmitterCrash, dbvars
  <2>2. /\ \A v \in Submitter, s \in Slot :
              batch'[v][s] \in {batch[v][s], NoScore} \/ commitments[s].txHash = NoTx
        /\ \A v \in Submitter : sent'[v] = NoTx \/ (sent'[v] = sent[v] /\ batch'[v] = batch[v])
    <3>1. CASE SubmitScan(w)
      BY <3>1 DEF SubmitScan, Oldest, Submittable, RelayerTypeOK
    <3>2. CASE SubmitterCrash(w)
      BY <3>2 DEF SubmitterCrash, EmptyBatch, RelayerTypeOK
    <3> QED
      BY <1>3, <3>1, <3>2
  <2> QED
    BY <1>0, <1>1, <2>1, <2>2, SettledStays
<1>4. ASSUME NEW w \in Submitter, NEW s \in Slot, NEW t \in Tx, commitEpoch(w, s, t)
      PROVE  HashInv'
  <2>1. /\ NextToSend(w, s) /\ Broadcast(t, s, batch[w][s]) /\ sent' = [sent EXCEPT ![w] = t]
        /\ UNCHANGED <<commitments, batch, checks, ledger>>
    BY <1>4 DEF commitEpoch, dbvars
  <2>2. ChainSettles /\ txs'[t].slot = s
    BY <1>0, <2>1, BroadcastSettles
  <2>3. batch[w][s] # NoScore
    BY <2>1 DEF NextToSend, Oldest
  <2>4. SentIsInBatch'
    <3> SUFFICES ASSUME NEW v \in Submitter, sent'[v] # NoTx
                 PROVE  batch'[v][txs'[sent'[v]].slot] # NoScore
      BY DEF SentIsInBatch
    <3>1. CASE v = w
      BY <2>1, <2>2, <2>3, <3>1 DEF RelayerTypeOK
    <3>2. CASE v # w
      <4>1. sent'[v] = sent[v] /\ sent[v] \in Tx /\ txs[sent[v]] # Unsent
        BY <2>1, <3>2 DEF RelayerTypeOK
      <4>2. txs'[sent[v]].slot = txs[sent[v]].slot
        BY <2>2, <4>1 DEF ChainSettles, ChainGrows
      <4> QED
        BY <2>1, <4>1, <4>2 DEF HashInv, SentIsInBatch
    <3> QED
      BY <3>1, <3>2
  <2>5. NoRowNoHash' /\ ConfirmedSucceeded'
    BY <2>1, <2>2, RowsKeep
  <2>6. BatchHasNoHash' /\ LooksUpItsRow'
    BY <2>1 DEF HashInv, BatchHasNoHash, LooksUpItsRow
  <2> QED
    BY <2>2, <2>4, <2>5, <2>6 DEF HashInv, ChainSettles
<1>5. ASSUME NEW w \in Submitter, StoreTxHash(w)
      PROVE  HashInv'
  <2> DEFINE s == txs[sent[w]].slot
             row == [commitments[s] EXCEPT !.txHash = sent[w], !.status = "pending"]
  <2>1. sent[w] \in Tx /\ txs[sent[w]] # Unsent /\ s \in Slot
    BY <1>5 DEF StoreTxHash, RelayerTypeOK, TxState
  <2>2. commitments[s] \in Commitment /\ sent[w] # NoTx
    BY <2>1, StoreAssumption DEF StoreTypeOK
  <2>3. row.txHash = sent[w] /\ row.status = "pending"
    BY <2>2 DEF Commitment
  <2>4. commitments' = [commitments EXCEPT ![s] = row] /\ UNCHANGED <<txs, ledger, checks>>
    BY <1>5, <2>1 DEF StoreTxHash, StoreTypeOK, Commitment
  <2>5. batch' = [batch EXCEPT ![w][s] = NoScore] /\ sent' = [sent EXCEPT ![w] = NoTx]
    BY <1>5 DEF StoreTxHash
  <2>6. commitments[s].txHash = NoTx
    BY <2>1, <2>2 DEF HashInv, SentIsInBatch, BatchHasNoHash
  <2> HIDE DEF row, s
  <2>7. ChainSettles
    BY <1>0, <2>4, SettledStays
  <2>8. commitments'[s] = row /\ \A r \in Slot : r # s => commitments'[r] = commitments[r]
    BY <2>1, <2>4 DEF StoreTypeOK
  <2>9. \A v \in Submitter, r \in Slot : r # s => batch'[v][r] = batch[v][r]
    BY <2>5 DEF RelayerTypeOK
  <2>10. \A v \in Submitter : batch'[v][s] = NoScore /\ sent'[v] = NoTx
    BY <2>1, <2>5 DEF OneSubmitter, RelayerTypeOK
  <2>11. BatchHasNoHash' /\ SentIsInBatch'
    BY <2>8, <2>9, <2>10 DEF HashInv, BatchHasNoHash, SentIsInBatch
  <2>12. \A i \in Indexer : checks[i][s] = NoTx
    BY <2>1, <2>6 DEF HashInv, LooksUpItsRow
  <2>13. LooksUpItsRow'
    BY <2>4, <2>8, <2>12 DEF HashInv, LooksUpItsRow
  <2>14. NoRowNoHash'
    BY <2>3, <2>8 DEF HashInv, NoRowNoHash
  <2>15. ConfirmedSucceeded'
    BY <2>3, <2>4, <2>8 DEF HashInv, ConfirmedSucceeded, Succeeded
  <2> QED
    BY <2>7, <2>11, <2>13, <2>14, <2>15 DEF HashInv, ChainSettles
<1>6. ASSUME NEW w \in Submitter, NEW s \in Slot, SendFails(w, s)
      PROVE  HashInv'
  <2>1. UNCHANGED ledger /\ GiveUp(w, s)
    BY <1>6 DEF SendFails, GiveUp
  <2>2. ChainSettles
    <3>1. CASE UNCHANGED txs
      BY <1>0, <2>1, <3>1, SettledStays
    <3>2. CASE \E t \in Tx : Broadcast(t, s, batch[w][s])
      BY <1>0, <1>6, <2>1, <3>2, BroadcastSettles DEF SendFails
    <3> QED
      BY <1>6, <3>1, <3>2 DEF SendFails
  <2> QED
    BY <2>1, <2>2, GiveUpKeepsHash
<1>7. ASSUME NEW w \in Submitter, StoreFails(w)
      PROVE  HashInv'
  <2>1. txs[sent[w]].slot \in Slot
    BY <1>7 DEF StoreFails, RelayerTypeOK, TxState
  <2>2. ChainSettles
    BY <1>0, <1>7, SettledStays DEF StoreFails, GiveUp
  <2> QED
    BY <1>7, <2>1, <2>2, GiveUpKeepsHash DEF StoreFails
<1>7a. ASSUME NEW w \in Submitter, AuditFails(w)
       PROVE  HashInv'
  <2> DEFINE s == txs[sent[w]].slot
             row == [commitments[s] EXCEPT !.txHash = sent[w], !.status = "failed"]
  <2>1. sent[w] \in Tx /\ txs[sent[w]] # Unsent /\ s \in Slot
    BY <1>7a DEF AuditFails, RelayerTypeOK, TxState
  <2>2. commitments[s] \in Commitment /\ sent[w] # NoTx
    BY <2>1, StoreAssumption DEF StoreTypeOK
  <2>3. row.txHash = sent[w] /\ row.status = "failed"
    BY <2>2 DEF Commitment
  <2>4. commitments' = [commitments EXCEPT ![s] = row] /\ UNCHANGED <<txs, ledger, checks>>
    BY <1>7a, <2>1 DEF AuditFails, StoreTypeOK, Commitment
  <2>5. /\ \A r \in Slot : batch'[w][r] = NoScore
        /\ sent' = [sent EXCEPT ![w] = NoTx]
    BY <1>7a DEF AuditFails, EmptyBatch, RelayerTypeOK
  <2>6. commitments[s].txHash = NoTx
    BY <2>1, <2>2 DEF HashInv, SentIsInBatch, BatchHasNoHash
  <2> HIDE DEF row, s
  <2>7. ChainSettles
    BY <1>0, <2>4, SettledStays
  <2>8. commitments'[s] = row /\ \A r \in Slot : r # s => commitments'[r] = commitments[r]
    BY <2>1, <2>4 DEF StoreTypeOK
  <2>9. \A v \in Submitter : sent'[v] = NoTx /\ \A r \in Slot : batch'[v][r] = NoScore
    BY <2>5 DEF OneSubmitter, RelayerTypeOK
  <2>10. BatchHasNoHash' /\ SentIsInBatch'
    BY <2>9 DEF BatchHasNoHash, SentIsInBatch
  <2>11. \A i \in Indexer : checks[i][s] = NoTx
    BY <2>1, <2>6 DEF HashInv, LooksUpItsRow
  <2>12. LooksUpItsRow'
    BY <2>4, <2>8, <2>11 DEF HashInv, LooksUpItsRow
  <2>13. NoRowNoHash'
    BY <2>3, <2>8 DEF HashInv, NoRowNoHash
  <2>14. ConfirmedSucceeded'
    BY <2>3, <2>4, <2>8 DEF HashInv, ConfirmedSucceeded, Succeeded
  <2> QED
    BY <2>7, <2>10, <2>12, <2>13, <2>14 DEF HashInv, ChainSettles
<1>8. ASSUME NEW i \in Indexer, IndexScan(i) \/ IndexerCrash(i)
      PROVE  HashInv'
  <2>1. UNCHANGED <<txs, ledger, commitments, batch, sent>>
    BY <1>8 DEF IndexScan, IndexerCrash, dbvars
  <2>2. \A j \in Indexer, s \in Slot :
          checks'[j][s] \in {checks[j][s], commitments[s].txHash, NoTx}
    <3>1. CASE IndexScan(i)
      BY <3>1 DEF IndexScan, RelayerTypeOK
    <3>2. CASE IndexerCrash(i)
      BY <3>2 DEF IndexerCrash, RelayerTypeOK, NoChecks
    <3> QED
      BY <1>8, <3>1, <3>2
  <2> QED
    BY <1>0, <1>1, <2>1, <2>2, SettledStays
<1>9. ASSUME NEW i \in Indexer, NEW s \in Slot, IndexRow(i, s)
      PROVE  HashInv'
  <2> DEFINE t == checks[i][s]
  <2>1. t \in Tx /\ t # NoTx
    BY <1>9 DEF IndexRow, Oldest, RelayerTypeOK
  <2>2. txs[t] # Unsent /\ commitments[s].txHash = t
    BY <2>1 DEF ConfirmedInv, HashesBelong, BelongsTo, HashInv, LooksUpItsRow
  <2>3. ChainSettles /\ UNCHANGED <<batch, sent>>
    BY <1>0, <1>9, SettledStays DEF IndexRow
  <2>4. \A j \in Indexer, r \in Slot : checks'[j][r] \in {checks[j][r], NoTx}
    BY <1>9 DEF IndexRow, RelayerTypeOK
  <2>5. CASE UNCHANGED commitments
    BY <1>1, <2>3, <2>4, <2>5
  <2>6. ASSUME NEW st \in {"confirmed", "failed"},
               st = "confirmed" => txs[t].status = "success", setStatus(s, st)
        PROVE  HashInv'
    <3> DEFINE row == [commitments[s] EXCEPT !.status = st]
    <3>1. row.txHash = commitments[s].txHash /\ row.status = st
      BY DEF StoreTypeOK, Commitment
    <3>2. commitments' = [commitments EXCEPT ![s] = row]
      BY <2>6 DEF setStatus
    <3>3. row.status # "none" /\ (row.status = "confirmed" => row.txHash \in Tx /\ Succeeded(row.txHash))
      BY <2>1, <2>2, <2>6, <3>1 DEF Succeeded
    <3> HIDE DEF row
    <3>4. /\ \A r \in Slot : commitments'[r].txHash = commitments[r].txHash
          /\ NoRowNoHash' /\ ConfirmedSucceeded'
      BY <2>3, <3>1, <3>2, <3>3, StatusChanges
    <3>5. BatchHasNoHash' /\ SentIsInBatch' /\ LooksUpItsRow'
      BY <2>3, <2>4, <3>4, HandsKeep
    <3> QED
      BY <2>3, <3>4, <3>5 DEF HashInv, ChainSettles
  <2>7. \/ UNCHANGED commitments
        \/ txs[t].status = "success" /\ setStatus(s, "confirmed")
        \/ setStatus(s, "failed")
    BY <1>9 DEF IndexRow, confirmationUpdateFromReceipt
  <2> QED
    BY <2>5, <2>6, <2>7
<1>10. ASSUME NEW t \in Tx, Mine(t) \/ Drop(t)
       PROVE  HashInv'
  <2>1. ChainSettles
    BY <1>0, <1>10, MineSettles
  <2>2. UNCHANGED <<commitments, checks, batch, sent>>
    BY <1>10 DEF Mine, Drop, dbvars
  <2> QED
    BY <1>1, <2>1, <2>2
<1> QED
  BY <1>2, <1>3, <1>4, <1>5, <1>6, <1>7, <1>7a, <1>8, <1>9, <1>10
     DEF RelayerNext, SubmitterStep, IndexerStep

(* A task that queues an epoch leaves every row its hash, and confirms none. *)
LEMMA QueueingKeepsHashes ==
    ASSUME StoreTypeOK, ConfirmedInv, HashInv, UNCHANGED <<txs, ledger>>, NEW t \in Task, QueueCommitment(t)
    PROVE  /\ \A r \in Slot : commitments'[r].txHash = commitments[r].txHash
           /\ NoRowNoHash' /\ ConfirmedSucceeded'
<1> DEFINE s == SlotOf[t[2]]
           new == [status |-> "pending", txHash |-> NoTx,
                   createdAt |-> Cardinality({r \in Slot : Exists(r)})]
           row == IF Exists(s) THEN [commitments[s] EXCEPT !.status = "pending"] ELSE new
<1>1. s \in Slot
  BY StoreAssumption DEF Task
<1>2. commitments[s] \in Commitment
  BY <1>1 DEF StoreTypeOK
<1>3. commitments' = [commitments EXCEPT ![s] = row]
  BY DEF QueueCommitment, upsertPendingCommitment
<1>4. row.status = "pending" /\ row.txHash = commitments[s].txHash
  BY <1>1, <1>2 DEF Commitment, Exists, HashInv, NoRowNoHash
<1>5. ChainSettles
  BY SettledStays DEF ConfirmedInv, HashInv
<1> HIDE DEF row, s
<1> QED
  BY <1>1, <1>3, <1>4, <1>5, StatusChanges

LEMMA OtherStepsKeepRows ==
    ASSUME PipelineNext, \A t \in Task : ~QueueCommitment(t)
    PROVE  UNCHANGED commitments
  BY DEF PipelineNext, CandidateStep, TaskStep, Detect, Decide,
         enqueueAgentReviewJob, StartJob, persistOrchestrationResult,
         resolveReviewDecision, SelectApproved, UpsertScore, Abort,
         RestartApi, dbvars

LEMMA PipelineStepKeepsHashes ==
    ASSUME StoreTypeOK, ConfirmedInv, HashInv, PipelineNext, UNCHANGED relayervars
    PROVE  \A s \in Slot : commitments'[s].txHash = commitments[s].txHash
  BY QueueingKeepsHashes, OtherStepsKeepRows DEF relayervars

LEMMA PipelineStepHash ==
    ASSUME StoreTypeOK, RelayerTypeOK, ConfirmedInv, HashInv, PipelineNext,
           UNCHANGED relayervars
    PROVE  HashInv'
<1>1. ChainSettles /\ UNCHANGED <<checks, batch, sent, txs, ledger>>
  BY SettledStays DEF relayervars, ConfirmedInv, HashInv
<1>2. CASE \E t \in Task : QueueCommitment(t)
  <2>1. /\ \A s \in Slot : commitments'[s].txHash = commitments[s].txHash
        /\ NoRowNoHash' /\ ConfirmedSucceeded'
    BY <1>1, <1>2, QueueingKeepsHashes
  <2>2. BatchHasNoHash' /\ SentIsInBatch' /\ LooksUpItsRow'
    BY <1>1, <2>1, HandsKeep
  <2> QED
    BY <1>1, <2>1, <2>2 DEF HashInv, ChainSettles
<1>3. CASE \A t \in Task : ~QueueCommitment(t)
  <2>1. UNCHANGED commitments
    BY <1>3, OtherStepsKeepRows
  <2>2. BatchHasNoHash' /\ SentIsInBatch' /\ LooksUpItsRow'
    BY <1>1, <2>1, HandsKeep
  <2> QED
    BY <1>1, <2>1, <2>2, RowsKeep DEF HashInv, ChainSettles
<1> QED
  BY <1>2, <1>3

LEMMA HashInvProven == OneSubmitter => (Spec => []HashInv)
<1> SUFFICES ASSUME OneSubmitter PROVE Spec => []HashInv
  OBVIOUS
<1>1. Init => HashInv
  BY DEF Init, PipelineInit, StoreInit, RelayerInit, HashInv, SuccessIsTheRecord, Succeeded,
         BatchHasNoHash, SentIsInBatch, LooksUpItsRow, NoRowNoHash, ConfirmedSucceeded,
         NoCommitment, NoChecks, EmptyBatch, Unsent
<1>2. TypeOK /\ ConfirmedInv /\ HashInv /\ [Next]_vars => HashInv'
  <2>1. CASE UNCHANGED vars
    BY <2>1 DEF vars, dbvars, relayervars, HashInv, SuccessIsTheRecord, Succeeded,
                BatchHasNoHash, SentIsInBatch, LooksUpItsRow, NoRowNoHash, ConfirmedSucceeded
  <2> QED
    BY <2>1, RelayerStepHash, PipelineStepHash DEF Next, TypeOK, PipelineTypeOK
<1> QED
  BY <1>1, <1>2, ConfirmedInvProven, OnlyVettedProven, PTL DEF Spec

(* The hash shown with a confirmed commitment is that of the transaction    *)
(* that put the slot's score on the ledger, if one sweep submits at a time: *)
(* any number of sweeps may index, and every step of the chain, the         *)
(* database or a process may fail (blockchain/service.ts).                  *)
THEOREM ConfirmedHashProven == OneSubmitter => (Spec => []ConfirmedHashSucceeded)
<1>1. TypeOK /\ ConfirmedInv /\ HashInv => ConfirmedHashSucceeded
  <2> SUFFICES ASSUME ConfirmedInv, HashInv, NEW s \in Slot, commitments[s].status = "confirmed"
               PROVE  \E t \in Tx : /\ commitments[s].txHash = t
                                    /\ txs[t].status = "success"
                                    /\ txs[t].slot = s /\ txs[t].score = ledger[s]
    BY DEF ConfirmedHashSucceeded
  <2>1. commitments[s].txHash \in Tx /\ Succeeded(commitments[s].txHash)
    BY DEF HashInv, ConfirmedSucceeded
  <2>2. commitments[s].txHash # NoTx
    BY <2>1, StoreAssumption
  <2>3. txs[commitments[s].txHash].slot = s
    BY <2>2 DEF ConfirmedInv, HashesBelong, BelongsTo
  <2> QED
    BY <2>1, <2>3 DEF HashInv, SuccessIsTheRecord, Succeeded
<1> QED
  BY <1>1, HashInvProven, ConfirmedInvProven, OnlyVettedProven, PTL

-----------------------------------------------------------------------------
(* An approval is not forgotten, when nothing fails *)

NothingFails == OneSubmitter /\ Faults \subseteq {"redis"} /\ ChainFaults = {}

(* Where a task of a candidate begins, no task of it has begun. *)
DetectedFirst == \A c \in Candidate : c \notin detected => pc[<<"api", c>>] = "idle"
ApprovalsQueued ==
    \A c \in Candidate \ Preview :
        approvers[c] # {} => Exists(SlotOf[c]) \/ AboutToQueue(SlotOf[c])
(* A task that comes to queue an epoch has stored its score. *)
ScoresKept ==
    /\ \A t \in Task : pc[t] = "score" => readVotes[t] # NoScore
    /\ \A t \in Task : pc[t] = "commit" => scores[SlotOf[t[2]]] # NoScore
    /\ \A s \in Slot : Exists(s) => scores[s] # NoScore
TasksInv == DetectedFirst /\ ApprovalsQueued /\ ScoresKept

(* Every transaction is known to its row or to its submitter, so a slot has *)
(* one at most, and nothing ever reverts.                                   *)
Held(t) ==
    commitments[txs[t].slot].txHash = t \/ \E w \in Submitter : sent[w] = t
NoneLost ==
    \A t \in Tx : txs[t] # Unsent => txs[t].status \in {"mempool", "success"} /\ Held(t)
NoneFailed == \A s \in Slot : commitments[s].status # "failed"
RecordHasSuccess ==
    \A s \in Slot : ~Chain!isFree(s) => \E t \in Tx : Succeeded(t) /\ txs[t].slot = s
BatchExists == \A w \in Submitter, s \in Slot : batch[w][s] # NoScore => Exists(s)
SweepsInv == NoneLost /\ NoneFailed /\ RecordHasSuccess /\ BatchExists

Queueing == {"recompute", "score", "commit"}

LEMMA OtherTask ==
    ASSUME NEW c, NEW t, t[1] = "api" => t[2] # c
    PROVE  <<"api", c>> # t
<1> DEFINE u == <<"api", c>>
<1>1. u[1] = "api" /\ u[2] = c
  OBVIOUS
<1> HIDE DEF u
<1>2. u # t
  BY <1>1
<1>3. QED BY <1>2 DEF u

(* A jump of one task, unless it leaves the steps that lead to the queue.   *)
LEMMA StaysAboutToQueue ==
    ASSUME PipelineTypeOK, NEW t \in Task, NEW step, Goto(t, step),
           NEW s \in Slot, AboutToQueue(s),
           pc[t] \in Queueing => step \in Queueing \/ SlotOf[t[2]] # s
    PROVE  AboutToQueue(s)'
<1>1. PICK u \in Task : SlotOf[u[2]] = s /\ pc[u] \in Queueing
  BY DEF AboutToQueue, Queueing
<1>2. pc'[u] \in Queueing
  BY <1>1, GotoFrame
<1>3. QED BY <1>1, <1>2 DEF AboutToQueue, Queueing

(* What the tasks keep when no row and no approval changes: a task goes on, *)
(* and what it holds or has stored is a score.                              *)
LEMMA TaskGoesOn ==
    ASSUME PipelineTypeOK, TasksInv, NEW t \in Task, NEW step, Goto(t, step),
           UNCHANGED <<commitments, scores, approvers>>,
           pc[t] \in Queueing => step \in Queueing,
           t[1] = "api" => t[2] \in detected',
           detected \subseteq detected',
           \A u \in Task : u # t => readVotes'[u] = readVotes[u],
           step = "score" => readVotes'[t] # NoScore,
           step # "commit"
    PROVE  TasksInv'
<1>1. pc'[t] = step /\ \A u \in Task : u # t => pc'[u] = pc[u]
  BY GotoFrame
<1>2. \A s \in Slot : Exists(s)' = Exists(s)
  BY DEF Exists
<1>3. DetectedFirst'
  <2> SUFFICES ASSUME NEW c \in Candidate, c \notin detected' PROVE pc'[<<"api", c>>] = "idle"
    BY DEF DetectedFirst
  <2>1. <<"api", c>> \in Task /\ c \notin detected
    BY Tasks
  <2>2. <<"api", c>> # t
    BY OtherTask
  <2>3. QED BY <1>1, <2>1, <2>2 DEF TasksInv, DetectedFirst
<1>4. ApprovalsQueued'
  <2> SUFFICES ASSUME NEW c \in Candidate \ Preview, approvers'[c] # {}
               PROVE  Exists(SlotOf[c])' \/ AboutToQueue(SlotOf[c])'
    BY DEF ApprovalsQueued
  <2>1. SlotOf[c] \in Slot
    BY StoreAssumption
  <2>2. Exists(SlotOf[c]) \/ AboutToQueue(SlotOf[c])
    BY DEF TasksInv, ApprovalsQueued
  <2>3. QED BY <1>2, <2>1, <2>2, StaysAboutToQueue
<1>5. ScoresKept'
  BY <1>1, <1>2 DEF TasksInv, ScoresKept
<1>6. QED BY <1>3, <1>4, <1>5 DEF TasksInv

(* A verdict: an approval makes its task go on to the queue, a preview's    *)
(* aside.                                                                   *)
LEMMA VerdictGoesOn ==
    ASSUME PipelineTypeOK, TasksInv, NEW c \in Candidate, NEW t \in Task, t[2] = c,
           NEW step, Goto(t, step), pc[t] \notin Queueing, step \notin {"score", "commit"},
           UNCHANGED <<commitments, scores, readVotes, detected>>,
           \A d \in Candidate : d # c => approvers'[d] = approvers[d],
           approvers'[c] = approvers[c] \/ c \in Preview \/ step = "recompute",
           t[1] = "api" => c \in detected
    PROVE  TasksInv'
<1>1. pc'[t] = step /\ \A u \in Task : u # t => pc'[u] = pc[u]
  BY GotoFrame
<1>2. \A s \in Slot : Exists(s)' = Exists(s)
  BY DEF Exists
<1>3. DetectedFirst'
  <2> SUFFICES ASSUME NEW d \in Candidate, d \notin detected' PROVE pc'[<<"api", d>>] = "idle"
    BY DEF DetectedFirst
  <2>1. <<"api", d>> \in Task /\ d \notin detected
    BY Tasks
  <2>2. <<"api", d>> # t
    BY OtherTask
  <2>3. QED BY <1>1, <2>1, <2>2 DEF TasksInv, DetectedFirst
<1>4. ApprovalsQueued'
  <2> SUFFICES ASSUME NEW d \in Candidate \ Preview, approvers'[d] # {}
               PROVE  Exists(SlotOf[d])' \/ AboutToQueue(SlotOf[d])'
    BY DEF ApprovalsQueued
  <2>1. SlotOf[d] \in Slot
    BY StoreAssumption
  <2>2. CASE approvers[d] # {}
    <3>1. Exists(SlotOf[d]) \/ AboutToQueue(SlotOf[d])
      BY <2>2 DEF TasksInv, ApprovalsQueued
    <3>2. QED BY <1>2, <2>1, <3>1, StaysAboutToQueue
  <2>3. CASE approvers[d] = {}
    <3>1. d = c /\ step = "recompute"
      BY <2>3
    <3>2. QED BY <1>1, <3>1 DEF AboutToQueue
  <2>4. QED BY <2>2, <2>3
<1>5. ScoresKept'
  BY <1>1, <1>2 DEF TasksInv, ScoresKept
<1>6. QED BY <1>3, <1>4, <1>5 DEF TasksInv

(* The last step of an approval: the row is there from now on. *)
LEMMA QueueingQueues ==
    ASSUME PipelineTypeOK, TasksInv, NEW t \in Task, QueueCommitment(t)
    PROVE  /\ TasksInv'
           /\ \A s \in Slot : Exists(s) => Exists(s)'
           /\ \A s \in Slot : commitments'[s].status \in {commitments[s].status, "pending"}
<1> DEFINE s == SlotOf[t[2]]
<1>1. s \in Slot /\ pc[t] = "commit" /\ Goto(t, "idle")
  BY StoreAssumption DEF Task, QueueCommitment
<1>2. /\ upsertPendingCommitment(s)
      /\ UNCHANGED <<scores, approvers, detected, readVotes>>
  BY DEF QueueCommitment
<1>3. /\ commitments'[s].status = "pending"
      /\ \A r \in Slot : r # s => commitments'[r] = commitments[r]
  <2> DEFINE new == [status |-> "pending", txHash |-> NoTx,
                     createdAt |-> Cardinality({r \in Slot : Exists(r)})]
             row == IF Exists(s) THEN [commitments[s] EXCEPT !.status = "pending"] ELSE new
  <2>1. commitments' = [commitments EXCEPT ![s] = row]
    BY <1>2 DEF upsertPendingCommitment
  <2>2. row.status = "pending"
    BY <1>1 DEF PipelineTypeOK, StoreTypeOK, Commitment
  <2> HIDE DEF row
  <2>3. QED BY <1>1, <2>1, <2>2 DEF PipelineTypeOK, StoreTypeOK
<1> HIDE DEF s
<1>4. Exists(s)' /\ \A r \in Slot : r # s => Exists(r)' = Exists(r)
  BY <1>1, <1>3 DEF Exists
<1>5. pc'[t] = "idle" /\ \A u \in Task : u # t => pc'[u] = pc[u]
  BY <1>1, GotoFrame
<1>6. DetectedFirst'
  BY <1>2, <1>5, Tasks DEF TasksInv, DetectedFirst
<1>7. ApprovalsQueued'
  <2> SUFFICES ASSUME NEW c \in Candidate \ Preview, approvers'[c] # {}
               PROVE  Exists(SlotOf[c])' \/ AboutToQueue(SlotOf[c])'
    BY DEF ApprovalsQueued
  <2>1. SlotOf[c] \in Slot /\ approvers[c] # {}
    BY <1>2, StoreAssumption
  <2>2. CASE SlotOf[c] = s
    BY <1>4, <2>2
  <2>3. CASE SlotOf[c] # s
    <3>1. Exists(SlotOf[c]) \/ AboutToQueue(SlotOf[c])
      BY <2>1 DEF TasksInv, ApprovalsQueued
    <3>2. CASE Exists(SlotOf[c])
      BY <1>4, <2>1, <2>3, <3>2
    <3>3. CASE AboutToQueue(SlotOf[c])
      BY <1>1, <2>1, <2>3, <3>3, StaysAboutToQueue DEF s
    <3>4. QED BY <3>1, <3>2, <3>3
  <2>4. QED BY <2>2, <2>3
<1>8. ScoresKept'
  <2>1. scores[s] # NoScore
    BY <1>1 DEF TasksInv, ScoresKept, s
  <2>2. QED BY <1>2, <1>4, <1>5, <2>1 DEF TasksInv, ScoresKept
<1>9. \A r \in Slot : Exists(r) => Exists(r)'
  BY <1>4
<1>10. \A r \in Slot : commitments'[r].status \in {commitments[r].status, "pending"}
  BY <1>3
<1>11. QED BY <1>6, <1>7, <1>8, <1>9, <1>10 DEF TasksInv

(* The upsert of the score: the epoch has one from now on. *)
LEMMA ScoringGoesOn ==
    ASSUME PipelineTypeOK, TasksInv, NEW t \in Task, UpsertScore(t)
    PROVE  TasksInv'
<1> DEFINE s == SlotOf[t[2]]
<1>1. s \in Slot /\ pc[t] = "score" /\ Goto(t, "commit")
  BY StoreAssumption DEF Task, UpsertScore
<1>2. /\ scores' = [scores EXCEPT ![s] = readVotes[t]]
      /\ readVotes' = [readVotes EXCEPT ![t] = NoScore]
      /\ UNCHANGED <<commitments, approvers, detected>>
  BY DEF UpsertScore, upsertEpochScore
<1>3. pc'[t] = "commit" /\ \A u \in Task : u # t => pc'[u] = pc[u]
  BY <1>1, GotoFrame
<1>4. readVotes[t] # NoScore
  BY <1>1 DEF TasksInv, ScoresKept
<1>5. scores'[s] # NoScore /\ \A r \in Slot : r # s => scores'[r] = scores[r]
  BY <1>1, <1>2, <1>4 DEF PipelineTypeOK, StoreTypeOK
<1>6. \A r \in Slot : Exists(r)' = Exists(r)
  BY <1>2 DEF Exists
<1>7. DetectedFirst'
  BY <1>1, <1>2, <1>3, Tasks DEF TasksInv, DetectedFirst
<1>8. ApprovalsQueued'
  <2> SUFFICES ASSUME NEW c \in Candidate \ Preview, approvers'[c] # {}
               PROVE  Exists(SlotOf[c])' \/ AboutToQueue(SlotOf[c])'
    BY DEF ApprovalsQueued
  <2>1. SlotOf[c] \in Slot
    BY StoreAssumption
  <2>2. Exists(SlotOf[c]) \/ AboutToQueue(SlotOf[c])
    BY <1>2 DEF TasksInv, ApprovalsQueued
  <2>3. QED BY <1>1, <1>6, <2>1, <2>2, StaysAboutToQueue DEF Queueing
<1>9. ScoresKept'
  <2>1. \A u \in Task : pc'[u] = "score" => readVotes'[u] # NoScore
    BY <1>2, <1>3 DEF TasksInv, ScoresKept, PipelineTypeOK
  <2>2. \A u \in Task : pc'[u] = "commit" => scores'[SlotOf[u[2]]] # NoScore
    <3> SUFFICES ASSUME NEW u \in Task, pc'[u] = "commit" PROVE scores'[SlotOf[u[2]]] # NoScore
      OBVIOUS
    <3>1. SlotOf[u[2]] \in Slot
      BY StoreAssumption DEF Task
    <3>2. CASE u = t
      BY <1>5, <3>2
    <3>3. CASE u # t
      BY <1>3, <1>5, <3>1, <3>3 DEF TasksInv, ScoresKept
    <3>4. QED BY <3>2, <3>3
  <2>3. \A r \in Slot : Exists(r)' => scores'[r] # NoScore
    BY <1>5, <1>6 DEF TasksInv, ScoresKept
  <2>4. QED BY <2>1, <2>2, <2>3 DEF ScoresKept
<1>10. QED BY <1>7, <1>8, <1>9 DEF TasksInv

(* Every step of a task keeps the approvals on their way, and of the rows   *)
(* it changes it leaves none failed.                                        *)
LEMMA PipelineStepKeepsWay ==
    ASSUME NothingFails, PipelineTypeOK, TasksInv, PipelineNext
    PROVE  /\ TasksInv'
           /\ \A s \in Slot : Exists(s) => Exists(s)'
           /\ \A s \in Slot : commitments'[s].status \in {commitments[s].status, "pending"}
<1> DEFINE Kept == /\ TasksInv'
                   /\ \A s \in Slot : Exists(s) => Exists(s)'
                   /\ \A s \in Slot : commitments'[s].status \in {commitments[s].status, "pending"}
<1>1. ASSUME TasksInv', UNCHANGED commitments PROVE Kept
  BY <1>1 DEF Exists
<1>2. ASSUME NEW c \in Candidate, Detect(c) PROVE Kept
  <2>1. <<"api", c>> \in Task /\ pc[<<"api", c>>] = "idle"
    BY <1>2, Tasks DEF Detect, TasksInv, DetectedFirst
  <2>2. /\ Goto(<<"api", c>>, "decide") /\ detected' = detected \cup {c}
        /\ UNCHANGED <<commitments, scores, approvers, readVotes>>
    BY <1>2 DEF Detect, dbvars
  <2>3. TasksInv'
    BY <2>1, <2>2, TaskGoesOn DEF Queueing
  <2>4. QED BY <1>1, <2>2, <2>3
<1>3. ASSUME NEW c \in Candidate, Decide(c) PROVE Kept
  <2> DEFINE t == <<"api", c>>
             verdict == decisionForConfidence(Confidence[c])
             step == IF verdict = "escalate" THEN "enqueue"
                     ELSE IF verdict = "approve" /\ c \notin Preview THEN "recompute"
                     ELSE "idle"
  <2>1. t \in Task /\ t[2] = c /\ pc[t] = "decide"
    BY <1>3, Tasks DEF Decide
  <2>2. /\ Goto(t, step)
        /\ approvers' = IF verdict = "approve"
                          THEN [approvers EXCEPT ![c] = @ \cup {"gate"}] ELSE approvers
        /\ UNCHANGED <<commitments, scores, readVotes, detected>>
    BY <1>3 DEF Decide, Record
  <2>3. c \in detected
    BY <2>1 DEF TasksInv, DetectedFirst
  <2>4. /\ \A d \in Candidate : d # c => approvers'[d] = approvers[d]
        /\ approvers'[c] = approvers[c] \/ c \in Preview \/ step = "recompute"
    BY <2>2 DEF PipelineTypeOK
  <2>5. step \notin {"score", "commit"} /\ pc[t] \notin Queueing
    BY <2>1 DEF Queueing
  <2> HIDE DEF step, t
  <2>6. TasksInv'
    BY <2>1, <2>2, <2>3, <2>4, <2>5, VerdictGoesOn
  <2>7. QED BY <1>1, <2>2, <2>6
<1>4. ASSUME NEW c \in Candidate, enqueueAgentReviewJob(c) PROVE Kept
  <2>1. <<"api", c>> \in Task /\ pc[<<"api", c>>] = "enqueue"
    BY <1>4, Tasks DEF enqueueAgentReviewJob
  <2>2. /\ Goto(<<"api", c>>, "idle")
        /\ UNCHANGED <<commitments, scores, approvers, readVotes, detected>>
    BY <1>4 DEF enqueueAgentReviewJob, dbvars
  <2>3. c \in detected
    BY <2>1 DEF TasksInv, DetectedFirst
  <2>4. TasksInv'
    BY <2>1, <2>2, <2>3, TaskGoesOn DEF Queueing
  <2>5. QED BY <1>1, <2>2, <2>4
<1>5. ASSUME NEW c \in Candidate, StartJob(c) PROVE Kept
  <2>1. <<"worker", c>> \in Task /\ pc[<<"worker", c>>] = "idle"
    BY <1>5, Tasks DEF StartJob
  <2>2. /\ Goto(<<"worker", c>>, "decide")
        /\ UNCHANGED <<commitments, scores, approvers, readVotes, detected>>
    BY <1>5 DEF StartJob, dbvars
  <2>3. TasksInv'
    BY <2>1, <2>2, TaskGoesOn DEF Queueing
  <2>4. QED BY <1>1, <2>2, <2>3
<1>6. ASSUME NEW c \in Candidate, NEW verdict \in Verdict,
             persistOrchestrationResult(c, verdict)
      PROVE  Kept
  <2> DEFINE t == <<"worker", c>>
             step == IF verdict = "approve" /\ c \notin Preview THEN "recompute" ELSE "idle"
  <2>1. t \in Task /\ t[1] = "worker" /\ t[2] = c /\ pc[t] = "decide"
    BY <1>6, Tasks DEF persistOrchestrationResult
  <2>2. /\ Goto(t, step)
        /\ approvers' = IF verdict = "approve"
                          THEN [approvers EXCEPT ![c] = @ \cup {"ai"}] ELSE approvers
        /\ UNCHANGED <<commitments, scores, readVotes, detected>>
    BY <1>6 DEF persistOrchestrationResult, Record
  <2>3. /\ \A d \in Candidate : d # c => approvers'[d] = approvers[d]
        /\ approvers'[c] = approvers[c] \/ c \in Preview \/ step = "recompute"
    BY <2>2 DEF PipelineTypeOK
  <2>4. step \notin {"score", "commit"} /\ pc[t] \notin Queueing
    BY <2>1 DEF Queueing
  <2> HIDE DEF step, t
  <2>5. TasksInv'
    BY <2>1, <2>2, <2>3, <2>4, VerdictGoesOn
  <2>6. QED BY <1>1, <2>2, <2>5
<1>7. ASSUME NEW c \in Candidate, NEW r \in Reviewer, NEW a \in Agent,
             NEW verdict \in {"approve", "reject"}, resolveReviewDecision(r, c, a, verdict)
      PROVE  Kept
  <2> DEFINE t == <<r, c>>
             step == IF verdict = "approve" THEN "recompute" ELSE "idle"
  <2>1. t \in Task /\ t[1] # "api" /\ t[2] = c /\ pc[t] = "idle"
    BY <1>7, Tasks DEF resolveReviewDecision
  <2>2. /\ Goto(t, step)
        /\ approvers' = IF verdict = "approve"
                          THEN [approvers EXCEPT ![c] = @ \cup {"human"}] ELSE approvers
        /\ UNCHANGED <<commitments, scores, readVotes, detected>>
    BY <1>7 DEF resolveReviewDecision, Record
  <2>3. /\ \A d \in Candidate : d # c => approvers'[d] = approvers[d]
        /\ approvers'[c] = approvers[c] \/ c \in Preview \/ step = "recompute"
    BY <2>2 DEF PipelineTypeOK
  <2>4. step \notin {"score", "commit"} /\ pc[t] \notin Queueing
    BY <2>1 DEF Queueing
  <2> HIDE DEF step, t
  <2>5. TasksInv'
    BY <2>1, <2>2, <2>3, <2>4, VerdictGoesOn
  <2>6. QED BY <1>1, <2>2, <2>5
<1>8. ASSUME NEW t \in Task, SelectApproved(t) PROVE Kept
  <2>1. pc[t] = "recompute" /\ t[2] \in Candidate
    BY <1>8 DEF SelectApproved, Task
  <2>2. /\ Goto(t, "score") /\ readVotes' = [readVotes EXCEPT ![t] = votesFor(t)]
        /\ UNCHANGED <<commitments, scores, approvers, detected>>
    BY <1>8 DEF SelectApproved, dbvars
  <2>3. /\ readVotes'[t] # NoScore
        /\ \A u \in Task : u # t => readVotes'[u] = readVotes[u]
    BY <2>2, VotesForType, StoreAssumption DEF PipelineTypeOK
  <2>4. t[1] = "api" => t[2] \in detected
    <3> SUFFICES ASSUME t[1] = "api" PROVE t[2] \in detected
      OBVIOUS
    <3>1. t = <<"api", t[2]>>
      BY DEF Task
    <3>2. QED BY <2>1, <3>1 DEF TasksInv, DetectedFirst
  <2>5. TasksInv'
    BY <2>1, <2>2, <2>3, <2>4, TaskGoesOn DEF Queueing
  <2>6. QED BY <1>1, <2>2, <2>5
<1>9. ASSUME NEW t \in Task, UpsertScore(t) PROVE Kept
  BY <1>1, <1>9, ScoringGoesOn DEF UpsertScore
<1>10. ASSUME NEW t \in Task, QueueCommitment(t) PROVE Kept
  BY <1>10, QueueingQueues
<1>11. ~RestartApi /\ \A t \in Task : ~Abort(t)
  BY DEF NothingFails, RestartApi, Abort
<1>12. QED
  BY <1>2, <1>3, <1>4, <1>5, <1>6, <1>7, <1>8, <1>9, <1>10, <1>11
     DEF PipelineNext, CandidateStep, TaskStep

(* The tasks' part of the invariant, when only rows change and none goes.   *)
LEMMA RowsKeepTasks ==
    ASSUME TasksInv, UNCHANGED <<taskvars, scores>>,
           \A s \in Slot : Exists(s)' = Exists(s)
    PROVE  TasksInv'
<1>1. UNCHANGED <<detected, pc, readVotes, approvers>>
  BY DEF taskvars
<1>2. \A s \in Slot : AboutToQueue(s)' = AboutToQueue(s)
  BY <1>1 DEF AboutToQueue
<1>3. ApprovalsQueued'
  BY <1>1, <1>2, StoreAssumption DEF TasksInv, ApprovalsQueued
<1>4. DetectedFirst' /\ ScoresKept'
  BY <1>1 DEF TasksInv, DetectedFirst, ScoresKept
<1>5. QED BY <1>3, <1>4 DEF TasksInv

(* The sweeps' part, when the chain and what is sent stay.                  *)
LEMMA RowsKeepSweeps ==
    ASSUME SweepsInv, RelayerTypeOK, UNCHANGED <<sent, txs, ledger>>,
           \A s \in Slot : commitments'[s].txHash = commitments[s].txHash,
           \A s \in Slot : commitments'[s].status # "failed",
           \A s \in Slot : Exists(s) => Exists(s)',
           \A w \in Submitter, s \in Slot : batch'[w][s] # NoScore => Exists(s)
    PROVE  SweepsInv'
<1>1. NoneLost'
  <2> SUFFICES ASSUME NEW t \in Tx, txs[t] # Unsent
               PROVE  txs'[t].status \in {"mempool", "success"} /\ Held(t)'
    BY DEF NoneLost
  <2>1. txs[t].slot \in Slot
    BY DEF RelayerTypeOK, TxState
  <2>2. txs[t].status \in {"mempool", "success"} /\ Held(t)
    BY DEF SweepsInv, NoneLost
  <2>3. QED BY <2>1, <2>2 DEF Held
<1>2. NoneFailed'
  BY DEF NoneFailed
<1>3. RecordHasSuccess'
  BY DEF SweepsInv, RecordHasSuccess, Succeeded, Chain!isFree
<1>4. BatchExists'
  BY DEF BatchExists
<1>5. QED BY <1>1, <1>2, <1>3, <1>4 DEF SweepsInv

(* The submitter's and the row's hold on a transaction exclude each other,  *)
(* so a slot has one transaction at most.                                   *)
LEMMA OnePerSlot ==
    ASSUME OneSubmitter, RelayerTypeOK, HashInv, NoneLost,
           NEW t \in Tx, NEW u \in Tx, txs[t] # Unsent, txs[u] # Unsent,
           txs[t].slot = txs[u].slot
    PROVE  t = u
<1> DEFINE s == txs[t].slot
<1>1. s \in Slot
  BY DEF RelayerTypeOK, TxState
<1>2. Held(t) /\ Held(u)
  BY DEF NoneLost
<1>3. \A v \in Tx, w \in Submitter :
        sent[w] = v /\ txs[v].slot = s => commitments[s].txHash = NoTx
  BY <1>1, StoreAssumption DEF HashInv, SentIsInBatch, BatchHasNoHash
<1>4. CASE commitments[s].txHash = NoTx
  <2>1. PICK v \in Submitter : sent[v] = t
    BY <1>2, <1>4, StoreAssumption DEF Held
  <2>2. PICK w \in Submitter : sent[w] = u
    BY <1>2, <1>4, StoreAssumption DEF Held
  <2>3. QED BY <2>1, <2>2 DEF OneSubmitter
<1>5. CASE commitments[s].txHash # NoTx
  BY <1>2, <1>3, <1>5 DEF Held
<1>6. QED BY <1>4, <1>5

(* Every step of the sweeps and of the chain, when none of them may fail.   *)
LEMMA RelayerStepKeepsWay ==
    ASSUME NothingFails, StoreTypeOK, RelayerTypeOK, ConfirmedInv, HashInv,
           TasksInv, SweepsInv, RelayerNext, UNCHANGED taskvars
    PROVE  TasksInv' /\ SweepsInv'
<1>0. OneSubmitter /\ ChainFaults = {}
  BY DEF NothingFails
<1>1. ASSUME UNCHANGED <<commitments, scores, sent, txs, ledger>>,
             \A w \in Submitter, s \in Slot : batch'[w][s] # NoScore => Exists(s)
      PROVE  TasksInv' /\ SweepsInv'
  <2>1. \A s \in Slot : Exists(s)' = Exists(s)
    BY <1>1 DEF Exists
  <2>2. QED BY <1>1, <2>1, RowsKeepTasks, RowsKeepSweeps DEF SweepsInv, NoneFailed
<1>2. ASSUME NEW s \in Slot, EndEpoch(s) PROVE TasksInv' /\ SweepsInv'
  BY <1>1, <1>2 DEF EndEpoch, dbvars, SweepsInv, BatchExists
<1>3. ASSUME NEW i \in Indexer, IndexScan(i) PROVE TasksInv' /\ SweepsInv'
  BY <1>1, <1>3 DEF IndexScan, dbvars, SweepsInv, BatchExists
<1>4. ASSUME NEW w \in Submitter, SubmitScan(w) PROVE TasksInv' /\ SweepsInv'
  <2>1. UNCHANGED <<commitments, scores, sent, txs, ledger>>
    BY <1>4 DEF SubmitScan, dbvars
  <2>2. \A v \in Submitter, s \in Slot : batch'[v][s] # NoScore => Exists(s)
    BY <1>4 DEF SubmitScan, Oldest, Submittable, Exists, SweepsInv, BatchExists, RelayerTypeOK
  <2>3. QED BY <1>1, <2>1, <2>2
<1>5. ASSUME NEW w \in Submitter, NEW s \in Slot, NEW t \in Tx, commitEpoch(w, s, t)
      PROVE  TasksInv' /\ SweepsInv'
  <2>1. /\ txs[t] = Unsent /\ sent[w] = NoTx
        /\ txs' = [txs EXCEPT ![t] = [status |-> "mempool", slot |-> s, score |-> batch[w][s]]]
        /\ sent' = [sent EXCEPT ![w] = t]
        /\ UNCHANGED <<commitments, scores, batch, ledger>>
    BY <1>5 DEF commitEpoch, NextToSend, Broadcast, dbvars
  <2>2. /\ txs'[t].status = "mempool" /\ sent'[w] = t
        /\ \A u \in Tx : u # t => txs'[u] = txs[u]
    BY <2>1 DEF RelayerTypeOK
  <2>3. \A v \in Submitter : v = w
    BY <1>0 DEF OneSubmitter
  <2>4. NoneLost'
    <3> SUFFICES ASSUME NEW u \in Tx, txs'[u] # Unsent
                 PROVE  txs'[u].status \in {"mempool", "success"} /\ Held(u)'
      BY DEF NoneLost
    <3>1. CASE u = t
      BY <2>2, <3>1 DEF Held
    <3>2. CASE u # t
      <4>1. txs'[u] = txs[u] /\ txs[u].status \in {"mempool", "success"} /\ Held(u)
        BY <2>2, <3>2 DEF SweepsInv, NoneLost
      <4>2. commitments[txs[u].slot].txHash = u
        BY <2>1, <2>3, <4>1, StoreAssumption DEF Held
      <4>3. QED BY <2>1, <4>1, <4>2 DEF Held
    <3>3. QED BY <3>1, <3>2
  <2>5. RecordHasSuccess'
    BY <2>1, <2>2 DEF SweepsInv, RecordHasSuccess, Succeeded, Chain!isFree
  <2>6. NoneFailed' /\ BatchExists'
    BY <2>1 DEF SweepsInv, NoneFailed, BatchExists, Exists
  <2>7. TasksInv'
    BY <2>1, RowsKeepTasks DEF Exists
  <2>8. QED BY <2>4, <2>5, <2>6, <2>7 DEF SweepsInv
<1>6. ASSUME NEW w \in Submitter, StoreTxHash(w) PROVE TasksInv' /\ SweepsInv'
  <2> DEFINE t == sent[w]
             s == txs[t].slot
             row == [commitments[s] EXCEPT !.txHash = t, !.status = "pending"]
  <2>1. t \in Tx /\ t # NoTx /\ txs[t] # Unsent /\ s \in Slot
    BY <1>6 DEF StoreTxHash, RelayerTypeOK, TxState
  <2>2. row.txHash = t /\ row.status = "pending"
    BY <2>1 DEF StoreTypeOK, Commitment
  <2>3. /\ commitments' = [commitments EXCEPT ![s] = row]
        /\ batch' = [batch EXCEPT ![w][s] = NoScore] /\ sent' = [sent EXCEPT ![w] = NoTx]
        /\ UNCHANGED <<scores, txs, ledger>>
    BY <1>6, <2>1 DEF StoreTxHash, StoreTypeOK, Commitment
  <2>4. commitments[s].txHash = NoTx /\ Exists(s)
    BY <2>1 DEF HashInv, SentIsInBatch, BatchHasNoHash, SweepsInv, BatchExists
  <2>5. \A v \in Submitter : v = w
    BY <1>0 DEF OneSubmitter
  <2> HIDE DEF row
  <2>6. commitments'[s] = row /\ \A r \in Slot : r # s => commitments'[r] = commitments[r]
    BY <2>1, <2>3 DEF StoreTypeOK
  <2>7. \A r \in Slot : Exists(r)' = Exists(r)
    BY <2>2, <2>4, <2>6 DEF Exists
  <2>8. NoneLost'
    <3> SUFFICES ASSUME NEW u \in Tx, txs[u] # Unsent
                 PROVE  txs'[u].status \in {"mempool", "success"} /\ Held(u)'
      BY <2>3 DEF NoneLost
    <3>1. txs[u].slot \in Slot /\ txs[u].status \in {"mempool", "success"} /\ Held(u)
      BY DEF SweepsInv, NoneLost, RelayerTypeOK, TxState
    <3>2. CASE u = t
      BY <2>2, <2>3, <2>6, <3>1, <3>2 DEF Held
    <3>3. CASE u # t
      <4>1. commitments[txs[u].slot].txHash = u
        BY <2>5, <3>1, <3>3 DEF Held
      <4>2. txs[u].slot # s
        BY <2>4, <4>1, StoreAssumption
      <4>3. QED BY <2>3, <2>6, <3>1, <4>1, <4>2 DEF Held
    <3>4. QED BY <3>2, <3>3
  <2>9. NoneFailed'
    BY <2>2, <2>6 DEF SweepsInv, NoneFailed
  <2>10. RecordHasSuccess'
    BY <2>3 DEF SweepsInv, RecordHasSuccess, Succeeded, Chain!isFree
  <2>11. BatchExists'
    BY <2>3, <2>7 DEF SweepsInv, BatchExists, RelayerTypeOK
  <2>12. TasksInv'
    BY <2>3, <2>7, RowsKeepTasks
  <2>13. QED BY <2>8, <2>9, <2>10, <2>11, <2>12 DEF SweepsInv
(* A failed estimate would need a record of the slot, and so a transaction *)
(* that the row knows.                                                     *)
<1>7. ASSUME NEW w \in Submitter, NEW s \in Slot, SendFails(w, s) PROVE FALSE
  <2>1. NextToSend(w, s) /\ ~Chain!isFree(s)
    BY <1>0, <1>7 DEF SendFails
  <2>2. sent[w] = NoTx /\ batch[w][s] # NoScore
    BY <2>1 DEF NextToSend, Oldest
  <2>3. PICK t \in Tx : Succeeded(t) /\ txs[t].slot = s
    BY <2>1 DEF SweepsInv, RecordHasSuccess
  <2>4. Held(t)
    BY <2>3 DEF SweepsInv, NoneLost, Succeeded
  <2>5. commitments[s].txHash = NoTx
    BY <2>2 DEF HashInv, BatchHasNoHash
  <2>6. PICK v \in Submitter : sent[v] = t
    BY <2>3, <2>4, <2>5, StoreAssumption DEF Held
  <2>7. QED BY <1>0, <2>2, <2>6, StoreAssumption DEF OneSubmitter
<1>8. ASSUME NEW i \in Indexer, NEW s \in Slot, IndexRow(i, s) PROVE TasksInv' /\ SweepsInv'
  <2> DEFINE t == checks[i][s]
             row == [commitments[s] EXCEPT !.status = "confirmed"]
  <2>1. t \in Tx /\ t # NoTx /\ UNCHANGED <<scores, batch, sent, txs, ledger>>
    BY <1>8 DEF IndexRow, Oldest, RelayerTypeOK
  <2>2. txs[t] # Unsent /\ commitments[s].txHash = t
    BY <2>1 DEF ConfirmedInv, HashesBelong, BelongsTo, HashInv, LooksUpItsRow
  <2>3. Exists(s)
    BY <2>1, <2>2 DEF HashInv, NoRowNoHash, Exists
  <2>4. txs[t].status \in {"mempool", "success"}
    BY <2>1, <2>2 DEF SweepsInv, NoneLost
  <2>5. UNCHANGED commitments \/ commitments' = [commitments EXCEPT ![s] = row]
    BY <1>8, <2>4 DEF IndexRow, confirmationUpdateFromReceipt, setStatus
  <2>6. CASE UNCHANGED commitments
    BY <1>1, <2>1, <2>6 DEF SweepsInv, BatchExists
  <2>7. CASE commitments' = [commitments EXCEPT ![s] = row]
    <3>1. row.status = "confirmed" /\ row.txHash = commitments[s].txHash
      BY DEF StoreTypeOK, Commitment
    <3> HIDE DEF row
    <3>2. commitments'[s] = row /\ \A r \in Slot : r # s => commitments'[r] = commitments[r]
      BY <2>7 DEF StoreTypeOK
    <3>3. \A r \in Slot : Exists(r)' = Exists(r)
      BY <2>3, <3>1, <3>2 DEF Exists
    <3>4. \A r \in Slot : /\ commitments'[r].txHash = commitments[r].txHash
                          /\ commitments'[r].status # "failed"
      BY <3>1, <3>2 DEF SweepsInv, NoneFailed
    <3>5. \A v \in Submitter, r \in Slot : batch'[v][r] # NoScore => Exists(r)
      BY <2>1 DEF SweepsInv, BatchExists
    <3>6. QED BY <2>1, <3>3, <3>4, <3>5, RowsKeepTasks, RowsKeepSweeps
  <2>8. QED BY <2>5, <2>6, <2>7
<1>9. ASSUME NEW t \in Tx, Mine(t) PROVE TasksInv' /\ SweepsInv'
  <2> DEFINE s == txs[t].slot
  <2>1. txs[t] \in TxState /\ txs[t] # Unsent /\ s \in Slot /\ txs[t].status = "mempool"
    BY <1>9 DEF Mine, RelayerTypeOK, Unsent, TxState
  <2>2. UNCHANGED <<commitments, scores, batch, sent>>
    BY <1>9 DEF Mine, dbvars
  (* A revert would need an earlier success, of another transaction. *)
  <2>3. Chain!isFree(s)
    <3> SUFFICES ASSUME ~Chain!isFree(s) PROVE FALSE
      OBVIOUS
    <3>1. PICK u \in Tx : Succeeded(u) /\ txs[u].slot = s
      BY <2>1 DEF SweepsInv, RecordHasSuccess
    <3>2. u = t
      BY <1>0, <2>1, <3>1, OnePerSlot DEF Succeeded, SweepsInv
    <3>3. QED BY <2>1, <3>1, <3>2 DEF Succeeded
  <2>4. /\ txs' = [txs EXCEPT ![t] = [txs[t] EXCEPT !.status = "success"]]
        /\ ledger' = [ledger EXCEPT ![s] = txs[t].score]
    BY <1>9, <2>3 DEF Mine, Chain!Commit
  <2>5. /\ txs'[t].status = "success" /\ txs'[t].slot = s /\ txs'[t] # Unsent
        /\ \A u \in Tx : u # t => txs'[u] = txs[u]
    BY <2>1, <2>4 DEF RelayerTypeOK, TxState, Unsent
  <2>6. NoneLost'
    <3> SUFFICES ASSUME NEW u \in Tx, txs'[u] # Unsent
                 PROVE  txs'[u].status \in {"mempool", "success"} /\ Held(u)'
      BY DEF NoneLost
    <3>1. txs[u] # Unsent /\ txs'[u].slot = txs[u].slot
      BY <2>1, <2>5
    <3>2. Held(u) /\ txs[u].status \in {"mempool", "success"}
      BY <3>1 DEF SweepsInv, NoneLost
    <3>3. Held(u)'
      BY <2>2, <3>1, <3>2 DEF Held
    <3>4. QED BY <2>5, <3>2, <3>3
  <2>7. RecordHasSuccess'
    <3> SUFFICES ASSUME NEW r \in Slot, ~Chain!isFree(r)'
                 PROVE  \E u \in Tx : Succeeded(u)' /\ txs'[u].slot = r
      BY DEF RecordHasSuccess
    <3>1. CASE r = s
      BY <2>5, <3>1 DEF Succeeded
    <3>2. CASE r # s
      <4>1. ~Chain!isFree(r)
        BY <2>1, <2>4, <3>2 DEF Chain!isFree, RelayerTypeOK
      <4>2. PICK u \in Tx : Succeeded(u) /\ txs[u].slot = r
        BY <4>1 DEF SweepsInv, RecordHasSuccess
      <4>3. u # t
        BY <3>2, <4>2
      <4>4. QED BY <2>5, <4>2, <4>3 DEF Succeeded
    <3>3. QED BY <3>1, <3>2
  <2>8. NoneFailed' /\ BatchExists'
    BY <2>2 DEF SweepsInv, NoneFailed, BatchExists, Exists
  <2>9. TasksInv'
    BY <2>2, RowsKeepTasks DEF Exists
  <2>10. QED BY <2>6, <2>7, <2>8, <2>9 DEF SweepsInv
<1>10. /\ \A w \in Submitter : ~SubmitterCrash(w) /\ ~StoreFails(w) /\ ~AuditFails(w)
       /\ \A i \in Indexer : ~IndexerCrash(i)
       /\ \A t \in Tx : ~Drop(t)
  BY <1>0 DEF SubmitterCrash, StoreFails, AuditFails, IndexerCrash, Drop
<1>11. QED
  BY <1>2, <1>3, <1>4, <1>5, <1>6, <1>7, <1>8, <1>9, <1>10
     DEF RelayerNext, SubmitterStep, IndexerStep

(* An approval that may be written to the chain is never forgotten on the   *)
(* way (job-queues.md:59-65, test-plan.md:86-87): for any number of tasks,  *)
(* candidates and sweeps that look up receipts, when nothing fails but      *)
(* Redis and sweeps that submit do not overlap, its epoch is queued, or     *)
(* about to be, and no queued epoch fails, loses its score or its           *)
(* transaction.                                                             *)
THEOREM OnItsWayProven == NothingFails => (Spec => []ApprovalIsOnItsWay)
<1> SUFFICES ASSUME NothingFails PROVE Spec => []ApprovalIsOnItsWay
  OBVIOUS
<1>1. Init => TasksInv /\ SweepsInv
  <2> SUFFICES ASSUME Init PROVE TasksInv /\ SweepsInv
    OBVIOUS
  <2> USE DEF Init, PipelineInit, StoreInit, RelayerInit
  <2>1. \A s \in Slot : ~Exists(s) /\ commitments[s].status # "failed" /\ Chain!isFree(s)
    BY DEF Exists, NoCommitment, Chain!LedgerInit, Chain!isFree
  <2>2. TasksInv
    BY <2>1, Tasks DEF TasksInv, DetectedFirst, ApprovalsQueued, ScoresKept
  <2>3. SweepsInv
    BY <2>1 DEF SweepsInv, NoneLost, NoneFailed, RecordHasSuccess, BatchExists, EmptyBatch
  <2>4. QED BY <2>2, <2>3
<1>2. TypeOK /\ ConfirmedInv /\ HashInv /\ TasksInv /\ SweepsInv /\ [Next]_vars
        => TasksInv' /\ SweepsInv'
  <2> SUFFICES ASSUME TypeOK, ConfirmedInv, HashInv, TasksInv, SweepsInv, [Next]_vars
               PROVE  TasksInv' /\ SweepsInv'
    OBVIOUS
  <2>1. StoreTypeOK /\ PipelineTypeOK /\ RelayerTypeOK
    BY DEF TypeOK, PipelineTypeOK
  <2>2. CASE UNCHANGED vars
    <3>1. UNCHANGED <<commitments, scores, batch, sent, txs, ledger, taskvars>>
      BY <2>2 DEF vars, dbvars, relayervars
    <3>2. \A s \in Slot : Exists(s)' = Exists(s)
      BY <3>1 DEF Exists
    <3>3. QED BY <2>1, <3>1, <3>2, RowsKeepTasks, RowsKeepSweeps
              DEF SweepsInv, NoneFailed, BatchExists
  <2>3. CASE PipelineNext /\ UNCHANGED relayervars
    <3>1. /\ TasksInv'
          /\ \A s \in Slot : Exists(s) => Exists(s)'
          /\ \A s \in Slot : commitments'[s].status \in {commitments[s].status, "pending"}
      BY <2>1, <2>3, PipelineStepKeepsWay
    <3>2. \A s \in Slot : commitments'[s].txHash = commitments[s].txHash
      BY <2>1, <2>3, PipelineStepKeepsHashes
    <3>3. UNCHANGED <<batch, sent, txs, ledger>>
      BY <2>3 DEF relayervars
    <3>4. QED BY <2>1, <3>1, <3>2, <3>3, RowsKeepSweeps DEF SweepsInv, NoneFailed, BatchExists
  <2>4. CASE RelayerNext /\ UNCHANGED taskvars
    BY <2>1, <2>4, RelayerStepKeepsWay
  <2>5. QED BY <2>2, <2>3, <2>4 DEF Next
<1>3. TypeOK /\ ConfirmedInv /\ HashInv /\ TasksInv /\ SweepsInv => ApprovalIsOnItsWay
  <2> SUFFICES ASSUME TypeOK, ConfirmedInv, HashInv, TasksInv, SweepsInv,
                      NEW s \in Slot, Exists(s)
               PROVE  RowProceeds(s)
    BY DEF ApprovalIsOnItsWay, TasksInv, ApprovalsQueued
  <2> DEFINE t == commitments[s].txHash
  <2>1. commitments[s].status # "failed" /\ scores[s] # NoScore
    BY DEF SweepsInv, NoneFailed, TasksInv, ScoresKept
  <2>2. CASE t = NoTx
    <3> SUFFICES ASSUME ~Chain!isFree(s)
                 PROVE  \E w \in Submitter : sent[w] # NoTx /\ txs[sent[w]].slot = s
      BY <2>1, <2>2 DEF RowProceeds
    <3>1. PICK u \in Tx : Succeeded(u) /\ txs[u].slot = s
      BY DEF SweepsInv, RecordHasSuccess
    <3>2. Held(u) /\ u # NoTx
      BY <3>1, StoreAssumption DEF SweepsInv, NoneLost, Succeeded
    <3>3. QED BY <2>2, <3>1, <3>2 DEF Held
  <2>3. CASE t # NoTx
    <3>1. t \in Tx
      BY <2>3 DEF TypeOK, PipelineTypeOK, StoreTypeOK, Commitment
    <3>2. txs[t] # Unsent /\ txs[t].slot = s
      BY <2>3 DEF ConfirmedInv, HashesBelong, BelongsTo
    <3>3. QED BY <2>1, <2>3, <3>1, <3>2 DEF RowProceeds, SweepsInv, NoneLost
  <2>4. QED BY <2>2, <2>3
<1>4. QED
  BY <1>1, <1>2, <1>3, HashInvProven, ConfirmedInvProven, OnlyVettedProven, PTL
     DEF Spec, NothingFails

-----------------------------------------------------------------------------
(* The database reset under way (SeedReset)                                *)

(* The tables the seed writes are tables, before it and after. *)
LEMMA SeedTypes ==
    ASSUME NEW d \in [Candidate -> [Agent -> Verdict \cup {"none"}]],
           NEW v \in [Slot -> Votes \cup {NoScore}],
           NEW k \in [Slot -> Commitment],
           NEW p \in [Candidate -> SUBSET {"gate", "ai", "human"}]
    PROVE  /\ seedAgentDecisions(d) \in [Candidate -> [Agent -> Verdict \cup {"none"}]]
           /\ seedEpochScores(v) \in [Slot -> Votes \cup {NoScore}]
           /\ seedChainCommitments(k) \in [Slot -> Commitment]
           /\ SeedApprovers(p) \in [Candidate -> SUBSET {"gate", "ai", "human"}]
<1>1. seedAgentDecisions(d) \in [Candidate -> [Agent -> Verdict \cup {"none"}]]
  BY DEF seedAgentDecisions, Agent, Verdict
<1>2. seedEpochScores(v) \in [Slot -> Votes \cup {NoScore}]
  <2>1. \A s \in Slot : [c \in Candidate |->
            IF c \in SeedApproved /\ SlotOf[c] = s THEN 1 ELSE 0] \in Votes
    BY DEF Votes
  <2>2. QED BY <2>1 DEF seedEpochScores
<1>3. seedChainCommitments(k) \in [Slot -> Commitment]
  <2>1. \A s \in Slot :
          [status |-> "pending", txHash |-> NoTx, createdAt |-> SeedOrder[s]] \in Commitment
    BY SeedAssumption DEF Commitment
  <2>2. QED BY <2>1 DEF seedChainCommitments
<1>4. SeedApprovers(p) \in [Candidate -> SUBSET {"gate", "ai", "human"}]
  BY DEF SeedApprovers
<1>5. QED BY <1>1, <1>2, <1>3, <1>4

(* Every approval the seed writes is the gate's, of a candidate above the  *)
(* gate's threshold, and a seeded score counts no other.                   *)
LEMMA SeedVets ==
    ASSUME PipelineTypeOK, Seed
    PROVE  /\ \A c \in Candidate : approvers[c] \subseteq approvers'[c]
           /\ \A c \in Candidate, a \in Agent :
                 decisions'[c][a] = "approve" => decisions[c][a] = "approve" \/ Vetted(c)'
           /\ \A s \in Slot : scores'[s] = scores[s] \/ CountsOnlyVetted(scores[s])'
<1>1. /\ decisions' = seedAgentDecisions(decisions)
      /\ scores' = seedEpochScores(scores)
      /\ approvers' = SeedApprovers(approvers)
  BY DEF Seed
<1>2. \A c \in Candidate : approvers[c] \subseteq approvers'[c]
  BY <1>1 DEF SeedApprovers
<1>3. \A c \in SeedApproved : Vetted(c)'
  BY <1>1, SeedAssumption DEF SeedApprovers, Vetted
<1>4. ASSUME NEW c \in Candidate, NEW a \in Agent, decisions'[c][a] = "approve"
      PROVE  decisions[c][a] = "approve" \/ Vetted(c)'
  <2>1. CASE c \in SeedApproved
    BY <1>3, <2>1
  <2>2. CASE c \notin SeedApproved
    BY <1>1, <1>4, <2>2 DEF seedAgentDecisions, PipelineTypeOK, StoreTypeOK, Agent
  <2>3. QED BY <2>1, <2>2
<1>5. ASSUME NEW s \in Slot
      PROVE  scores'[s] = scores[s] \/ CountsOnlyVetted(scores[s])'
  <2>1. CASE s \in SeedSlots
    <3>1. \A c \in Candidate : scores'[s][c] > 0 => c \in SeedApproved
      BY <1>1, <2>1 DEF seedEpochScores
    <3>2. QED BY <1>3, <3>1 DEF CountsOnlyVetted
  <2>2. CASE s \notin SeedSlots
    BY <1>1, <2>2 DEF seedEpochScores
  <2>3. QED BY <2>1, <2>2
<1>6. QED BY <1>2, <1>4, <1>5

(* A reset forgets no approval, and hands nothing to a task or a sweep.    *)
LEMMA SeedStep ==
    ASSUME IInv, Seed
    PROVE  IInv'
<1>1. /\ decisions' = seedAgentDecisions(decisions)
      /\ scores' = seedEpochScores(scores)
      /\ commitments' = seedChainCommitments(commitments)
      /\ approvers' = SeedApprovers(approvers)
      /\ UNCHANGED <<detected, pc, readVotes, jobs, redisUnavailable>>
      /\ UNCHANGED relayervars
  BY DEF Seed
<1>2. TypeOK'
  BY <1>1, SeedTypes
     DEF IInv, TypeOK, PipelineTypeOK, StoreTypeOK, RelayerTypeOK, relayervars
<1>3. /\ \A c \in Candidate : approvers[c] \subseteq approvers'[c]
      /\ \A c \in Candidate, a \in Agent :
            decisions'[c][a] = "approve" => decisions[c][a] = "approve" \/ Vetted(c)'
      /\ \A s \in Slot : scores'[s] = scores[s] \/ CountsOnlyVetted(scores[s])'
  BY SeedVets DEF IInv, TypeOK
<1>4. DecisionsVetted' /\ HandoffVetted' /\ OnlyAmbiguousAsked'
  BY <1>1, <1>3, VettedGrows
     DEF IInv, VettedInv, DecisionsVetted, HandoffVetted, OnlyAmbiguousAsked
<1>5. TablesClean' /\ ChainClean'
  <2>1. ChainClean'
    BY <1>1, <1>3, ChainCleanStays DEF IInv, VettedInv
  <2>2. \A t \in Task : Clean(readVotes[t])'
    BY <1>1, <1>3, VettedGrows DEF IInv, VettedInv, TablesClean, Clean, CountsOnlyVetted
  <2>3. \A s \in Slot : Clean(scores[s])'
    BY <1>3, VettedGrows DEF IInv, VettedInv, TablesClean, Clean, CountsOnlyVetted
  <2>4. QED BY <2>1, <2>2, <2>3 DEF TablesClean
<1>6. QED BY <1>2, <1>4, <1>5 DEF IInv, VettedInv

LEMMA SeedInitIInv == SeedInit => IInv
<1> SUFFICES ASSUME SeedInit PROVE IInv
  OBVIOUS
<1> DEFINE none == [c \in Candidate |-> [a \in Agent |-> "none"]]
           empty == [s \in Slot |-> NoScore]
           new == [s \in Slot |-> NoCommitment]
           nobody == [c \in Candidate |-> {}]
<1>1. /\ decisions = seedAgentDecisions(none)
      /\ scores = seedEpochScores(empty)
      /\ commitments = seedChainCommitments(new)
      /\ approvers = SeedApprovers(nobody)
      /\ detected = Candidate
      /\ pc = [t \in Task |-> "idle"]
      /\ readVotes = [t \in Task |-> NoScore]
      /\ jobs = [c \in Candidate |-> 0]
      /\ redisUnavailable = FALSE
      /\ RelayerInit
  BY DEF SeedInit
<1>2. /\ none \in [Candidate -> [Agent -> Verdict \cup {"none"}]]
      /\ empty \in [Slot -> Votes \cup {NoScore}]
      /\ new \in [Slot -> Commitment]
      /\ nobody \in [Candidate -> SUBSET {"gate", "ai", "human"}]
  <2>1. 0 \in 0..Cardinality(Slot)
    BY StoreAssumption, FS_CardinalityType
  <2>2. QED BY <2>1 DEF NoCommitment, Commitment
<1>3. PipelineTypeOK
  <2>1. StoreTypeOK /\ approvers \in [Candidate -> SUBSET {"gate", "ai", "human"}]
    <3> HIDE DEF none, empty, new, nobody
    <3>1. QED BY <1>1, <1>2, SeedTypes DEF StoreTypeOK
  <2>2. 0 \in 0..Attempts
    BY PipelineAssumption
  <2>3. QED BY <1>1, <2>1, <2>2 DEF PipelineTypeOK, Step
<1>4. RelayerTypeOK
  BY <1>1 DEF RelayerInit, Chain!LedgerInit, RelayerTypeOK, EmptyBatch, NoChecks
<1>5. \A c \in SeedApproved : Vetted(c)
  BY <1>1, SeedAssumption DEF SeedApprovers, Vetted
<1>6. DecisionsVetted
  BY <1>1, <1>5 DEF DecisionsVetted, seedAgentDecisions, Agent
<1>7. HandoffVetted /\ OnlyAmbiguousAsked
  <2>1. \A c \in Candidate :
          /\ pc[<<"api", c>>] = "idle" /\ pc[<<"worker", c>>] = "idle"
          /\ jobs[c] = 0
    BY <1>1, Tasks
  <2>2. ~(0 > 0)
    OBVIOUS
  <2>3. QED BY <2>1, <2>2, Zenon DEF HandoffVetted, OnlyAmbiguousAsked
<1>8. TablesClean
  BY <1>1, <1>5 DEF TablesClean, Clean, CountsOnlyVetted, seedEpochScores
<1>9. ChainClean
  BY <1>1 DEF RelayerInit, Chain!LedgerInit, ChainClean, Clean, EmptyBatch, Unsent
<1>10. QED BY <1>3, <1>4, <1>6, <1>7, <1>8, <1>9 DEF IInv, VettedInv, TypeOK

(* A seeded row is pending and without a hash. *)
LEMMA SeedRows ==
    ASSUME NEW k, NEW s \in Slot, NEW row,
           row = seedChainCommitments(k)[s]
    PROVE  row = k[s] \/ (row.status = "pending" /\ row.txHash = NoTx)
BY DEF seedChainCommitments

LEMMA SeedConfirmed ==
    ASSUME ConfirmedInv, Seed
    PROVE  ConfirmedInv'
<1>1. /\ commitments' = seedChainCommitments(commitments)
      /\ checks' = checks /\ txs' = txs /\ ledger' = ledger
      /\ UNCHANGED relayervars
  BY DEF Seed, relayervars
<1>2. \A s \in Slot : \/ commitments'[s] = commitments[s]
                      \/ /\ commitments'[s].status = "pending"
                         /\ commitments'[s].txHash = NoTx
  BY <1>1, SeedRows
<1>3. \A t, s : BelongsTo(t, s) => BelongsTo(t, s)'
  BY <1>1 DEF BelongsTo
<1>4. QED
  BY <1>1, <1>2, <1>3
     DEF ConfirmedInv, HashesBelong, BelongsTo, SuccessIsRecorded, ConfirmedIsOnChain,
         Chain!isFree

(* A step of the system is one of EpochProof's or the seed's. *)
LEMMA SeedInvariants == SeedSpec => [](IInv /\ ConfirmedInv)
<1>1. SeedInit => ConfirmedInv
  <2> SUFFICES ASSUME SeedInit PROVE ConfirmedInv
    OBVIOUS
  <2>1. /\ commitments = seedChainCommitments([s \in Slot |-> NoCommitment])
        /\ RelayerInit
    BY DEF SeedInit
  <2>2. \A s \in Slot : commitments[s].status # "confirmed" /\ commitments[s].txHash = NoTx
    BY <2>1, SeedRows DEF NoCommitment
  <2>3. QED
    BY <2>1, <2>2 DEF RelayerInit, ConfirmedInv, HashesBelong, BelongsTo,
       SuccessIsRecorded, ConfirmedIsOnChain, NoChecks, Unsent
<1>2. IInv /\ ConfirmedInv /\ [SeedNext]_svars => (IInv /\ ConfirmedInv)'
  <2> SUFFICES ASSUME IInv, ConfirmedInv, [SeedNext]_svars
               PROVE  IInv' /\ ConfirmedInv'
    OBVIOUS
  <2>1. CASE Seed
    BY <2>1, SeedStep, SeedConfirmed
  <2>2. ASSUME [Next]_vars PROVE IInv' /\ ConfirmedInv'
    BY <2>2, NextIInv, ConfirmedStep DEF IInv
  <2>3. QED BY <2>1, <2>2 DEF SeedNext, Meanwhile, svars
<1>3. QED BY <1>1, <1>2, SeedInitIInv, PTL DEF SeedSpec

(* An operator may run scripts/seed-demo-data.ts at any point of the work  *)
(* of any number of tasks and sweeps, as often as MaxSeeds allows: what    *)
(* reaches the ledger is still vetted, and what is shown as confirmed is   *)
(* still on it.                                                            *)
THEOREM SeedKeepsTheProof ==
    SeedSpec => []LedgerCountsOnlyVetted /\ []ConfirmedIsOnChain
<1>1. IInv /\ ConfirmedInv => LedgerCountsOnlyVetted /\ ConfirmedIsOnChain
  BY DEF IInv, VettedInv, ChainClean, Clean, LedgerCountsOnlyVetted, ConfirmedInv,
         Chain!isFree
<1>2. QED BY <1>1, SeedInvariants, PTL

(* The reset of the demo data keeps the promise as well: it approves in    *)
(* the gate's name, and hides what it queues again (seed-demo-data.ts).    *)
THEOREM SeedKeepsPromise == SeedSpec => PromiseIsKept
<1>1. SeedInit => Promise!Promised
  <2> SUFFICES ASSUME SeedInit PROVE Promise!Promised
    OBVIOUS
  <2>1. /\ ledger = [s \in Slot |-> NoScore]
        /\ commitments = seedChainCommitments([s \in Slot |-> NoCommitment])
    BY DEF SeedInit, RelayerInit, Chain!LedgerInit
  <2>2. \A s \in Slot : commitments[s].status # "confirmed"
    BY <2>1, SeedRows DEF NoCommitment
  <2>3. QED BY <2>1, <2>2 DEF Promise!Promised
<1>2. IInv /\ ConfirmedInv' /\ [SeedNext]_svars
         => [Promise!PromiseNext]_(Promise!promisevars)
  <2> SUFFICES ASSUME IInv, ConfirmedInv', [SeedNext]_svars
               PROVE  [Promise!PromiseNext]_(Promise!promisevars)
    OBVIOUS
  <2>1. CASE Seed
    <3>1. /\ commitments' = seedChainCommitments(commitments)
          /\ approvers' = SeedApprovers(approvers) /\ UNCHANGED ledger
      BY <2>1 DEF Seed, relayervars
    <3>2. \A c \in Candidate : approvers[c] \subseteq approvers'[c]
      BY <3>1 DEF SeedApprovers
    <3>3. ShownNow' \subseteq ShownNow
      BY <3>1, SeedRows DEF ShownNow
    <3>4. QED BY <3>1, <3>2, <3>3, TrustGrows, Revised
  <2>2. CASE [Next]_vars
    BY <2>2, StepKeepsPromise
  <2>3. QED BY <2>1, <2>2 DEF SeedNext, Meanwhile, svars
<1>3. QED
  BY <1>1, <1>2, SeedInvariants, PTL
     DEF SeedSpec, PromiseIsKept, Promise!PromiseSpec

=============================================================================
