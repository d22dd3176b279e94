-------------------------- MODULE ApprovalPipeline --------------------------
(***************************************************************************)
(* From a detected candidate to a queued commitment, as three kinds of     *)
(* concurrent tasks over the shared tables (EpochStore):                   *)
(*   "api"    processCandidatePipeline, once per candidate (pipeline/      *)
(*            service.ts), which asks the AI worker about ambiguous ones;  *)
(*   "worker" one attempt of an agent-review job (agent-worker, BullMQ);   *)
(*   reviewer a call of resolveReviewDecision (pipeline/service.ts).       *)
(* A task that approves recomputes the epoch's score and queues it for the *)
(* chain: a SELECT, an upsert of the score and an upsert of the commitment *)
(* with other tasks in between.  Any query may fail and end its task.      *)
(***************************************************************************)
EXTENDS EpochStore

CONSTANTS
    Reviewer,       \* people with the reviewer role
    Preview,        \* demo candidates whose run may not write to the chain
    Attempts,       \* AGENT_REVIEW_QUEUE_ATTEMPTS
    Faults          \* which failures may happen: "abort", "restart", "redis"

Actor == {"api", "worker"} \cup Reviewer
Task == Actor \X Candidate

ASSUME PipelineAssumption ==
    /\ Reviewer \cap {"api", "worker"} = {}
    /\ Preview \subseteq Candidate
    /\ Attempts \in Nat

VARIABLES
    detected,           \* candidates already stored and handed to the pipeline
    pc,                 \* what each task does next
    readVotes,          \* the votes a task has read and not stored yet
    jobs,               \* attempts left of the agent-review job of a candidate
    redisUnavailable,   \* module state of jobs/queue.ts, lost on restart
    approvers           \* history: who ever approved a candidate

taskvars == <<detected, pc, readVotes, jobs, redisUnavailable, approvers>>

Step == {"idle", "decide", "enqueue", "recompute", "score", "commit"}

PipelineInit ==
    /\ StoreInit
    /\ detected = {}
    /\ pc = [t \in Task |-> "idle"]
    /\ readVotes = [t \in Task |-> NoScore]
    /\ jobs = [c \in Candidate |-> 0]
    /\ redisUnavailable = FALSE
    /\ approvers = [c \in Candidate |-> {}]

Goto(t, step) == pc' = [pc EXCEPT ![t] = step]

(* AUTO_APPROVE_THRESHOLD is 0.85 and ESCALATE_THRESHOLD 0.5. *)
decisionForConfidence(confidence) ==
    IF confidence >= 85 THEN "approve"
    ELSE IF confidence >= 50 THEN "escalate" ELSE "reject"

(* Every stored verdict; `approvers` remembers the approvals. *)
Record(c, agent, verdict, who) ==
    /\ upsertDecision(c, agent, verdict)
    /\ approvers' = IF verdict = "approve"
                      THEN [approvers EXCEPT ![c] = @ \cup {who}] ELSE approvers

-----------------------------------------------------------------------------
(* Ingestion or the heartbeat sweep stores the candidate under its unique  *)
(* key; a repeated payload or sweep finds it and stops there.              *)
Detect(c) ==
    /\ c \notin detected
    /\ detected' = detected \cup {c}
    /\ Goto(<<"api", c>>, "decide")
    /\ UNCHANGED <<dbvars, readVotes, jobs, redisUnavailable, approvers>>

(* The deterministic policy gate.  An approved preview ends here. *)
Decide(c) ==
    LET t == <<"api", c>>
        verdict == decisionForConfidence(Confidence[c]) IN
    /\ pc[t] = "decide"
    /\ Record(c, "gate", verdict, "gate")
    /\ Goto(t, IF verdict = "escalate" THEN "enqueue"
               ELSE IF verdict = "approve" /\ c \notin Preview THEN "recompute"
               ELSE "idle")
    /\ UNCHANGED <<scores, commitments, detected, readVotes, jobs, redisUnavailable>>

(* A failed add gives up on Redis until the process restarts; memory jobs  *)
(* are read by no worker.                                                  *)
enqueueAgentReviewJob(c) ==
    /\ pc[<<"api", c>>] = "enqueue"
    /\ Goto(<<"api", c>>, "idle")
    /\ \/ /\ ~redisUnavailable
          /\ jobs' = [jobs EXCEPT ![c] = Attempts]
          /\ UNCHANGED redisUnavailable
       \/ /\ redisUnavailable \/ "redis" \in Faults
          /\ redisUnavailable' = TRUE
          /\ UNCHANGED jobs
    /\ UNCHANGED <<dbvars, detected, readVotes, approvers>>

(* BullMQ hands an attempt to a worker, which runs the two agents. *)
StartJob(c) ==
    /\ jobs[c] > 0
    /\ pc[<<"worker", c>>] = "idle"
    /\ jobs' = [jobs EXCEPT ![c] = @ - 1]
    /\ Goto(<<"worker", c>>, "decide")
    /\ UNCHANGED <<dbvars, detected, readVotes, redisUnavailable, approvers>>

(* The attempt succeeds and ends the job, or the audit row it writes last  *)
(* throws and leaves the attempts that are left.                           *)
EndAttempt(c) ==
    \/ jobs' = [jobs EXCEPT ![c] = 0]
    \/ "abort" \in Faults /\ UNCHANGED jobs

(* The agents' verdict, or "escalate" when they fail or approve with low   *)
(* confidence.  Nothing else is left to do but for an approval.            *)
persistOrchestrationResult(c, verdict) ==
    LET t == <<"worker", c>>
        more == verdict = "approve" /\ c \notin Preview IN
    /\ pc[t] = "decide"
    /\ Record(c, "ai", verdict, "ai")
    /\ Goto(t, IF more THEN "recompute" ELSE "idle")
    /\ IF more THEN UNCHANGED jobs ELSE EndAttempt(c)
    /\ UNCHANGED <<scores, commitments, detected, readVotes, redisUnavailable>>

(* Any existing decision row may be resolved, whatever it says now. *)
resolveReviewDecision(r, c, agent, verdict) ==
    /\ pc[<<r, c>>] = "idle"
    /\ decisions[c][agent] # "none"
    /\ Record(c, agent, verdict, "human")
    /\ Goto(<<r, c>>, IF verdict = "approve" THEN "recompute" ELSE "idle")
    /\ UNCHANGED <<scores, commitments, detected, readVotes, jobs, redisUnavailable>>

-----------------------------------------------------------------------------
(* Fault: the worker adds its own candidate to whatever is approved. *)
votesFor_Added(t) ==
    IF t[1] = "worker" THEN [approvedVotes(SlotOf[t[2]]) EXCEPT ![t[2]] = @ + 1]
    ELSE approvedVotes(SlotOf[t[2]])

(* The worker falls back to its own candidate when nothing is approved. *)
votesFor(t) ==
    LET approved == approvedVotes(SlotOf[t[2]]) IN
    IF t[1] = "worker" /\ approved = NoVotes
      THEN [NoVotes EXCEPT ![t[2]] = 1] ELSE approved

SelectApproved(t) ==
    /\ pc[t] = "recompute"
    /\ readVotes' = [readVotes EXCEPT ![t] = votesFor(t)]
    /\ Goto(t, "score")
    /\ UNCHANGED <<dbvars, detected, jobs, redisUnavailable, approvers>>

UpsertScore(t) ==
    /\ pc[t] = "score"
    /\ upsertEpochScore(SlotOf[t[2]], readVotes[t])
    /\ readVotes' = [readVotes EXCEPT ![t] = NoScore]
    /\ Goto(t, "commit")
    /\ UNCHANGED <<decisions, commitments, detected, jobs, redisUnavailable, approvers>>

QueueCommitment(t) ==
    /\ pc[t] = "commit"
    /\ upsertPendingCommitment(SlotOf[t[2]])
    /\ Goto(t, "idle")
    /\ IF t[1] = "worker" THEN EndAttempt(t[2]) ELSE UNCHANGED jobs
    /\ UNCHANGED <<decisions, scores, detected, readVotes, redisUnavailable, approvers>>

-----------------------------------------------------------------------------
(* A query throws: the request or sweep reports the error, BullMQ retries  *)
(* the job while attempts are left.                                        *)
Abort(t) ==
    /\ "abort" \in Faults
    /\ pc[t] # "idle"
    /\ Goto(t, "idle")
    /\ readVotes' = [readVotes EXCEPT ![t] = NoScore]
    /\ UNCHANGED <<dbvars, detected, jobs, redisUnavailable, approvers>>

(* The API process dies with its requests in flight and starts again.      *)
RestartApi ==
    /\ "restart" \in Faults
    /\ redisUnavailable' = FALSE
    /\ pc' = [t \in Task |-> IF t[1] = "worker" THEN pc[t] ELSE "idle"]
    /\ readVotes' = [t \in Task |-> IF t[1] = "worker" THEN readVotes[t] ELSE NoScore]
    /\ UNCHANGED <<dbvars, detected, jobs, approvers>>

TaskStep(t) == SelectApproved(t) \/ UpsertScore(t) \/ QueueCommitment(t)

CandidateStep(c) ==
    \/ Detect(c)
    \/ Decide(c)
    \/ enqueueAgentReviewJob(c)
    \/ StartJob(c)
    \/ \E v \in Verdict : persistOrchestrationResult(c, v)
    \/ \E r \in Reviewer, a \in Agent, v \in {"approve", "reject"} :
          resolveReviewDecision(r, c, a, v)

PipelineNext ==
    \/ \E c \in Candidate : CandidateStep(c)
    \/ \E t \in Task : TaskStep(t) \/ Abort(t)
    \/ RestartApi

pvars == <<dbvars, taskvars>>

PipelineSpec == PipelineInit /\ [][PipelineNext]_pvars

(* A request or a job that runs goes on with its next query, and BullMQ    *)
(* hands out the jobs it holds.  Nothing obliges providers or reviewers.   *)
PipelineFairness ==
    /\ \A c \in Candidate :
          /\ WF_pvars(Decide(c)) /\ WF_pvars(enqueueAgentReviewJob(c))
          /\ WF_pvars(StartJob(c))
          /\ WF_pvars(\E v \in Verdict : persistOrchestrationResult(c, v))
    /\ \A t \in Task : WF_pvars(TaskStep(t))

-----------------------------------------------------------------------------
(* The tables, the tasks and the job queue have their types. *)
PipelineTypeOK ==
    /\ StoreTypeOK
    /\ detected \subseteq Candidate
    /\ pc \in [Task -> Step]
    /\ readVotes \in [Task -> Votes \cup {NoScore}]
    /\ jobs \in [Candidate -> 0..Attempts]
    /\ redisUnavailable \in BOOLEAN
    /\ approvers \in [Candidate -> SUBSET {"gate", "ai", "human"}]

(* What it takes to count: the gate alone above the approval threshold, a  *)
(* human below the escalation threshold, either or the AI in between.      *)
Vetted(c) ==
    \/ "human" \in approvers[c]
    \/ "ai" \in approvers[c] /\ Confidence[c] >= 50
    \/ "gate" \in approvers[c] /\ Confidence[c] >= 85

CountsOnlyVetted(v) == \A c \in Candidate : v[c] > 0 => Vetted(c)

(* No interleaving of gate, AI worker and reviewers, and no failure in the *)
(* middle of a recomputation, puts a candidate into an epoch's score that  *)
(* nobody entitled to at its confidence had approved.                      *)
ScoresCountOnlyVetted ==
    \A s \in Slot : scores[s] # NoScore => CountsOnlyVetted(scores[s])


(* The contract accepts whatever the relayer submits (isValidBps). *)
ScoresAreValidBps ==
    \A s \in Slot : scores[s] # NoScore => uptimeBps(scores[s]) <= 10000

-----------------------------------------------------------------------------
(* What the documents say of a score and the code does not keep.           *)

(* "The evidence hash commits to the approved candidate set"               *)
(* (README.md:284): a candidate is in it once, however many of its         *)
(* decision rows approve it.                                               *)
EachCandidateVotesOnce ==
    \A s \in Slot : scores[s] # NoScore =>
        \A c \in Candidate : scores[s][c] <= 1

Quiet(s) == \A t \in Task : SlotOf[t[2]] = s => pc[t] = "idle"

(* "Reload approved candidates for the candidate's zone and epoch,         *)
(* recompute the epoch uptime score" (job-queues.md:61-62): when all tasks *)
(* of an epoch are done, its score counts the approved candidates: none is *)
(* lost, and none stays that a reviewer has rejected since.                *)
ScoreIsApprovedSet ==
    \A s \in Slot : Quiet(s) /\ scores[s] # NoScore =>
        \A c \in Candidate : approvedVotes(s)[c] > 0 <=> scores[s][c] > 0

=============================================================================
