------------------------------ MODULE ReviewDesk ------------------------------
(***************************************************************************)
(* What reviewers and the alerts feed make of the decision rows of a        *)
(* candidate: the policy gate's row (api/pipeline/service.ts), the agents'   *)
(* (agent-worker/result-sink.ts), which a retried job writes again, and the  *)
(* reviewers' verdicts, which change a row and then append an audit entry   *)
(* that may be lost.                                                       *)
(***************************************************************************)
EXTENDS Naturals

CONSTANTS
    Event,          \* candidate events
    ConfidenceOf,   \* their confidence: "low", "mid" or "high"
    ReviewCall,     \* reviewers' requests
    NoRow,          \* a row, or an audit entry, that does not exist
    JobAttempts     \* AGENT_REVIEW_QUEUE_ATTEMPTS

Gate == "deterministic-policy-gate"
Ai == "ai-evidence-verification-agent"
Id == Event \X {Gate, Ai}
Level == {"low", "mid", "high"}
Decision == {"approve", "escalate", "reject"}
Verdict == {"approve", "reject"}

VARIABLES
    rows,           \* agent_decisions
    audits,         \* per row: the verdict's latest audit entry
    job,            \* per candidate: its agent-review job and the attempts made
    call,           \* reviewers' requests
    given,          \* history: per row: the last verdict a reviewer gave
    rewritten       \* history: rows the worker wrote after a verdict

deskvars == <<rows, audits, job, call, given, rewritten>>

(* Of a row: confidence, decision, whether there is a notification_draft,   *)
(* and reasoning_trace.review.                                             *)
Row == [confidence : Level, decision : Decision, draft : BOOLEAN,
        review : Verdict \cup {NoRow}]

ASSUME DeskAssumption ==
    /\ ConfidenceOf \in [Event -> Level] /\ JobAttempts \in Nat
    /\ NoRow \notin Row \cup Verdict

DeskInit ==
    /\ rows = [r \in Id |-> NoRow]
    /\ audits = [r \in Id |-> NoRow]
    /\ job = [e \in Event |-> [step |-> "none", tries |-> 0]]
    /\ call = [k \in ReviewCall |-> [step |-> "idle", row |-> NoRow, verdict |-> NoRow]]
    /\ given = [r \in Id |-> NoRow]
    /\ rewritten = {}

policyFor(level) ==
    CASE level = "high" -> "approve" [] level = "mid" -> "escalate" [] OTHER -> "reject"

(* The gate's row, and for an escalation the agents' job. *)
gateDecision(e) ==
    LET decision == policyFor(ConfidenceOf[e]) IN
    /\ rows[<<e, Gate>>] = NoRow
    /\ rows' = [rows EXCEPT ![<<e, Gate>>] =
           [confidence |-> ConfidenceOf[e], decision |-> decision,
            draft |-> decision = "approve", review |-> NoRow]]
    /\ job' = [job EXCEPT ![e].step = IF decision = "escalate" THEN "queued" ELSE "none"]
    /\ UNCHANGED <<audits, call, given, rewritten>>

(* The agents' answer, an approval below the threshold being an escalation, *)
(* as is every failure of the agents.                                      *)
agentDecisionFromResult(e) ==
    [confidence : Level, decision : Decision, draft : {TRUE}, review : {NoRow}]
      \ [confidence : {"low", "mid"}, decision : {"approve"}, draft : {TRUE}, review : {NoRow}]

(* Fault: the agents write the row of the gate. *)
agentRow_Gate(e) == <<e, Gate>>
agentRow(e) == <<e, Ai>>

(* ON CONFLICT DO UPDATE: decision, draft and trace are the new ones. *)
persistDecision(e) ==
    /\ job[e].step = "queued"
    /\ job' = [job EXCEPT ![e] = [step |-> "persisted", tries |-> @.tries + 1]]
    /\ \E row \in agentDecisionFromResult(e) : rows' = [rows EXCEPT ![agentRow(e)] = row]
    /\ rewritten' = rewritten \cup {r \in {agentRow(e)} : given[r] # NoRow}
    /\ UNCHANGED <<audits, call, given>>

(* The rest of the attempt succeeds, or throws; the queue then tries again. *)
endAttempt(e) ==
    /\ job[e].step = "persisted"
    /\ \/ job' = [job EXCEPT ![e].step = "done"]
       \/ job' = [job EXCEPT ![e].step = IF @ = "persisted" /\ job[e].tries < JobAttempts
                                         THEN "queued" ELSE "failed"]
    /\ UNCHANGED <<rows, audits, call, given, rewritten>>

Listed(r) == rows[r] # NoRow /\ rows[r].decision = "escalate"

(* A reviewer decides on an item of the list, which may be old by the time. *)
ChooseItem(k, r, verdict) ==
    /\ call[k].step = "idle"
    /\ Listed(r)
    /\ call' = [call EXCEPT ![k] = [step |-> "sent", row |-> r, verdict |-> verdict]]
    /\ UNCHANGED <<rows, audits, job, given, rewritten>>

(* Fault: the trace of the first verdict wins. *)
mergeTrace_First(old, verdict) == IF old = NoRow THEN verdict ELSE old
mergeTrace(old, verdict) == verdict

(* The update does not ask what the row says now. *)
resolveReview(k) ==
    LET r == call[k].row  v == call[k].verdict IN
    /\ call[k].step = "sent"
    /\ rows' = [rows EXCEPT ![r] = [@ EXCEPT !.decision = v, !.draft = TRUE,
                                             !.review = mergeTrace(@, v)]]
    /\ given' = [given EXCEPT ![r] = v]
    /\ call' = [call EXCEPT ![k].step = "updated"]
    /\ rewritten' = rewritten \ {r}
    /\ UNCHANGED <<audits, job>>

(* appendAuditLog: a failure is logged and forgotten. *)
auditReview(k) ==
    /\ call[k].step = "updated"
    /\ \/ audits' = [audits EXCEPT ![call[k].row] = call[k].verdict]
       \/ UNCHANGED audits
    /\ call' = [call EXCEPT ![k].step = "answered"]
    /\ UNCHANGED <<rows, job, given, rewritten>>

DeskNext ==
    \/ \E e \in Event : gateDecision(e) \/ persistDecision(e) \/ endAttempt(e)
    \/ \E k \in ReviewCall : \/ resolveReview(k) \/ auditReview(k)
                       \/ \E r \in Id, v \in Verdict : ChooseItem(k, r, v)

DeskSpec == DeskInit /\ [][DeskNext]_deskvars

-----------------------------------------------------------------------------
(* The feed.  Without trace and audit, a decision that is not the policy's  *)
(* is taken for a reviewer's.                                              *)

(* Fault: every note counts as a reviewer's. *)
looksReviewed_Draft(row) == row.decision \in Verdict /\ row.draft
looksReviewed(row) ==
    row.decision \in Verdict /\ row.draft /\ row.decision # policyFor(row.confidence)

(* The verdict an alert shows, if any. *)
reviewFromDecisionRow(r) ==
    IF rows[r].review # NoRow THEN rows[r].review
    ELSE IF (audits[r] # NoRow /\ rows[r].decision \in Verdict) \/ looksReviewed(rows[r])
         THEN rows[r].decision ELSE NoRow

Written == {r \in Id : rows[r] # NoRow}

(* Variables have their types. *)
DeskTypeOK ==
    /\ rows \in [Id -> Row \cup {NoRow}]
    /\ audits \in [Id -> Verdict \cup {NoRow}] /\ given \in [Id -> Verdict \cup {NoRow}]
    /\ job \in [Event -> [step : {"none", "queued", "persisted", "done", "failed"},
                          tries : 0..JobAttempts]]
    /\ call \in [ReviewCall -> [step : {"idle", "sent", "updated", "answered"},
                          row : Id \cup {NoRow}, verdict : Verdict \cup {NoRow}]]
    /\ rewritten \subseteq Id

(* "Keeps escalations visible to human reviewers even if the AI service is  *)
(* unavailable" (README.md:63): whatever the agents answer, how often their *)
(* job is tried, and if it is never taken, what the gate escalated stays on *)
(* the list until a reviewer decides.                                      *)
EscalationsStayListed ==
    \A e \in Event :
       LET r == <<e, Gate>> IN
       r \in Written /\ policyFor(ConfidenceOf[e]) = "escalate" /\ given[r] = NoRow => Listed(r)

(* A row shows the verdict that was given last, also to reviewers who used  *)
(* an old list, while an audit entry is pending and when it was lost.       *)
ReviewIsShown ==
    \A r \in Written : given[r] # NoRow /\ r \notin rewritten
                       => reviewFromDecisionRow(r) = given[r]

(* "an ordinary auto-approval notification is never mislabeled as human     *)
(* review" (pipeline/service.ts:557).                                      *)
ApprovalsAreNotMislabelled ==
    \A r \in Written : rows[r].decision = "approve" /\ given[r] = NoRow
                       => reviewFromDecisionRow(r) = NoRow

(* README.md:50, of the label "reviewer rejected" or "reviewer approved":   *)
(* "An authorized reviewer approved or rejected an escalation."            *)
OnlyReviewsAreLabelled ==
    \A r \in Written : reviewFromDecisionRow(r) # NoRow => given[r] # NoRow

(* What a reviewer decided is not decided otherwise by the worker.          *)
ReviewIsFinal ==
    \A r \in Written : given[r] # NoRow => rows[r].decision = given[r]
=============================================================================
