--------------------------- MODULE ServicesProofs ---------------------------
(***************************************************************************)
(* What holds of the demo lab, of the review desk, of memory mode and of   *)
(* the agents' context, for any number of challenges, runs, candidates,    *)
(* epochs, reviewers and readings, and of the scripted scenario, whenever  *)
(* it is started.                                                          *)
(***************************************************************************)
EXTENDS DemoRun, ReviewDesk, MemoryMode, AgentReview, HardwareScenario,
        FiniteSetTheorems, SequenceTheorems, WellFoundedInduction, TLAPS

(* The demo lab *)

(* A challenge that a run holds is used, so no other request can take it.   *)
ChallengeInv ==
    /\ challenge \in [Nonce -> {"none", "open", "used", "expired", "gone"}]
    /\ nonceOf \in [RunRequest -> Nonce \cup {NoNonce}]
    /\ \A r \in RunRequest : nonceOf[r] # NoNonce => challenge[nonceOf[r]] \in {"used", "gone"}
    /\ OneRunPerChallenge

(* A signed challenge starts one run, whatever requests present it at once. *)
THEOREM OneRunPerChallengeProven == DemoSpec => []OneRunPerChallenge
<1> USE DemoAssumption DEF ChallengeInv, OneRunPerChallenge
<1>1. DemoInit => ChallengeInv
  BY DEF DemoInit
<1>2. ASSUME ChallengeInv, [DemoNext]_demovars PROVE ChallengeInv'
  <2>1. ASSUME NEW r \in RunRequest, NEW n \in Nonce, consumeChallenge(r, n)
        PROVE  ChallengeInv'
    <3>1. \A q \in RunRequest : nonceOf[q] # n
      BY <1>2, <2>1 DEF consumeChallenge
    <3> QED
      BY <1>2, <2>1, <3>1 DEF consumeChallenge
  <2>2. CASE \E n \in Nonce : createDemoWalletChallenge(n) \/ ExpireChallenge(n)
    BY <1>2, <2>2 DEF createDemoWalletChallenge, ExpireChallenge
  <2>3. CASE RestartDemo
    BY <1>2, <2>3 DEF RestartDemo
  <2>4. ASSUME UNCHANGED clientVars PROVE ChallengeInv'
    BY <1>2, <2>4 DEF clientVars
  <2>5. ASSUME NEW r \in RunRequest, runStep(r) \/ AbortRun(r) PROVE UNCHANGED clientVars
    BY <2>5 DEF runStep, AbortRun, ChooseEpoch, GateDecides, queueAgentReview,
                auditSimulationProofPreview, ScoreRun, RecordRun
  <2>6. ASSUME NEW r \in RunRequest, WorkerDecides(r) \/ WorkerFollows(r) \/ ReviewerApproves(r)
        PROVE  UNCHANGED clientVars
    BY <2>6 DEF WorkerDecides, WorkerFollows, ReviewerApproves
  <2>7. CASE HourPasses \/ (\E e \in Hour : FieldScore(e) \/ Relayed(e))
    BY <2>4, <2>7 DEF HourPasses, FieldScore, Relayed
  <2>8. CASE UNCHANGED demovars
    BY <2>4, <2>8 DEF demovars
  <2> QED
    BY <1>2, <2>1, <2>2, <2>3, <2>4, <2>5, <2>6, <2>7, <2>8 DEF DemoNext
<1>3. ChallengeInv => OneRunPerChallenge
  OBVIOUS
<1> QED
  BY <1>1, <1>2, <1>3, PTL DEF DemoSpec

RunTypes ==
    /\ hour \in Nat
    /\ at \in [RunRequest -> {"idle", "choose", "decide", "enqueue", "preview", "score",
                              "commit", "record", "audit", "answered", "failed"}]
    /\ agentJob \in [RunRequest -> {"none", "queued", "preview", "score", "commit", "done"}]
    /\ nonceOf \in [RunRequest -> Nonce \cup {NoNonce}]
    /\ epochOf \in [RunRequest -> Nat]

(* A run has no epoch before it chooses one and no job before it           *)
(* escalates, and only a live run's request or job comes to the steps that *)
(* score and queue.                                                        *)
RunInv(r) ==
    /\ at[r] \in {"idle", "choose"} => epochOf[r] = 0
    /\ at[r] \in {"idle", "choose", "decide", "enqueue"} => agentJob[r] = "none"
    /\ at[r] \in {"score", "commit"} => isLive(r)
    /\ agentJob[r] \in {"score", "commit"} => isLive(r)

PublishInv ==
    /\ RunTypes
    /\ \A r \in RunRequest : RunInv(r)
    /\ proof \in [Hour -> {"none", "pending", "confirmed", "failed"}]
    /\ reviewed \subseteq RunRequest
    /\ PublishedIfAuthorized

LEMMA StepKeepsTypes == RunTypes /\ [DemoNext]_demovars => RunTypes'
<1> SUFFICES ASSUME RunTypes, [DemoNext]_demovars PROVE RunTypes'
  OBVIOUS
<1> USE DEF RunTypes, Hour, Step
<1>1. ASSUME NEW r \in RunRequest, NEW n \in Nonce, consumeChallenge(r, n) PROVE RunTypes'
  BY <1>1 DEF consumeChallenge, rowVars
<1>2. ASSUME NEW r \in RunRequest, ChooseEpoch(r) PROVE RunTypes'
  BY DemoAssumption, <1>2 DEF ChooseEpoch, demoObservedAt, unusedEpoch, clientVars, rowVars
<1>3. ASSUME NEW r \in RunRequest, GateDecides(r) PROVE RunTypes'
  BY <1>3 DEF GateDecides, clientVars
<1>4. ASSUME NEW r \in RunRequest, queueAgentReview(r) \/ auditSimulationProofPreview(r)
      PROVE  RunTypes'
  BY <1>4 DEF queueAgentReview, auditSimulationProofPreview, clientVars
<1>5. ASSUME NEW r \in RunRequest, ScoreRun(r) PROVE RunTypes'
  BY <1>5 DEF ScoreRun, clientVars
<1>6. ASSUME NEW r \in RunRequest, RecordRun(r) \/ AbortRun(r) PROVE RunTypes'
  BY <1>6 DEF RecordRun, AbortRun, clientVars, rowVars
<1>7. ASSUME NEW r \in RunRequest, WorkerDecides(r) PROVE RunTypes'
  BY <1>7 DEF WorkerDecides, clientVars, runVars
<1>8. ASSUME NEW r \in RunRequest, WorkerFollows(r) PROVE RunTypes'
  BY <1>8 DEF WorkerFollows, clientVars, runVars
<1>9. ASSUME NEW r \in RunRequest, ReviewerApproves(r) PROVE RunTypes'
  BY <1>9 DEF ReviewerApproves, clientVars, runVars
<1>10. CASE HourPasses \/ (\E e \in Hour : FieldScore(e) \/ Relayed(e))
  BY <1>10 DEF HourPasses, FieldScore, Relayed, clientVars, runVars, rowVars
<1>11. CASE RestartDemo \/ (\E n \in Nonce : createDemoWalletChallenge(n) \/ ExpireChallenge(n))
  BY <1>11 DEF RestartDemo, createDemoWalletChallenge, ExpireChallenge, runVars, rowVars
<1>12. CASE UNCHANGED demovars
  BY <1>12 DEF demovars, clientVars, runVars, rowVars
<1> QED
  BY <1>1, <1>2, <1>3, <1>4, <1>5, <1>6, <1>7, <1>8, <1>9, <1>10, <1>11, <1>12
     DEF DemoNext, runStep

LEMMA StepKeepsRuns ==
    ASSUME RunTypes, \A r \in RunRequest : RunInv(r), [DemoNext]_demovars, NEW q \in RunRequest
    PROVE  RunInv(q)'
<1> USE DEF RunTypes, RunInv, isLive, Step
<1>1. ASSUME NEW r \in RunRequest, NEW n \in Nonce, consumeChallenge(r, n) PROVE RunInv(q)'
  BY <1>1 DEF consumeChallenge, rowVars
<1>2. ASSUME NEW r \in RunRequest, ChooseEpoch(r) PROVE RunInv(q)'
  BY <1>2 DEF ChooseEpoch, demoObservedAt, unusedEpoch, clientVars, rowVars, Hour
<1>3. ASSUME NEW r \in RunRequest, GateDecides(r) PROVE RunInv(q)'
  BY <1>3 DEF GateDecides, clientVars
<1>4. ASSUME NEW r \in RunRequest, queueAgentReview(r) \/ auditSimulationProofPreview(r)
      PROVE  RunInv(q)'
  BY <1>4 DEF queueAgentReview, auditSimulationProofPreview, clientVars
<1>5. ASSUME NEW r \in RunRequest, ScoreRun(r) PROVE RunInv(q)'
  BY <1>5 DEF ScoreRun, clientVars
<1>6. ASSUME NEW r \in RunRequest, RecordRun(r) \/ AbortRun(r) PROVE RunInv(q)'
  BY <1>6 DEF RecordRun, AbortRun, clientVars, rowVars
<1>7. ASSUME NEW r \in RunRequest, WorkerDecides(r) PROVE RunInv(q)'
  BY <1>7 DEF WorkerDecides, mayPublish, clientVars, runVars
<1>8. ASSUME NEW r \in RunRequest, WorkerFollows(r) PROVE RunInv(q)'
  BY <1>8 DEF WorkerFollows, clientVars, runVars
<1>9. ASSUME NEW r \in RunRequest, ReviewerApproves(r) PROVE RunInv(q)'
  BY <1>9 DEF ReviewerApproves, clientVars, runVars
<1>10. CASE HourPasses \/ (\E e \in Hour : FieldScore(e) \/ Relayed(e))
  BY <1>10 DEF HourPasses, FieldScore, Relayed, clientVars, runVars, rowVars
<1>11. CASE RestartDemo \/ (\E n \in Nonce : createDemoWalletChallenge(n) \/ ExpireChallenge(n))
  BY <1>11 DEF RestartDemo, createDemoWalletChallenge, ExpireChallenge, runVars, rowVars
<1>12. CASE UNCHANGED demovars
  BY <1>12 DEF demovars, clientVars, runVars, rowVars
<1> QED
  BY <1>1, <1>2, <1>3, <1>4, <1>5, <1>6, <1>7, <1>8, <1>9, <1>10, <1>11, <1>12
     DEF DemoNext, runStep

(* A step that queues nothing keeps what is queued authorised, as long as   *)
(* runs keep their epoch and challenge and no review is taken back.        *)
LEMMA AuthorizedStays ==
    ASSUME PublishInv, proof' \in [Hour -> {"none", "pending", "confirmed", "failed"}],
           \A e \in Hour : proof'[e] # "none" => proof[e] # "none",
           \A r \in RunRequest : epochOf[r] # 0 => epochOf'[r] = epochOf[r] /\ nonceOf'[r] = nonceOf[r],
           reviewed \subseteq reviewed'
    PROVE  PublishedIfAuthorized'
<1> SUFFICES ASSUME NEW e \in Hour, proof'[e] # "none"
             PROVE  \E r \in RunRequest : epochOf'[r] = e /\ (nonceOf'[r] \in Live \/ r \in reviewed')
  BY DEF PublishedIfAuthorized, isLive, Hour
<1>1. PICK r \in RunRequest : epochOf[r] = e /\ (nonceOf[r] \in Live \/ r \in reviewed)
  BY DEF PublishInv, PublishedIfAuthorized, isLive
<1>2. e # 0
  BY DEF Hour
<1> QED
  BY <1>1, <1>2

(* The run that queues a commitment is authorised. *)
LEMMA QueuedIsAuthorized ==
    ASSUME PublishInv, NEW r \in RunRequest, proof' = [proof EXCEPT ![epochOf[r]] = "pending"],
           UNCHANGED <<epochOf, nonceOf>>, reviewed \subseteq reviewed',
           isLive(r) \/ r \in reviewed'
    PROVE  PublishedIfAuthorized'
<1> SUFFICES ASSUME NEW e \in Hour, proof'[e] # "none"
             PROVE  \E q \in RunRequest : epochOf[q] = e /\ (nonceOf[q] \in Live \/ q \in reviewed')
  BY DEF PublishedIfAuthorized, isLive, Hour
<1>1. CASE epochOf[r] = e
  BY <1>1 DEF isLive
<1>2. CASE epochOf[r] # e
  <2>1. proof[e] # "none"
    BY <1>2 DEF PublishInv
  <2>2. PICK q \in RunRequest : epochOf[q] = e /\ (nonceOf[q] \in Live \/ q \in reviewed)
    BY <2>1 DEF PublishInv, PublishedIfAuthorized, isLive
  <2> QED
    BY <2>2
<1> QED
  BY <1>1, <1>2

LEMMA StepKeepsPublish == PublishInv /\ [DemoNext]_demovars => PublishInv'
<1> SUFFICES ASSUME PublishInv, [DemoNext]_demovars PROVE PublishInv'
  OBVIOUS
<1>1. RunTypes' /\ \A r \in RunRequest : RunInv(r)'
  BY StepKeepsTypes, StepKeepsRuns DEF PublishInv
<1> DEFINE Rest == /\ proof' \in [Hour -> {"none", "pending", "confirmed", "failed"}]
                   /\ reviewed' \subseteq RunRequest
                   /\ PublishedIfAuthorized'
<1>2. ASSUME UNCHANGED <<proof, reviewed, epochOf, nonceOf>> PROVE Rest
  BY <1>2, AuthorizedStays DEF PublishInv
<1>3. ASSUME NEW r \in RunRequest, ScoreRun(r) PROVE Rest
  <2>1. CASE Step(r, "score", "commit")
    BY <1>2, <1>3, <2>1 DEF ScoreRun, score, Step, clientVars, PublishInv, RunTypes
  <2>2. CASE Step(r, "commit", "record") /\ queueProof(r)
    <3>1. isLive(r) /\ UNCHANGED <<epochOf, nonceOf, reviewed>>
      BY <1>3, <2>2 DEF ScoreRun, Step, clientVars, PublishInv, RunInv
    <3> QED
      BY <2>2, <3>1, QueuedIsAuthorized DEF queueProof, PublishInv
  <2> QED
    BY <1>3, <2>1, <2>2 DEF ScoreRun
<1>4. ASSUME NEW r \in RunRequest, WorkerFollows(r) PROVE Rest
  <2>1. CASE UNCHANGED proof
    BY <1>2, <1>4, <2>1 DEF WorkerFollows, clientVars, runVars
  <2>2. CASE agentJob[r] = "commit" /\ queueProof(r)
    <3>1. isLive(r) /\ UNCHANGED <<epochOf, nonceOf, reviewed>>
      BY <1>4, <2>2 DEF WorkerFollows, clientVars, runVars, PublishInv, RunInv
    <3> QED
      BY <2>2, <3>1, QueuedIsAuthorized DEF queueProof, PublishInv
  <2> QED
    BY <1>4, <2>1, <2>2 DEF WorkerFollows, score
<1>5. ASSUME NEW r \in RunRequest, ReviewerApproves(r) PROVE Rest
  <2>1. /\ UNCHANGED <<epochOf, nonceOf>> /\ reviewed' = reviewed \cup {r}
        /\ proof' = [proof EXCEPT ![epochOf[r]] = "pending"]
    BY <1>5 DEF ReviewerApproves, clientVars, runVars
  <2> QED
    BY <2>1, QueuedIsAuthorized DEF PublishInv
<1>6. ASSUME NEW e \in Hour, Relayed(e) PROVE Rest
  <2>1. UNCHANGED <<epochOf, nonceOf, reviewed>>
    BY <1>6 DEF Relayed, clientVars, runVars
  <2>2. /\ proof' \in [Hour -> {"none", "pending", "confirmed", "failed"}]
        /\ \A f \in Hour : proof'[f] # "none" => proof[f] # "none"
    BY <1>6 DEF Relayed, PublishInv
  <2> QED
    BY <2>1, <2>2, AuthorizedStays DEF PublishInv
<1>7. ASSUME NEW r \in RunRequest, ChooseEpoch(r) PROVE Rest
  <2>1. UNCHANGED <<proof, reviewed, nonceOf>>
    BY <1>7 DEF ChooseEpoch, clientVars, rowVars
  <2>2. ASSUME NEW q \in RunRequest, epochOf[q] # 0 PROVE epochOf'[q] = epochOf[q]
    BY <1>7, <2>2 DEF ChooseEpoch, demoObservedAt, Step, PublishInv, RunInv, RunTypes
  <2> QED
    BY <2>1, <2>2, AuthorizedStays DEF PublishInv
<1>8. ASSUME NEW r \in RunRequest, NEW n \in Nonce, consumeChallenge(r, n) PROVE Rest
  <2>1. UNCHANGED <<proof, reviewed, epochOf>>
    BY <1>8 DEF consumeChallenge, rowVars
  <2>2. ASSUME NEW q \in RunRequest, epochOf[q] # 0 PROVE nonceOf'[q] = nonceOf[q]
    BY <1>8, <2>2 DEF consumeChallenge, Step, PublishInv, RunInv, RunTypes
  <2> QED
    BY <2>1, <2>2, AuthorizedStays DEF PublishInv
<1>9. ASSUME NEW r \in RunRequest,
             \/ GateDecides(r) \/ queueAgentReview(r) \/ auditSimulationProofPreview(r)
             \/ RecordRun(r) \/ AbortRun(r) \/ WorkerDecides(r)
      PROVE  Rest
  BY <1>2, <1>9 DEF GateDecides, queueAgentReview, auditSimulationProofPreview, RecordRun,
                    AbortRun, WorkerDecides, clientVars, runVars, rowVars
<1>10. ASSUME \/ HourPasses \/ RestartDemo \/ \E e \in Hour : FieldScore(e)
              \/ \E n \in Nonce : createDemoWalletChallenge(n) \/ ExpireChallenge(n)
       PROVE  Rest
  BY <1>2, <1>10 DEF HourPasses, RestartDemo, FieldScore, createDemoWalletChallenge,
                     ExpireChallenge, clientVars, runVars, rowVars
<1>11. ASSUME UNCHANGED demovars PROVE Rest
  BY <1>2, <1>11 DEF demovars, clientVars, runVars, rowVars
<1>12. Rest
  BY <1>3, <1>4, <1>5, <1>6, <1>7, <1>8, <1>9, <1>10, <1>11 DEF DemoNext, runStep
<1> QED
  BY <1>1, <1>12 DEF PublishInv

LEMMA PublishInvHolds == DemoSpec => []PublishInv
<1>1. DemoInit => PublishInv
  BY DemoAssumption
     DEF DemoInit, PublishInv, RunTypes, RunInv, PublishedIfAuthorized, isLive, Hour
<1>2. PublishInv /\ [DemoNext]_demovars => PublishInv'
  BY StepKeepsPublish
<1> QED
  BY <1>1, <1>2, PTL DEF DemoSpec

(* Nothing of a preview is queued for the chain but by a reviewer           *)
(* (pipeline/service.ts:41, result-sink.ts:55).                            *)
THEOREM PublishedIfAuthorizedProven == DemoSpec => []PublishedIfAuthorized
<1>1. PublishInv => PublishedIfAuthorized
  BY DEF PublishInv
<1> QED
  BY <1>1, PublishInvHolds, PTL

-----------------------------------------------------------------------------
(* The review desk *)

(* A verdict on its way is one, on a row of the desk.                       *)
ListInv ==
    /\ rows \in [Id -> Row \cup {NoRow}]
    /\ given \in [Id -> Verdict \cup {NoRow}]
    /\ DOMAIN call = ReviewCall
    /\ \A k \in ReviewCall :
          call[k].step = "idle" \/ (call[k].row \in Written /\ call[k].verdict \in Verdict)
    /\ EscalationsStayListed

LEMMA ListInvHolds == DeskSpec => []ListInv
<1> USE DeskAssumption DEF ListInv, EscalationsStayListed, Listed, Written
<1>1. DeskInit => ListInv
  BY DEF DeskInit, Id
<1>2. ASSUME ListInv, [DeskNext]_deskvars PROVE ListInv'
  <2>1. ASSUME NEW e \in Event, gateDecision(e) PROVE ListInv'
    BY <1>2, <2>1 DEF gateDecision, policyFor, Row, Level, Decision, Id
  <2>2. ASSUME NEW e \in Event, persistDecision(e) PROVE ListInv'
    <3>1. PICK row \in Row : rows' = [rows EXCEPT ![<<e, Ai>>] = row]
      BY <2>2 DEF persistDecision, agentRow, agentDecisionFromResult, Row
    <3>2. \A f \in Event : <<f, Gate>> # <<e, Ai>> /\ <<f, Gate>> \in Id
      BY DEF Gate, Ai, Id
    <3>3. <<e, Ai>> \in Id
      BY DEF Id
    <3>4. UNCHANGED <<call, given>>
      BY <2>2 DEF persistDecision
    <3>5. rows' \in [Id -> Row \cup {NoRow}]
      BY <1>2, <3>1
    <3>6. \A f \in Event : rows'[<<f, Gate>>] = rows[<<f, Gate>>]
      BY <1>2, <3>1, <3>2
    <3>7. \A q \in Id : rows[q] # NoRow => rows'[q] # NoRow
      BY <1>2, <3>1
    <3> QED
      BY <1>2, <3>2, <3>4, <3>5, <3>6, <3>7
  <2>3. ASSUME NEW k \in ReviewCall, resolveReview(k) PROVE ListInv'
    <3> DEFINE r == call[k].row
               v == call[k].verdict
    <3>1. r \in Id /\ rows[r] \in Row /\ v \in Verdict
      BY <1>2, <2>3 DEF resolveReview
    <3>2. /\ given' = [given EXCEPT ![r] = v]
          /\ call' = [call EXCEPT ![k].step = "updated"]
          /\ rows' = [rows EXCEPT ![r] = rows'[r]]
          /\ rows'[r] = [rows[r] EXCEPT !.decision = v, !.draft = TRUE, !.review = v]
      BY <1>2, <2>3, <3>1 DEF resolveReview, mergeTrace
    <3> HIDE DEF r, v
    <3>3. rows'[r] \in Row
      BY <3>1, <3>2 DEF Row, Verdict, Decision
    <3>4. rows' \in [Id -> Row \cup {NoRow}] /\ \A q \in Id : rows[q] # NoRow => rows'[q] # NoRow
      BY <1>2, <3>1, <3>2, <3>3
    <3>5. given' \in [Id -> Verdict \cup {NoRow}]
      BY <1>2, <3>1, <3>2
    <3>6. /\ DOMAIN call' = ReviewCall
          /\ \A j \in ReviewCall : /\ j = k \/ call'[j] = call[j]
                                  /\ call'[j].row = call[j].row
                                  /\ call'[j].verdict = call[j].verdict
      BY <1>2, <3>2
    <3>7. call[k].row \in Written /\ call[k].verdict \in Verdict
      BY <3>1 DEF r, v
    <3>8. EscalationsStayListed'
      BY <1>2, <3>1, <3>2
    <3> QED
      BY <1>2, <3>4, <3>5, <3>6, <3>7, <3>8
  <2>4. CASE \E e \in Event : endAttempt(e)
    BY <1>2, <2>4 DEF endAttempt
  <2>5. ASSUME NEW k \in ReviewCall, auditReview(k) PROVE ListInv'
    BY <1>2, <2>5 DEF auditReview
  <2>6. ASSUME NEW k \in ReviewCall, NEW r \in Id, NEW v \in Verdict, ChooseItem(k, r, v)
        PROVE  ListInv'
    BY <1>2, <2>6 DEF ChooseItem
  <2>7. CASE UNCHANGED deskvars
    BY <1>2, <2>7 DEF deskvars
  <2> QED
    BY <1>2, <2>1, <2>2, <2>3, <2>4, <2>5, <2>6, <2>7 DEF DeskNext
<1> QED
  BY <1>1, <1>2, PTL DEF DeskSpec

(* What the gate escalated stays on the list until a reviewer decides,      *)
(* whatever the agents answer and however often their job runs.            *)
THEOREM EscalationsStayListedProven == DeskSpec => []EscalationsStayListed
<1>1. ListInv => EscalationsStayListed
  BY DEF ListInv
<1> QED
  BY <1>1, ListInvHolds, PTL

(* A row a reviewer decided exists, and its trace has the last verdict     *)
(* unless the worker has written it again since.                           *)
Traced(r) ==
    given[r] # NoRow => rows[r] # NoRow /\ (r \in rewritten \/ rows[r].review = given[r])

TraceInv == \A r \in Id : Traced(r)

LEMMA StepKeepsTrace == ListInv /\ TraceInv /\ [DeskNext]_deskvars => TraceInv'
<1> SUFFICES ASSUME ListInv, TraceInv, [DeskNext]_deskvars, NEW r \in Id PROVE Traced(r)'
  BY DEF TraceInv
<1>0. Traced(r) /\ rows \in [Id -> Row \cup {NoRow}] /\ given \in [Id -> Verdict \cup {NoRow}]
  BY DEF TraceInv, ListInv
<1>1. ASSUME rows'[r] = rows[r], UNCHANGED <<given, rewritten>> PROVE Traced(r)'
  BY <1>0, <1>1 DEF Traced
<1>2. ASSUME NEW e \in Event, gateDecision(e) PROVE Traced(r)'
  <2>1. UNCHANGED <<given, rewritten>> /\ rows[<<e, Gate>>] = NoRow
    BY <1>2 DEF gateDecision
  <2>2. \E row : rows' = [rows EXCEPT ![<<e, Gate>>] = row]
    BY <1>2 DEF gateDecision
  <2>3. CASE r = <<e, Gate>>
    BY <1>0, <2>1, <2>3 DEF Traced
  <2>4. CASE r # <<e, Gate>>
    BY <1>0, <1>1, <2>1, <2>2, <2>4
  <2> QED
    BY <2>3, <2>4
<1>3. ASSUME NEW e \in Event, persistDecision(e) PROVE Traced(r)'
  <2>1. PICK row \in Row : rows' = [rows EXCEPT ![<<e, Ai>>] = row]
    BY <1>3 DEF persistDecision, agentRow, agentDecisionFromResult, Row
  <2>2. UNCHANGED given /\ rewritten' = rewritten \cup {q \in {<<e, Ai>>} : given[q] # NoRow}
    BY <1>3 DEF persistDecision, agentRow
  <2>3. CASE r = <<e, Ai>>
    <3>1. rows'[r] = row
      BY <1>0, <2>1, <2>3
    <3> QED
      BY <2>2, <2>3, <3>1, DeskAssumption DEF Traced
  <2>4. CASE r # <<e, Ai>>
    BY <1>0, <2>1, <2>2, <2>4 DEF Traced
  <2> QED
    BY <2>3, <2>4
<1>4. ASSUME NEW k \in ReviewCall, resolveReview(k) PROVE Traced(r)'
  <2> DEFINE q == call[k].row
             v == call[k].verdict
  <2>1. q \in Id /\ rows[q] \in Row /\ v \in Verdict
    BY <1>4, DeskAssumption DEF ListInv, Written, resolveReview
  <2>2. /\ given' = [given EXCEPT ![q] = v] /\ rewritten' = rewritten \ {q}
        /\ rows' = [rows EXCEPT ![q] = [rows[q] EXCEPT !.decision = v, !.draft = TRUE, !.review = v]]
    BY <1>0, <1>4, <2>1 DEF resolveReview, mergeTrace
  <2> HIDE DEF q, v
  <2>3. CASE r = q
    <3>1. rows'[r] = [rows[q] EXCEPT !.decision = v, !.draft = TRUE, !.review = v] /\ given'[r] = v
      BY <1>0, <2>1, <2>2, <2>3
    <3>2. rows'[r] \in Row /\ rows'[r].review = v
      BY <2>1, <3>1 DEF Row, Verdict, Decision
    <3> QED
      BY <3>1, <3>2, DeskAssumption DEF Traced
  <2>4. CASE r # q
    BY <1>0, <2>1, <2>2, <2>4 DEF Traced
  <2> QED
    BY <2>3, <2>4
<1>5. ASSUME UNCHANGED <<rows, given, rewritten>> PROVE Traced(r)'
  BY <1>1, <1>5
<1>6. ASSUME NEW k \in ReviewCall, auditReview(k) \/ \E q \in Id, v \in Verdict : ChooseItem(k, q, v)
      PROVE  UNCHANGED <<rows, given, rewritten>>
  BY <1>6 DEF auditReview, ChooseItem
<1>7. ASSUME NEW e \in Event, endAttempt(e) PROVE UNCHANGED <<rows, given, rewritten>>
  BY <1>7 DEF endAttempt
<1>8. CASE UNCHANGED deskvars
  BY <1>5, <1>8 DEF deskvars
<1> QED
  BY <1>2, <1>3, <1>4, <1>5, <1>6, <1>7, <1>8 DEF DeskNext

(* The alert of a row shows the verdict given last, also to reviewers who  *)
(* used an old list and when the audit entry was lost; only a worker that  *)
(* writes the row again hides it (pipeline/service.ts, result-sink.ts).    *)
THEOREM ReviewIsShownProven == DeskSpec => []ReviewIsShown
<1>1. DeskInit => TraceInv
  BY DEF DeskInit, TraceInv, Traced, Id
<1>2. ListInv /\ TraceInv => ReviewIsShown
  BY DEF TraceInv, Traced, ReviewIsShown, reviewFromDecisionRow, Written
<1> QED
  BY <1>1, <1>2, ListInvHolds, StepKeepsTrace, PTL DEF DeskSpec

-----------------------------------------------------------------------------
(* Memory mode *)

(* A decision is made of evidence that is stored, or is about to be made.  *)
DecidedIsStored ==
    \A e \in Evidence :
        memoryDecisions[e] # "none" \/ task[<<"api", e>>] # "idle"
        => e \in evidenceByIdempotencyKey

Scoring(s) == \E t \in Task : task[t] = "score" /\ EpochOf[t[2]] = s

(* An approval is counted, or a request that has yet to score its epoch    *)
(* will count it.                                                          *)
CountedOrScoring ==
    \A e \in candidatesByKey \ Preview :
        memoryDecisions[e] = "approve" =>
            e \in memoryEpochScores[EpochOf[e]] \/ Scoring(EpochOf[e])

MemoryInv == MemoryTypeOK /\ DecidedIsStored /\ CountedOrScoring

LEMMA ApiTask == \A e \in Evidence : <<"api", e>> \in Task /\ <<"api", e>>[2] = e
BY DEF Task

LEMMA ReviewerTask ==
    \A r \in Reviewer, e \in Evidence :
        /\ <<r, e>> \in Task /\ <<r, e>>[2] = e
        /\ \A d \in Evidence : <<r, e>> # <<"api", d>>
BY MemoryAssumption DEF Task

LEMMA TaskEvidence == \A t \in Task : t[2] \in Evidence
BY DEF Task

LEMMA MemoryInitInv == MemoryInit => MemoryInv
BY DEF MemoryInit, MemoryInv, MemoryTypeOK, DecidedIsStored, CountedOrScoring, Running, Task, Absent

LEMMA MemoryKeepsTypes == MemoryTypeOK /\ [MemoryNext]_memvars => MemoryTypeOK'
<1> SUFFICES ASSUME MemoryTypeOK, [MemoryNext]_memvars PROVE MemoryTypeOK'
  OBVIOUS
<1> USE MemoryAssumption DEF MemoryTypeOK
<1>1. ASSUME NEW e \in Evidence, upsertEvidence(e) PROVE MemoryTypeOK'
  BY <1>1, ApiTask DEF upsertEvidence, storeMemoryCandidate, Goto, Running
<1>2. ASSUME NEW e \in Evidence, processCandidatePipeline(e) PROVE MemoryTypeOK'
  BY <1>2, ApiTask DEF processCandidatePipeline, decisionForCandidate, SetDecision, Goto, Running
<1>3. ASSUME NEW r \in Reviewer, NEW e \in Evidence, NEW d \in {"approve", "reject"},
             resolveReviewDecision(r, e, d)
      PROVE  MemoryTypeOK'
  BY <1>3, ReviewerTask DEF resolveReviewDecision, SetDecision, Goto, Running
<1>4. ASSUME NEW t \in Task, Score(t) PROVE MemoryTypeOK'
  BY <1>4, TaskEvidence DEF Score, recomputeMemoryEpochScore, Goto, Running
<1>5. ASSUME NEW t \in Task, Skip(t) PROVE MemoryTypeOK'
  BY <1>5 DEF Skip, Goto, Running
<1>6. CASE Restart
  BY <1>6 DEF Restart, Running, Absent
<1>7. CASE UNCHANGED memvars
  BY <1>7 DEF memvars
<1> QED
  BY <1>1, <1>2, <1>3, <1>4, <1>5, <1>6, <1>7 DEF MemoryNext

LEMMA MemoryKeepsStored == MemoryInv /\ [MemoryNext]_memvars => DecidedIsStored'
<1> SUFFICES ASSUME MemoryInv, [MemoryNext]_memvars, NEW x \in Evidence,
                    (memoryDecisions[x] # "none" \/ task[<<"api", x>>] # "idle")'
             PROVE  (x \in evidenceByIdempotencyKey)'
  BY DEF DecidedIsStored
<1> USE DEF MemoryInv, MemoryTypeOK, DecidedIsStored
<1>1. ASSUME NEW e \in Evidence, upsertEvidence(e) PROVE (x \in evidenceByIdempotencyKey)'
  BY <1>1, ApiTask DEF upsertEvidence, Goto
<1>2. ASSUME NEW e \in Evidence, processCandidatePipeline(e)
      PROVE  (x \in evidenceByIdempotencyKey)'
  BY <1>2, ApiTask DEF processCandidatePipeline, SetDecision, Goto
<1>3. ASSUME NEW r \in Reviewer, NEW e \in Evidence, NEW d \in {"approve", "reject"},
             resolveReviewDecision(r, e, d)
      PROVE  (x \in evidenceByIdempotencyKey)'
  BY <1>3, ReviewerTask, ApiTask DEF resolveReviewDecision, SetDecision, Goto
<1>4. ASSUME NEW t \in Task, Score(t) \/ Skip(t) PROVE (x \in evidenceByIdempotencyKey)'
  BY <1>4, ApiTask DEF Score, Skip, Goto
<1>5. CASE Restart
  BY <1>5, ApiTask DEF Restart
<1>6. CASE UNCHANGED memvars
  BY <1>6 DEF memvars
<1> QED
  BY <1>1, <1>2, <1>3, <1>4, <1>5, <1>6 DEF MemoryNext

LEMMA MemoryKeepsCounted == MemoryInv /\ [MemoryNext]_memvars => CountedOrScoring'
<1> SUFFICES ASSUME MemoryInv, [MemoryNext]_memvars,
                    NEW x \in candidatesByKey' \ Preview,
                    memoryDecisions'[x] = "approve"
             PROVE  x \in memoryEpochScores'[EpochOf[x]] \/ Scoring(EpochOf[x])'
  BY DEF CountedOrScoring
<1> DEFINE Goal == x \in memoryEpochScores'[EpochOf[x]] \/ Scoring(EpochOf[x])'
<1> USE MemoryAssumption DEF MemoryInv, MemoryTypeOK
<1>0. MemoryTypeOK' /\ x \in Evidence
  BY MemoryKeepsTypes
<1>1. ASSUME NEW e \in Evidence, upsertEvidence(e) PROVE Goal
  <2>1. x # e
    BY <1>1 DEF upsertEvidence, isNew, DecidedIsStored
  <2>2. x \in candidatesByKey
    BY <1>1, <2>1 DEF upsertEvidence, storeMemoryCandidate
  <2>3. \A t \in Task : task[t] = "score" => task'[t] = "score"
    BY <1>1, ApiTask DEF upsertEvidence, Goto
  <2> QED
    BY <1>1, <2>2, <2>3 DEF upsertEvidence, CountedOrScoring, Scoring
<1>2. ASSUME NEW e \in Evidence, processCandidatePipeline(e) PROVE Goal
  <2>1. CASE x = e
    <3>1. task'[<<"api", e>>] = "score"
      BY <1>2, <2>1, ApiTask DEF processCandidatePipeline, SetDecision, Goto
    <3> QED
      BY <2>1, <3>1, ApiTask DEF Scoring
  <2>2. CASE x # e
    <3>1. \A t \in Task : task[t] = "score" => task'[t] = "score"
      BY <1>2, ApiTask DEF processCandidatePipeline, Goto
    <3> QED
      BY <1>0, <1>2, <2>2, <3>1
      DEF processCandidatePipeline, SetDecision, CountedOrScoring, Scoring
  <2> QED
    BY <2>1, <2>2
<1>3. ASSUME NEW r \in Reviewer, NEW e \in Evidence, NEW d \in {"approve", "reject"},
             resolveReviewDecision(r, e, d)
      PROVE  Goal
  <2>1. CASE x = e
    <3>1. task'[<<r, e>>] = "score"
      BY <1>3, <2>1, ReviewerTask DEF resolveReviewDecision, SetDecision, Goto
    <3> QED
      BY <2>1, <3>1, ReviewerTask DEF Scoring
  <2>2. CASE x # e
    <3>1. \A t \in Task : task[t] = "score" => task'[t] = "score"
      BY <1>3, ReviewerTask DEF resolveReviewDecision, Goto
    <3> QED
      BY <1>0, <1>3, <2>2, <3>1
      DEF resolveReviewDecision, SetDecision, CountedOrScoring, Scoring
  <2> QED
    BY <2>1, <2>2
<1>4. ASSUME NEW t \in Task, Score(t) PROVE Goal
  <2>1. CASE EpochOf[t[2]] = EpochOf[x]
    BY <1>0, <1>4, <2>1 DEF Score, recomputeMemoryEpochScore
  <2>2. CASE EpochOf[t[2]] # EpochOf[x]
    <3>1. \A u \in Task : task[u] = "score" /\ EpochOf[u[2]] = EpochOf[x] => task'[u] = "score"
      BY <1>4, <2>2 DEF Score, Goto
    <3>2. memoryEpochScores'[EpochOf[x]] = memoryEpochScores[EpochOf[x]]
      BY <1>0, <1>4, <2>2, TaskEvidence DEF Score
    <3> QED
      BY <1>4, <3>1, <3>2 DEF Score, CountedOrScoring, Scoring
  <2> QED
    BY <2>1, <2>2
<1>5. ASSUME NEW t \in Task, Skip(t) PROVE Goal
  <2>1. \A u \in Task : task[u] = "score" => task'[u] = "score"
    BY <1>5 DEF Skip, Goto
  <2> QED
    BY <1>5, <2>1 DEF Skip, CountedOrScoring, Scoring
<1>6. CASE Restart
  BY <1>6 DEF Restart
<1>7. CASE UNCHANGED memvars
  BY <1>7 DEF memvars, CountedOrScoring, Scoring
<1> QED
  BY <1>1, <1>2, <1>3, <1>4, <1>5, <1>6, <1>7 DEF MemoryNext

(* No approval is lost in memory mode: once an epoch's requests are done,  *)
(* its score counts every approved candidate that may be, however gate and *)
(* reviewers interleave at their awaits (recomputeMemoryEpochScore).       *)
THEOREM NoApprovalIsLostProven == MemorySpec => []NoApprovalIsLost
<1>1. MemoryInit => MemoryInv
  BY MemoryInitInv
<1>2. MemoryInv /\ [MemoryNext]_memvars => MemoryInv'
  BY MemoryKeepsTypes, MemoryKeepsStored, MemoryKeepsCounted DEF MemoryInv
<1>3. MemoryInv => NoApprovalIsLost
  BY DEF MemoryInv, CountedOrScoring, NoApprovalIsLost, Scoring, Settled
<1> QED
  BY <1>1, <1>2, <1>3, PTL DEF MemorySpec

-----------------------------------------------------------------------------
(* The agent review *)

(* Evidence arrives once. *)
ArrivalsDiffer ==
    /\ arrived \in Seq(Message)
    /\ \A i, j \in 1..Len(arrived) : arrived[i] = arrived[j] => i = j

(* What a tool has read was stored in the window. *)
ReadsWereStored ==
    /\ telemetryWindow = Unread \/ telemetryWindow \subseteq InWindow
    /\ conflictingReports = Unread \/ conflictingReports.reports \subseteq InWindow

ToolsAreRead == step \in {"metadata", "analysis", "verification"}

ShownOf(p) == {n \in Shown : ProviderOf(n) = p}

(* A provider's metadata counts what is shown of it, and has a status if    *)
(* anything is.                                                             *)
CountsShown(p) ==
    /\ providerMetadata[p].recentEvidenceCount >= Cardinality(ShownOf(p))
    /\ ShownOf(p) # {} => providerMetadata[p].latestStatus # "none"

MetadataFits ==
    /\ step = "tools" => DOMAIN providerMetadata = {}
    /\ ToolsAreRead => /\ telemetryWindow # Unread /\ conflictingReports # Unread
                       /\ \A p \in DOMAIN providerMetadata : CountsShown(p)
    /\ ContextIsRead => DOMAIN providerMetadata = providerIds

ReviewInv == ArrivalsDiffer /\ ReadsWereStored /\ MetadataFits

LEMMA StoredIsFinite == ArrivalsDiffer => IsFiniteSet(Stored)
<1> SUFFICES ASSUME ArrivalsDiffer PROVE IsFiniteSet(Stored)
  OBVIOUS
<1>1. Len(arrived) \in Nat /\ arrived \in [1..Len(arrived) -> Message]
  BY DEF ArrivalsDiffer
<1>2. arrived \in Surjection(1..Len(arrived), Stored)
  BY <1>1 DEF Surjection, Stored
<1>3. IsFiniteSet(1..Len(arrived))
  BY <1>1, FS_Interval
<1> QED
  BY <1>2, <1>3, FS_Surjection

LEMMA StoredIsMessage == ArrivalsDiffer => Stored \subseteq Message
BY DEF ArrivalsDiffer, Stored

(* The order of the rows is strict and total. *)
LEMMA BeforeIsOrder ==
    ASSUME ArrivalsDiffer
    PROVE  /\ \A m \in Stored : ~Before(m, m)
           /\ \A m, n \in Stored : m = n \/ Before(m, n) \/ Before(n, m)
           /\ \A l, m, n \in Stored : Before(l, m) /\ Before(m, n) => Before(l, n)
<1>1. \A m \in Stored : Content[m].at \in Int
  BY StoredIsMessage, ReviewAssumption
<1>2. Len(arrived) \in Nat
  BY DEF ArrivalsDiffer
<1>3. \A m \in Stored : ~Before(m, m)
  BY <1>1, <1>2 DEF Before, ArrivalsDiffer
<1>4. ASSUME NEW m \in Stored, NEW n \in Stored, m # n PROVE Before(m, n) \/ Before(n, m)
  <2>1. PICK i \in 1..Len(arrived) : arrived[i] = m
    BY DEF Stored
  <2>2. PICK j \in 1..Len(arrived) : arrived[j] = n
    BY DEF Stored
  <2>3. i < j \/ j < i
    BY <1>2, <1>4, <2>1, <2>2
  <2> QED
    BY <1>1, <2>1, <2>2, <2>3 DEF Before
<1>5. ASSUME NEW l \in Stored, NEW m \in Stored, NEW n \in Stored, Before(l, m), Before(m, n)
      PROVE  Before(l, n)
  <2>1. Content[l].at \in Int /\ Content[m].at \in Int /\ Content[n].at \in Int
    BY <1>1
  <2>2. CASE Content[l].at < Content[n].at
    BY <2>2 DEF Before
  <2>3. CASE ~(Content[l].at < Content[n].at)
    <3>1. Content[l].at = Content[m].at /\ Content[m].at = Content[n].at
      BY <1>5, <2>1, <2>3 DEF Before
    <3>2. PICK i \in 1..Len(arrived), j \in 1..Len(arrived) :
             i < j /\ arrived[i] = l /\ arrived[j] = m
      BY <1>5, <2>1, <3>1 DEF Before
    <3>3. PICK g \in 1..Len(arrived), k \in 1..Len(arrived) :
             g < k /\ arrived[g] = m /\ arrived[k] = n
      BY <1>5, <2>1, <3>1 DEF Before
    <3>4. j = g
      BY <3>2, <3>3 DEF ArrivalsDiffer
    <3>5. i < k
      BY <1>2, <3>2, <3>3, <3>4
    <3> QED
      BY <3>1, <3>2, <3>3, <3>5 DEF Before
  <2> QED
    BY <2>2, <2>3
<1> QED
  BY <1>3, <1>4, <1>5

(* So a set of rows has a newest one: of the sets of newer rows there is a  *)
(* minimal one, and it is empty.                                            *)
LEMMA NewestExists ==
    ASSUME ArrivalsDiffer, NEW E \in SUBSET Stored, E # {}
    PROVE  \E m \in E : \A n \in E \ {m} : Before(n, m)
<1> DEFINE Newer(m) == {n \in E : Before(m, n)}
           T == {Newer(m) : m \in E}
<1>1. IsFiniteSet(E)
  BY StoredIsFinite, FS_Subset
<1>2. T \subseteq FiniteSubsetsOf(E) /\ T # {}
  <2>1. \A m \in E : Newer(m) \in SUBSET E
    OBVIOUS
  <2>2. FiniteSubsetsOf(E) = SUBSET E
    BY <1>1, FS_FiniteSubsetsOfFinite
  <2>3. PICK e \in E : TRUE
    OBVIOUS
  <2>4. Newer(e) \in T
    OBVIOUS
  <2>5. T \subseteq SUBSET E
    BY <2>1
  <2> HIDE DEF T
  <2> QED
    BY <2>2, <2>4, <2>5
<1>3. IsWellFoundedOn(StrictSubsetOrdering(E), FiniteSubsetsOf(E))
  BY FS_StrictSubsetOrderingWellFounded
<1>4. PICK x \in T : \A y \in T : ~ (<<y, x>> \in StrictSubsetOrdering(E))
  <2> HIDE DEF T
  <2> QED
    BY <1>2, <1>3, WFMin
<1>5. PICK m \in E : x = Newer(m)
  BY <1>4
<1>6. ASSUME NEW n \in E \ {m} PROVE Before(n, m)
  <2> SUFFICES ASSUME ~Before(n, m) PROVE FALSE
    OBVIOUS
  <2>1. Before(m, n)
    BY <1>6, BeforeIsOrder
  <2>2. n \in Newer(m) /\ n \notin Newer(n)
    BY <2>1, BeforeIsOrder
  <2>3. Newer(n) \subseteq Newer(m)
    BY <2>1, BeforeIsOrder
  <2>4. Newer(n) \in T
    BY <1>6
  <2>5. <<Newer(n), Newer(m)>> \in StrictSubsetOrdering(E)
    BY <2>2, <2>3 DEF StrictSubsetOrdering
  <2> QED
    BY <1>4, <1>5, <2>4, <2>5
<1> QED
  BY <1>6

(* Evidence of the window is among the recent evidence of who sent it, and  *)
(* if there is any the newest says something.                               *)
LEMMA MetadataCounts ==
    ASSUME ArrivalsDiffer, NEW p, NEW S \in SUBSET InWindow, \A n \in S : ProviderOf(n) = p
    PROVE  /\ Cardinality(S) \in Nat /\ Cardinality(recentEvidence(p)) >= Cardinality(S)
           /\ S # {} => latestStatus(p) # "none"
<1>1. S \in SUBSET recentEvidence(p) /\ recentEvidence(p) \in SUBSET Stored
  <2>1. ASSUME NEW n \in S PROVE n \in recentEvidence(p)
    <3>1. /\ n \in Stored /\ Content[n].at \in WindowStart..WindowEnd /\ ProviderOf(n) = p
      BY DEF InWindow
    <3> QED
      BY <3>1, ReviewAssumption DEF recentEvidence
  <2> QED
    BY <2>1 DEF recentEvidence
<1>2. IsFiniteSet(recentEvidence(p)) /\ IsFiniteSet(S)
  BY <1>1, StoredIsFinite, FS_Subset
<1>3. /\ Cardinality(S) <= Cardinality(recentEvidence(p))
      /\ Cardinality(S) \in Nat /\ Cardinality(recentEvidence(p)) \in Nat
  BY <1>1, <1>2, FS_Subset, FS_CardinalityType
<1>4. ASSUME S # {} PROVE latestStatus(p) # "none"
  <2> DEFINE E == recentEvidence(p)
             newest == CHOOSE m \in E : \A n \in E \ {m} : Before(n, m)
  <2>1. E # {} /\ E \in SUBSET Stored
    BY <1>1, <1>4
  <2>2. newest \in E
    <3> HIDE DEF E
    <3> QED
      BY <2>1, NewestExists
  <2>3. newest \in Message
    BY <2>1, <2>2, StoredIsMessage
  <2>4. latestStatus(p) = Content[newest].status
    BY <2>1 DEF latestStatus
  <2>5. Content[newest].status \in Statuses
    BY <2>3, ReviewAssumption
  <2> QED
    BY <2>4, <2>5 DEF Statuses
<1> QED
  BY <1>3, <1>4

LEMMA ReviewInitInv == ReviewInit => ReviewInv
BY DEF ReviewInit, ReviewInv, ArrivalsDiffer, ReadsWereStored, MetadataFits, ToolsAreRead,
       ContextIsRead

LEMMA ReviewKeepsInv == ReviewInv /\ [ReviewNext]_reviewvars => ReviewInv'
<1> SUFFICES ASSUME ArrivalsDiffer, ReadsWereStored, MetadataFits, [ReviewNext]_reviewvars
             PROVE  ArrivalsDiffer' /\ ReadsWereStored' /\ MetadataFits'
  BY DEF ReviewInv
<1> DEFINE Goal == ArrivalsDiffer' /\ ReadsWereStored' /\ MetadataFits'
(* A step that only moves on, keeping the context if it is to be shown. *)
<1>k. ASSUME UNCHANGED <<arrived, toolvars>>, step' # "tools",
             ToolsAreRead' => ToolsAreRead,
             ContextIsRead' => ContextIsRead
      PROVE  Goal
  <2>1. ArrivalsDiffer' /\ ReadsWereStored'
    BY <1>k DEF ArrivalsDiffer, ReadsWereStored, InWindow, Stored, toolvars
  <2>2. MetadataFits'
    BY <1>k DEF MetadataFits, ToolsAreRead, ContextIsRead, CountsShown, ShownOf, Shown,
                providerIds, toolvars
  <2> QED
    BY <2>1, <2>2
<1>1. ASSUME NEW m \in Message, EvidenceArrives(m) PROVE Goal
  <2>1. /\ arrived' = Append(arrived, m) /\ m \notin Stored
        /\ UNCHANGED <<telemetryWindow, historicalBaseline, conflictingReports,
                       providerMetadata, step>>
    BY <1>1 DEF EvidenceArrives, toolvars
  <2>2. /\ arrived' \in Seq(Message) /\ Len(arrived) \in Nat /\ Len(arrived') = Len(arrived) + 1
        /\ \A i \in 1..Len(arrived') :
              arrived'[i] = IF i = Len(arrived') THEN m ELSE arrived[i]
        /\ \A i \in 1..Len(arrived) : arrived[i] \in Stored
    BY <2>1 DEF ArrivalsDiffer, Stored
  <2>3. ArrivalsDiffer'
    BY <2>1, <2>2 DEF ArrivalsDiffer
  <2>4. Stored \subseteq Stored'
    BY <2>2 DEF Stored
  <2>5. InWindow \subseteq InWindow'
    BY <2>4 DEF InWindow
  <2>6. ReadsWereStored'
    BY <2>1, <2>5 DEF ReadsWereStored
  <2>7. MetadataFits'
    BY <2>1 DEF MetadataFits, ToolsAreRead, ContextIsRead, CountsShown, ShownOf, Shown, providerIds
  <2> QED
    BY <2>3, <2>6, <2>7
(* A query of the tools, which run before there is any metadata. *)
<1>t. ASSUME step = "tools", step' = "tools", arrived' = arrived,
             providerMetadata' = providerMetadata,
             telemetryWindow' = telemetryWindow \/ telemetryWindow' \subseteq InWindow,
             conflictingReports' = conflictingReports
               \/ conflictingReports'.reports \subseteq InWindow
      PROVE  Goal
  <2>1. ArrivalsDiffer' /\ InWindow' = InWindow
    BY <1>t DEF ArrivalsDiffer, InWindow, Stored
  <2>2. ReadsWereStored'
    BY <1>t, <2>1 DEF ReadsWereStored
  <2>3. MetadataFits'
    BY <1>t DEF MetadataFits, ToolsAreRead, ContextIsRead
  <2> QED
    BY <2>1, <2>2, <2>3
<1>2. ASSUME getTelemetryWindow PROVE Goal
  BY <1>2, <1>t DEF getTelemetryWindow
<1>3. ASSUME getHistoricalBaseline PROVE Goal
  BY <1>3, <1>t DEF getHistoricalBaseline
<1>4. ASSUME getConflictingReports PROVE Goal
  <2>1. conflictingReports'.reports = {m \in InWindow : Content[m].source = "reporter"}
    BY <1>4 DEF getConflictingReports
  <2> QED
    BY <1>4, <1>t, <2>1 DEF getConflictingReports
<1>5. ASSUME ToolsRead PROVE Goal
  <2>1. /\ step = "tools" /\ step' = "metadata" /\ UNCHANGED <<arrived, toolvars>>
        /\ telemetryWindow # Unread /\ conflictingReports # Unread
    BY <1>5 DEF ToolsRead
  <2>2. ArrivalsDiffer' /\ ReadsWereStored'
    BY <2>1 DEF ArrivalsDiffer, ReadsWereStored, InWindow, Stored, toolvars
  <2>3. MetadataFits'
    BY <2>1 DEF MetadataFits, ToolsAreRead, ContextIsRead, toolvars
  <2> QED
    BY <2>2, <2>3
<1>6. ASSUME NEW p \in Senders, getProviderMetadata(p) PROVE Goal
  <2>1. /\ step = "metadata" /\ step' = step
        /\ UNCHANGED <<arrived, telemetryWindow, conflictingReports>>
        /\ telemetryWindow # Unread /\ conflictingReports # Unread
    BY <1>6 DEF getProviderMetadata, MetadataFits, ToolsAreRead
  <2>2. ArrivalsDiffer' /\ ReadsWereStored' /\ Shown' = Shown
    BY <2>1 DEF ArrivalsDiffer, ReadsWereStored, InWindow, Stored, Shown
  <2>3. Shown \subseteq InWindow
    BY <2>1 DEF ReadsWereStored, Shown
  <2>4. /\ DOMAIN providerMetadata' = DOMAIN providerMetadata \cup {p}
        /\ providerMetadata'[p] = [recentEvidenceCount |-> Cardinality(recentEvidence(p)),
                                   latestStatus |-> latestStatus(p)]
        /\ \A q \in DOMAIN providerMetadata : q # p => providerMetadata'[q] = providerMetadata[q]
    BY <1>6 DEF getProviderMetadata
  <2>5. ShownOf(p) \in SUBSET InWindow /\ \A n \in ShownOf(p) : ProviderOf(n) = p
    BY <2>3 DEF ShownOf
  <2>6. /\ Cardinality(recentEvidence(p)) >= Cardinality(ShownOf(p))
        /\ ShownOf(p) # {} => latestStatus(p) # "none"
    BY <2>5, MetadataCounts
  <2>7. \A q : ShownOf(q)' = ShownOf(q)
    BY <2>2 DEF ShownOf
  <2>8. \A q \in DOMAIN providerMetadata' : CountsShown(q)'
    <3> SUFFICES ASSUME NEW q \in DOMAIN providerMetadata' PROVE CountsShown(q)'
      OBVIOUS
    <3>1. CASE q = p
      BY <2>4, <2>6, <2>7, <3>1 DEF CountsShown
    <3>2. CASE q # p
      <4>1. CountsShown(q) /\ providerMetadata'[q] = providerMetadata[q]
        BY <2>1, <2>4, <3>2 DEF MetadataFits, ToolsAreRead
      <4> QED
        BY <2>7, <4>1 DEF CountsShown
    <3> QED
      BY <3>1, <3>2
  <2>9. MetadataFits'
    BY <2>1, <2>8 DEF MetadataFits, ToolsAreRead, ContextIsRead
  <2> QED
    BY <2>2, <2>9
<1>7. ASSUME ContextCollected PROVE Goal
  <2>1. /\ step = "metadata" /\ step' = "analysis" /\ UNCHANGED <<arrived, toolvars>>
        /\ DOMAIN providerMetadata = providerIds
    BY <1>7 DEF ContextCollected
  <2>2. ArrivalsDiffer' /\ ReadsWereStored'
    BY <2>1 DEF ArrivalsDiffer, ReadsWereStored, InWindow, Stored, toolvars
  <2>3. MetadataFits'
    BY <2>1 DEF MetadataFits, ToolsAreRead, ContextIsRead, CountsShown, ShownOf, Shown,
                providerIds, toolvars
  <2> QED
    BY <2>2, <2>3
<1>8. ASSUME Fails PROVE Goal
  BY <1>8, <1>k DEF Fails, ToolsAreRead, ContextIsRead
<1>9. ASSUME runAnomalyAnalysisAgent PROVE Goal
  BY <1>9, <1>k DEF runAnomalyAnalysisAgent, ToolsAreRead, ContextIsRead
<1>10. ASSUME NEW d \in Decisions, NEW c \in Confidences, runVerificationAgent(d, c) PROVE Goal
  BY <1>10, <1>k DEF runVerificationAgent, ToolsAreRead, ContextIsRead
<1>11. ASSUME UNCHANGED reviewvars PROVE Goal
  <2>1. UNCHANGED <<arrived, toolvars, step>>
    BY <1>11 DEF reviewvars, toolvars
  <2>2. ArrivalsDiffer' /\ ReadsWereStored'
    BY <2>1 DEF ArrivalsDiffer, ReadsWereStored, InWindow, Stored, toolvars
  <2>3. MetadataFits'
    BY <2>1 DEF MetadataFits, ToolsAreRead, ContextIsRead, CountsShown, ShownOf, Shown,
                providerIds, toolvars
  <2> QED
    BY <2>2, <2>3
<1> QED
  BY <1>1, <1>2, <1>3, <1>4, <1>5, <1>6, <1>7, <1>8, <1>9, <1>10, <1>11 DEF ReviewNext

(* The agents see no evidence whose provider's metadata is missing, counts  *)
(* less than is shown, or says the provider is silent, whatever arrives     *)
(* between the queries (orchestrateCandidateReview).                        *)
THEOREM MetadataCountsTheEvidenceProven == ReviewSpec => []MetadataCountsTheEvidence
<1>1. ReviewInit => ReviewInv
  BY ReviewInitInv
<1>2. ReviewInv /\ [ReviewNext]_reviewvars => ReviewInv'
  BY ReviewKeepsInv
<1>3. ReviewInv => MetadataCountsTheEvidence
  <2> SUFFICES ASSUME ReviewInv, ContextIsRead, NEW m \in Shown
               PROVE  /\ ProviderOf(m) \in DOMAIN providerMetadata
                      /\ CountsShown(ProviderOf(m)) /\ m \in ShownOf(ProviderOf(m))
    BY DEF MetadataCountsTheEvidence, CountsShown, ShownOf
  <2>1. DOMAIN providerMetadata = providerIds
    BY DEF ReviewInv, MetadataFits
  <2>2. ProviderOf(m) \in providerIds
    BY DEF providerIds, Shown
  <2> QED
    BY <2>1, <2>2 DEF ReviewInv, MetadataFits, ToolsAreRead, ContextIsRead, ShownOf
<1> QED
  BY <1>1, <1>2, <1>3, PTL DEF ReviewSpec

(* The scripted scenario *)

(* The elements of two sequences, one after the other.                      *)
LEMMA OneAfterTheOther ==
    ASSUME NEW S, NEW s \in Seq(S), NEW t \in Seq(S)
    PROVE  /\ s \o t \in Seq(S) /\ Len(s \o t) = Len(s) + Len(t)
           /\ \A i \in 1..Len(s) : (s \o t)[i] = s[i]
           /\ \A i \in 1..Len(t) : (s \o t)[Len(s) + i] = t[i]
<1> DEFINE m == Len(s)
           n == Len(t)
<1>1. /\ \A i \in 1..m + n : (s \o t)[i] = IF i <= m THEN s[i] ELSE t[i - m]
      /\ s \o t \in Seq(S) /\ Len(s \o t) = m + n
      /\ m \in Nat /\ n \in Nat
  BY ConcatProperties, LenProperties
<1> HIDE DEF m, n
<1>2. ASSUME NEW i \in 1..n PROVE (s \o t)[m + i] = t[i]
  <2>1. m + i \in 1..m + n /\ ~(m + i <= m) /\ (m + i) - m = i
    BY <1>1
  <2> QED BY <1>1, <2>1
<1>3. ASSUME NEW i \in 1..m PROVE (s \o t)[i] = s[i]
  BY <1>1
<1>4. /\ s \o t \in Seq(S) /\ Len(s \o t) = m + n
      /\ \A i \in 1..m : (s \o t)[i] = s[i]
      /\ \A i \in 1..n : (s \o t)[m + i] = t[i]
  BY <1>1, <1>2, <1>3
<1> QED
  BY <1>4 DEF m, n

(* The 38 events of the scenario by their place.                            *)
LEMMA EventsByPlace ==
    /\ Len(SCENARIO_EVENTS) = 38 /\ DOMAIN SCENARIO_EVENTS = 1..38
    /\ \A i \in 1..23 : SCENARIO_EVENTS[i] = baseline(i - 1)
    /\ \A i \in 1..7 : SCENARIO_EVENTS[23 + i] = SEALED_ACTS[i]
    /\ \A i \in 1..8 : SCENARIO_EVENTS[30 + i] = LIVE_ACTS[i]
<1> DEFINE S == {baseline(z) : z \in ZoneIndex} \cup {SEALED_ACTS[i] : i \in 1..7}
                  \cup {LIVE_ACTS[i] : i \in 1..8}
<1>1. NATIONAL_BASELINE \in Seq(S) /\ Len(NATIONAL_BASELINE) = 23
  <2>1. NATIONAL_BASELINE \in [1..23 -> S]
    BY DEF NATIONAL_BASELINE, ZoneIndex
  <2> HIDE DEF S
  <2>2. NATIONAL_BASELINE \in Seq(S)
    BY <2>1, SeqDef
  <2>3. QED BY <2>1, <2>2, LenProperties
<1>2. SEALED_ACTS \in Seq(S) /\ Len(SEALED_ACTS) = 7
  <2>1. SEALED_ACTS \in [1..7 -> S]
    BY DEF SEALED_ACTS
  <2> HIDE DEF S
  <2>2. SEALED_ACTS \in Seq(S)
    BY <2>1, SeqDef
  <2>3. QED BY <2>1, <2>2, LenProperties
<1>3. LIVE_ACTS \in Seq(S) /\ Len(LIVE_ACTS) = 8
  <2>1. LIVE_ACTS \in [1..8 -> S]
    BY DEF LIVE_ACTS
  <2> HIDE DEF S
  <2>2. LIVE_ACTS \in Seq(S)
    BY <2>1, SeqDef
  <2>3. QED BY <2>1, <2>2, LenProperties
<1> HIDE DEF S
<1> DEFINE sealed == NATIONAL_BASELINE \o SEALED_ACTS
<1>0. sealed = NATIONAL_BASELINE \o SEALED_ACTS
  OBVIOUS
<1> HIDE DEF sealed
<1>4. /\ sealed \in Seq(S) /\ Len(sealed) = 30
      /\ \A i \in 1..23 : sealed[i] = NATIONAL_BASELINE[i]
      /\ \A i \in 1..7 : sealed[23 + i] = SEALED_ACTS[i]
  <2>1. /\ sealed \in Seq(S) /\ Len(sealed) = Len(NATIONAL_BASELINE) + Len(SEALED_ACTS)
        /\ \A i \in 1..Len(NATIONAL_BASELINE) : sealed[i] = NATIONAL_BASELINE[i]
        /\ \A i \in 1..Len(SEALED_ACTS) : sealed[Len(NATIONAL_BASELINE) + i] = SEALED_ACTS[i]
    <3>1. NATIONAL_BASELINE \in Seq(S) /\ SEALED_ACTS \in Seq(S)
      BY <1>1, <1>2
    <3>2. /\ NATIONAL_BASELINE \o SEALED_ACTS \in Seq(S)
          /\ Len(NATIONAL_BASELINE \o SEALED_ACTS) = Len(NATIONAL_BASELINE) + Len(SEALED_ACTS)
          /\ \A i \in 1..Len(NATIONAL_BASELINE) : (NATIONAL_BASELINE \o SEALED_ACTS)[i] = NATIONAL_BASELINE[i]
          /\ \A i \in 1..Len(SEALED_ACTS) :
                (NATIONAL_BASELINE \o SEALED_ACTS)[Len(NATIONAL_BASELINE) + i] = SEALED_ACTS[i]
      BY <3>1, OneAfterTheOther
    <3> QED BY <3>2, <1>0
  <2> QED BY <1>1, <1>2, <2>1
<1>5. SCENARIO_EVENTS = sealed \o LIVE_ACTS
  BY <1>0 DEF SCENARIO_EVENTS
<1>6. /\ SCENARIO_EVENTS \in Seq(S) /\ Len(SCENARIO_EVENTS) = 38
      /\ \A i \in 1..30 : SCENARIO_EVENTS[i] = sealed[i]
      /\ \A i \in 1..8 : SCENARIO_EVENTS[30 + i] = LIVE_ACTS[i]
  <2>1. /\ SCENARIO_EVENTS \in Seq(S) /\ Len(SCENARIO_EVENTS) = Len(sealed) + Len(LIVE_ACTS)
        /\ \A i \in 1..Len(sealed) : SCENARIO_EVENTS[i] = sealed[i]
        /\ \A i \in 1..Len(LIVE_ACTS) : SCENARIO_EVENTS[Len(sealed) + i] = LIVE_ACTS[i]
    <3>1. sealed \in Seq(S) /\ LIVE_ACTS \in Seq(S)
      BY <1>3, <1>4
    <3>2. /\ sealed \o LIVE_ACTS \in Seq(S) /\ Len(sealed \o LIVE_ACTS) = Len(sealed) + Len(LIVE_ACTS)
          /\ \A i \in 1..Len(sealed) : (sealed \o LIVE_ACTS)[i] = sealed[i]
          /\ \A i \in 1..Len(LIVE_ACTS) : (sealed \o LIVE_ACTS)[Len(sealed) + i] = LIVE_ACTS[i]
      BY <3>1, OneAfterTheOther
    <3> QED BY <3>2, <1>5
  <2> QED BY <1>3, <1>4, <2>1
<1>7. DOMAIN SCENARIO_EVENTS = 1..38
  BY <1>6, LenProperties
<1>8. \A i \in 1..23 : NATIONAL_BASELINE[i] = baseline(i - 1)
  BY DEF NATIONAL_BASELINE
<1>9. ASSUME NEW i \in 1..23 PROVE SCENARIO_EVENTS[i] = baseline(i - 1)
  <2>1. i \in 1..30
    OBVIOUS
  <2>2. SCENARIO_EVENTS[i] = NATIONAL_BASELINE[i]
    BY <1>4, <1>6, <2>1
  <2> QED BY <1>8, <2>2
<1>10. ASSUME NEW i \in 1..7 PROVE SCENARIO_EVENTS[23 + i] = SEALED_ACTS[i]
  <2>1. 23 + i \in 1..30
    OBVIOUS
  <2> QED BY <1>4, <1>6, <2>1
<1> QED
  BY <1>6, <1>7, <1>9, <1>10

LEMMA ActsByPlace ==
    /\ SCENARIO_EVENTS[24] = sensor("S2",  "sealed", 20, 0, 0, "grid_down", 0,     9500)
    /\ SCENARIO_EVENTS[25] = sensor("S3",  "sealed", 22, 0, 1, "grid_down", 3,     9700)
    /\ SCENARIO_EVENTS[26] = sensor("S4a", "sealed", 36, 0, 0, "grid_up",   10700, 9000)
    /\ SCENARIO_EVENTS[27] = sensor("S4b", "sealed", 38, 0, 1, "grid_up",   10700, 9400)
    /\ SCENARIO_EVENTS[28] = report("S5a", "sealed", 30, 10, "grid_down",          6500)
    /\ SCENARIO_EVENTS[29] = sensor("S5b", "sealed", 33, 10, 0, "grid_down", 0,    9700)
    /\ SCENARIO_EVENTS[30] = report("S6",  "sealed", 50, 6, "grid_down",           6500)
    /\ SCENARIO_EVENTS[31] = report("L1a", "live", -10, 19, "grid_up",             6500)
    /\ SCENARIO_EVENTS[32] = sensor("L1b", "live", -8, 19, 0, "grid_down", 0,      8000)
    /\ SCENARIO_EVENTS[33] = sensor("L1c", "live", -4, 19, 0, "grid_down", 0,      8000)
    /\ SCENARIO_EVENTS[34] = report("L2",  "live", -6, 12, "grid_down",            6500)
    /\ SCENARIO_EVENTS[35] = report("L3",  "live", -5, 8, "grid_down",             6500)
    /\ SCENARIO_EVENTS[36] = sensor("L4",  "live", -3, 14, 0, "unknown", Unmeasured,  NoCandidate)
    /\ SCENARIO_EVENTS[37] = sensor("L5a", "live", -11, 16, 0, "unknown", Unmeasured, NoCandidate)
    /\ SCENARIO_EVENTS[38] = sensor("L5b", "live", -2, 16, 0, "unknown", Unmeasured,  NoCandidate)
<1>1. /\ SCENARIO_EVENTS[24] = SEALED_ACTS[1] /\ SCENARIO_EVENTS[25] = SEALED_ACTS[2]
      /\ SCENARIO_EVENTS[26] = SEALED_ACTS[3] /\ SCENARIO_EVENTS[27] = SEALED_ACTS[4]
      /\ SCENARIO_EVENTS[28] = SEALED_ACTS[5] /\ SCENARIO_EVENTS[29] = SEALED_ACTS[6]
      /\ SCENARIO_EVENTS[30] = SEALED_ACTS[7]
  BY EventsByPlace
<1>2. /\ SCENARIO_EVENTS[31] = LIVE_ACTS[1] /\ SCENARIO_EVENTS[32] = LIVE_ACTS[2]
      /\ SCENARIO_EVENTS[33] = LIVE_ACTS[3] /\ SCENARIO_EVENTS[34] = LIVE_ACTS[4]
      /\ SCENARIO_EVENTS[35] = LIVE_ACTS[5] /\ SCENARIO_EVENTS[36] = LIVE_ACTS[6]
      /\ SCENARIO_EVENTS[37] = LIVE_ACTS[7] /\ SCENARIO_EVENTS[38] = LIVE_ACTS[8]
  BY EventsByPlace
<1> QED
  BY <1>1, <1>2 DEF SEALED_ACTS, LIVE_ACTS

(* When the two bands of a run begin: its sealed hour, and its own clock. *)
SealedStart(r) == sealedEpochStart(Runs[r]) + Runs[r].offset
LiveStart(r) == Runs[r].clock + Runs[r].offset

(* The sealed hour begins an hour before the clock, at the latest.          *)
LEMMA LiveIsAnHourLater ==
    ASSUME NEW r \in Invocation
    PROVE  SealedStart(r) \in Int /\ LiveStart(r) \in Int /\ LiveStart(r) - SealedStart(r) >= 3600
<1>1. Runs[r].clock \in Nat /\ Runs[r].offset \in Nat
  BY ScenarioAssumption
<1> QED
  BY <1>1 DEF SealedStart, LiveStart, sealedEpochStart, floorToHour, HOUR

Anchor(r, band) == IF band = "sealed" THEN SealedStart(r) ELSE LiveStart(r)

Fields == {"act", "band", "at", "zone", "source", "witness", "status", "voltage", "expect"}

(* Every event has the same fields.                                         *)
LEMMA EventFields == \A i \in 1..38 : DOMAIN SCENARIO_EVENTS[i] = Fields /\ SCENARIO_EVENTS[i].at \in Int
<1>1. ASSUME NEW z \in ZoneIndex PROVE DOMAIN baseline(z) = Fields /\ baseline(z).at \in Int
  BY DEF baseline, sensor, Fields, MINUTE
<1>2. ASSUME NEW i \in 1..23 PROVE DOMAIN SCENARIO_EVENTS[i] = Fields /\ SCENARIO_EVENTS[i].at \in Int
  <2>1. SCENARIO_EVENTS[i] = baseline(i - 1) /\ i - 1 \in ZoneIndex
    BY EventsByPlace DEF ZoneIndex
  <2> QED BY <1>1, <2>1
<1>3. ASSUME NEW i \in 24..38 PROVE DOMAIN SCENARIO_EVENTS[i] = Fields /\ SCENARIO_EVENTS[i].at \in Int
  BY ActsByPlace DEF sensor, report, Fields, MINUTE
<1> QED
  BY <1>2, <1>3

(* What a request says: its event's fields, with the time anchored. *)
LEMMA RequestSays ==
    ASSUME NEW r \in Invocation, NEW i \in 1..38
    PROVE  LET e == SCENARIO_EVENTS[i]
               p == Payload[<<r, i>>]
           IN /\ p.act = e.act /\ p.zone = e.zone /\ p.source = e.source /\ p.witness = e.witness
              /\ p.status = e.status /\ p.voltage = e.voltage /\ p.expect = e.expect
              /\ p.at = Anchor(r, e.band) + e.at
<1> DEFINE e == SCENARIO_EVENTS[i]
           start == IF e.band = "sealed" THEN sealedEpochStart(Runs[r]) ELSE Runs[r].clock
<1>1. <<r, i>> \in Telemetry /\ Payload[<<r, i>>] = resolved(Runs[r], i)
  BY EventsByPlace DEF Telemetry, Payload
<1>2. DOMAIN e = Fields /\ e.at \in Int
  BY EventFields
<1>3. resolved(Runs[r], i) = [e EXCEPT !.at = start + e.at + Runs[r].offset]
  BY DEF resolved
<1>4. start + e.at + Runs[r].offset = Anchor(r, e.band) + e.at
  <2>1. start \in Int /\ Runs[r].offset \in Int
    BY ScenarioAssumption DEF sealedEpochStart, floorToHour, HOUR
  <2> QED BY <1>2, <2>1 DEF Anchor, SealedStart, LiveStart
<1> HIDE DEF e, start
<1>5. Payload[<<r, i>>] = [e EXCEPT !.at = Anchor(r, e.band) + e.at]
  BY <1>1, <1>3, <1>4
<1> QED
  BY <1>2, <1>5 DEF Fields, e

(* The baseline of a zone: a sensor's reading in the sealed hour.           *)
LEMMA BaselineFields ==
    \A i \in 1..23 :
       LET e == SCENARIO_EVENTS[i] IN
       /\ e.band = "sealed" /\ e.at = 300 /\ e.zone = i - 1 /\ e.source = "sensor"
       /\ e.witness = <<"device", i - 1, 0>>
       /\ \/ e.status = "grid_up" /\ e.voltage = 10700 /\ e.expect = 9000
          \/ e.status = "grid_down" /\ e.voltage = 0 /\ e.expect = 9500
          \/ e.status = "unknown" /\ e.expect = 0
<1> SUFFICES ASSUME NEW i \in 1..23
             PROVE  LET e == baseline(i - 1) IN
                    /\ e.band = "sealed" /\ e.at = 300 /\ e.zone = i - 1 /\ e.source = "sensor"
                    /\ e.witness = <<"device", i - 1, 0>>
                    /\ \/ e.status = "grid_up" /\ e.voltage = 10700 /\ e.expect = 9000
                       \/ e.status = "grid_down" /\ e.voltage = 0 /\ e.expect = 9500
                       \/ e.status = "unknown" /\ e.expect = 0
  BY EventsByPlace
<1> QED
  BY DEF baseline, sensor, MINUTE, NoCandidate

(* The events of the same zone that are sent before the i-th.               *)
Earlier(i) == {j \in 1..i - 1 : SCENARIO_EVENTS[j].zone = SCENARIO_EVENTS[i].zone}

LEMMA ZonesByPlace ==
    /\ \A i \in 1..23 : SCENARIO_EVENTS[i].zone = i - 1
    /\ \A i \in 24..27 : SCENARIO_EVENTS[i].zone = 0
    /\ \A i \in 28..29 : SCENARIO_EVENTS[i].zone = 10
    /\ SCENARIO_EVENTS[30].zone = 6
    /\ \A i \in 31..33 : SCENARIO_EVENTS[i].zone = 19
    /\ SCENARIO_EVENTS[34].zone = 12 /\ SCENARIO_EVENTS[35].zone = 8
    /\ SCENARIO_EVENTS[36].zone = 14
    /\ \A i \in 37..38 : SCENARIO_EVENTS[i].zone = 16
  BY BaselineFields, ActsByPlace DEF sensor, report

LEMMA BeforeIs ==
    /\ \A i \in 1..23 : Earlier(i) = {}
    /\ Earlier(24) = {1} /\ Earlier(25) = {1, 24} /\ Earlier(26) = {1, 24, 25}
    /\ Earlier(27) = {1, 24, 25, 26}
    /\ Earlier(28) = {11} /\ Earlier(29) = {11, 28} /\ Earlier(30) = {7}
    /\ Earlier(31) = {20} /\ Earlier(32) = {20, 31} /\ Earlier(33) = {20, 31, 32}
    /\ Earlier(34) = {13} /\ Earlier(35) = {9} /\ Earlier(36) = {15}
    /\ Earlier(37) = {17} /\ Earlier(38) = {17, 37}
<1>1. \A i \in 1..23 : Earlier(i) = {}
  BY ZonesByPlace DEF Earlier
<1>2. Earlier(24) = {1} /\ Earlier(25) = {1, 24}
  BY ZonesByPlace DEF Earlier
<1>3. Earlier(26) = {1, 24, 25}
  BY ZonesByPlace DEF Earlier
<1>4. Earlier(27) = {1, 24, 25, 26}
  BY ZonesByPlace DEF Earlier
<1>5. Earlier(28) = {11} /\ Earlier(30) = {7}
  BY ZonesByPlace DEF Earlier
<1>6. Earlier(29) = {11, 28}
  BY ZonesByPlace DEF Earlier
<1>7. Earlier(31) = {20} /\ Earlier(32) = {20, 31}
  BY ZonesByPlace DEF Earlier
<1>8. Earlier(33) = {20, 31, 32}
  BY ZonesByPlace DEF Earlier
<1>9. Earlier(34) = {13} /\ Earlier(35) = {9} /\ Earlier(36) = {15}
  BY ZonesByPlace DEF Earlier
<1>10. Earlier(37) = {17} /\ Earlier(38) = {17, 37}
  BY ZonesByPlace DEF Earlier
<1> QED
  BY <1>1, <1>2, <1>3, <1>4, <1>5, <1>6, <1>7, <1>8, <1>9, <1>10

(* The instance counts as this module does.                                 *)
LEMMA SameCardinality == \A S : Api!Cardinality(S) = Cardinality(S)
  BY DEF Api!Cardinality, Cardinality

(* What a reading is worth that no other witness confirms or contests, that *)
(* one confirms, and that one contests.                                     *)
LEMMA Worth ==
    ASSUME NEW x, NEW R
    PROVE  LET confidence == Api!confidenceForEvidence(x)
               heard == Api!others(x, R)
               status == Payload[x].status
           IN /\ heard = {} => Api!scoreAgreement(x, R) = Api!MinOf(confidence, 9700)
              /\ \A q : heard = {q} /\ Payload[q].status = status =>
                    Api!scoreAgreement(x, R) =
                       Api!MinOf(confidence
                         + (IF Payload[q].source = Payload[x].source THEN 400 ELSE 800), 9700)
              /\ \A q : heard = {q} /\ {Payload[q].status, status} = {"grid_up", "grid_down"} =>
                    Api!scoreAgreement(x, R) = Api!MinOf(confidence, 8000)
<1> DEFINE confidence == Api!confidenceForEvidence(x)
           heard == Api!others(x, R)
           agreeing == {q \in heard : Payload[q].status = Payload[x].status}
           same == {Payload[q].witness : q \in {p \in agreeing : Payload[p].source = Payload[x].source}}
           cross == {Payload[q].witness : q \in {p \in agreeing : Payload[p].source # Payload[x].source}}
           disputed == \E q \in R : Api!Conflicting(q, x)
           m == Api!Cardinality(same)
           n == Api!Cardinality(cross)
           result == Api!scoreAgreement(x, R)
<1>1. Api!agreementBonus(x, R) = Api!MinOf(400 * m + 800 * n, 1600)
  BY DEF Api!agreementBonus
<1>2. confidence \in Nat
  BY DEF Api!confidenceForEvidence
<1>3. disputed <=> \E q \in heard : {Payload[q].status, Payload[x].status} = {"grid_up", "grid_down"}
  BY DEF Api!Conflicting, Api!others
<1>4. Api!Cardinality({}) = 0 /\ \A w : Api!Cardinality({w}) = 1
  BY FS_EmptySet, FS_Singleton, SameCardinality
<1>5. /\ heard = {} => m = 0 /\ n = 0
      /\ \A q : heard = {q} /\ Payload[q].status = Payload[x].status =>
            IF Payload[q].source = Payload[x].source THEN m = 1 /\ n = 0 ELSE m = 0 /\ n = 1
      /\ \A q : heard = {q} /\ Payload[q].status # Payload[x].status => m = 0 /\ n = 0
  <2>1. ASSUME heard = {} PROVE m = 0 /\ n = 0
    <3>1. same = {} /\ cross = {}
      BY <2>1
    <3> QED BY <1>4, <3>1
  <2>2. ASSUME NEW q, heard = {q}, Payload[q].status = Payload[x].status,
               Payload[q].source = Payload[x].source
        PROVE  m = 1 /\ n = 0
    <3>1. same = {Payload[q].witness} /\ cross = {}
      BY <2>2
    <3> HIDE DEF same, cross
    <3> QED BY <1>4, <3>1
  <2>3. ASSUME NEW q, heard = {q}, Payload[q].status = Payload[x].status,
               Payload[q].source # Payload[x].source
        PROVE  m = 0 /\ n = 1
    <3>1. same = {} /\ cross = {Payload[q].witness}
      BY <2>3
    <3> HIDE DEF same, cross
    <3> QED BY <1>4, <3>1
  <2>4. ASSUME NEW q, heard = {q}, Payload[q].status # Payload[x].status PROVE m = 0 /\ n = 0
    <3>1. same = {} /\ cross = {}
      BY <2>4
    <3> HIDE DEF same, cross
    <3> QED BY <1>4, <3>1
  <2> HIDE DEF m, n, heard
  <2> QED BY <2>1, <2>2, <2>3, <2>4
<1>6. result = LET b == IF 400 * m + 800 * n < 1600 THEN 400 * m + 800 * n ELSE 1600
              IN  Api!MinOf(confidence + b, IF disputed THEN 8000 ELSE 9700)
  <2> HIDE DEF m, n, confidence, disputed
  <2>1. result = Api!applyAgreement(confidence, Api!agreementBonus(x, R), disputed)
    BY DEF Api!scoreAgreement, confidence, disputed
  <2> QED BY <1>1, <2>1 DEF Api!applyAgreement, Api!MinOf
<1> HIDE DEF confidence, heard, disputed, m, n, result
<1>7. ASSUME heard = {}
      PROVE  result = Api!MinOf(confidence, 9700)
  BY <1>2, <1>3, <1>5, <1>6, <1>7
<1>8. ASSUME NEW q, heard = {q}, Payload[q].status = Payload[x].status
      PROVE  result = Api!MinOf(confidence
                         + (IF Payload[q].source = Payload[x].source THEN 400 ELSE 800), 9700)
  <2>1. ~disputed
    BY <1>3, <1>8
  <2> QED BY <1>2, <1>5, <1>6, <1>8, <2>1
<1>9. ASSUME NEW q, heard = {q}, {Payload[q].status, Payload[x].status} = {"grid_up", "grid_down"}
      PROVE  result = Api!MinOf(confidence, 8000)
  <2>1. disputed /\ Payload[q].status # Payload[x].status
    BY <1>3, <1>9
  <2>2. m = 0 /\ n = 0
    BY <1>5, <1>9, <2>1
  <2> QED BY <1>2, <1>6, <2>1, <2>2
<1> QED
  BY <1>7, <1>8, <1>9 DEF confidence, heard, result

(* Two events of a zone, at most ten minutes apart in the same band.        *)
Near(j, i) ==
    LET e == SCENARIO_EVENTS[i]
        f == SCENARIO_EVENTS[j] IN
    e.band = f.band /\ e.at - f.at <= 600 /\ f.at - e.at <= 600

(* An earlier event of the zone in the other band is far from the live one. *)
EarlierAs(j, i) ==
    LET e == SCENARIO_EVENTS[i]
        f == SCENARIO_EVENTS[j] IN
    \/ e.band = f.band /\ e.at # f.at
    \/ e.band = "live" /\ f.band = "sealed" /\ e.at >= -1200 /\ f.at <= 1200

LEMMA OtherBandIsFar == \A i \in 1..38 : \A j \in Earlier(i) : EarlierAs(j, i)
<1>1. \A j \in 1..23 : SCENARIO_EVENTS[j].band = "sealed" /\ SCENARIO_EVENTS[j].at = 300
  BY BaselineFields
<1>2. /\ SCENARIO_EVENTS[24].at = 1200 /\ SCENARIO_EVENTS[25].at = 1320
      /\ SCENARIO_EVENTS[26].at = 2160 /\ SCENARIO_EVENTS[27].at = 2280
      /\ SCENARIO_EVENTS[28].at = 1800 /\ SCENARIO_EVENTS[29].at = 1980
      /\ SCENARIO_EVENTS[30].at = 3000
      /\ \A j \in 24..30 : SCENARIO_EVENTS[j].band = "sealed"
  BY ActsByPlace DEF sensor, report, MINUTE
<1>3. /\ SCENARIO_EVENTS[31].at = -600 /\ SCENARIO_EVENTS[32].at = -480
      /\ SCENARIO_EVENTS[33].at = -240
      /\ SCENARIO_EVENTS[37].at = -660 /\ SCENARIO_EVENTS[38].at = -120
      /\ \A j \in 31..38 : SCENARIO_EVENTS[j].band = "live" /\ SCENARIO_EVENTS[j].at >= -1200
  BY ActsByPlace DEF sensor, report, MINUTE
<1>4. \A i \in 1..23 : \A j \in Earlier(i) : EarlierAs(j, i)
  BY BeforeIs
<1>5. /\ \A j \in Earlier(24) : EarlierAs(j, 24)
      /\ \A j \in Earlier(25) : EarlierAs(j, 25)
      /\ \A j \in Earlier(26) : EarlierAs(j, 26)
      /\ \A j \in Earlier(27) : EarlierAs(j, 27)
  BY <1>1, <1>2, BeforeIs DEF EarlierAs
<1>6. /\ \A j \in Earlier(28) : EarlierAs(j, 28)
      /\ \A j \in Earlier(29) : EarlierAs(j, 29)
      /\ \A j \in Earlier(30) : EarlierAs(j, 30)
  BY <1>1, <1>2, BeforeIs DEF EarlierAs
<1>7. /\ \A j \in Earlier(31) : EarlierAs(j, 31)
      /\ \A j \in Earlier(32) : EarlierAs(j, 32)
      /\ \A j \in Earlier(33) : EarlierAs(j, 33)
  BY <1>1, <1>3, BeforeIs DEF EarlierAs
<1>8. /\ \A j \in Earlier(34) : EarlierAs(j, 34)
      /\ \A j \in Earlier(35) : EarlierAs(j, 35)
      /\ \A j \in Earlier(36) : EarlierAs(j, 36)
      /\ \A j \in Earlier(37) : EarlierAs(j, 37)
      /\ \A j \in Earlier(38) : EarlierAs(j, 38)
  BY <1>1, <1>3, BeforeIs DEF EarlierAs
<1> QED
  BY <1>4, <1>5, <1>6, <1>7, <1>8

LEMMA BeforeIsEarlier == \A i \in 1..38 : Earlier(i) \subseteq 1..38
  BY DEF Earlier

(* The clock of the run does not matter to how close two requests are.      *)
LEMMA CloseIsNear ==
    ASSUME NEW r \in Invocation, NEW i \in 1..38, NEW j \in Earlier(i)
    PROVE  /\ Api!Close(<<r, j>>, <<r, i>>) <=> Near(j, i)
           /\ Payload[<<r, j>>].at # Payload[<<r, i>>].at
<1> DEFINE e == SCENARIO_EVENTS[i]
           f == SCENARIO_EVENTS[j]
<1>1. j \in 1..38
  BY BeforeIsEarlier
<1>2. Payload[<<r, i>>].at = Anchor(r, e.band) + e.at
  BY RequestSays
<1>3. Payload[<<r, j>>].at = Anchor(r, f.band) + f.at
  BY <1>1, RequestSays
<1>4. e.at \in Int /\ f.at \in Int
  BY <1>1, EventFields
<1>5. \/ e.band = f.band /\ e.at # f.at
      \/ e.band = "live" /\ f.band = "sealed" /\ e.at >= -1200 /\ f.at <= 1200
  <2>1. EarlierAs(j, i)
    BY OtherBandIsFar
  <2> QED BY <2>1 DEF EarlierAs
<1>6. Near(j, i) <=> e.band = f.band /\ e.at - f.at <= 600 /\ f.at - e.at <= 600
  BY DEF Near
<1>7. Api!Close(<<r, j>>, <<r, i>>) <=>
         /\ Payload[<<r, j>>].at - Payload[<<r, i>>].at <= 600
         /\ Payload[<<r, i>>].at - Payload[<<r, j>>].at <= 600
  BY DEF Api!Close, MINUTE
<1>8. SealedStart(r) \in Int /\ LiveStart(r) \in Int /\ LiveStart(r) - SealedStart(r) >= 3600
  BY LiveIsAnHourLater
<1> HIDE DEF e, f
<1>9. Anchor(r, e.band) \in Int /\ Anchor(r, f.band) \in Int
  BY <1>8 DEF Anchor
<1>10. CASE e.band = f.band
  BY <1>2, <1>3, <1>4, <1>5, <1>6, <1>7, <1>9, <1>10
<1>11. CASE e.band = "live" /\ f.band = "sealed" /\ e.at >= -1200 /\ f.at <= 1200
  <2>1. Anchor(r, e.band) - Anchor(r, f.band) >= 3600
    BY <1>8, <1>11 DEF Anchor
  <2> QED BY <1>2, <1>3, <1>4, <1>6, <1>7, <1>9, <1>11, <2>1
<1> QED
  BY <1>5, <1>10, <1>11

(* The requests before the i-th that are of its zone.                       *)
Rows(r, i) == {<<r, j>> : j \in Earlier(i)}

(* The events that confirm or contest the i-th.                             *)
Witnesses(i) ==
    {j \in Earlier(i) : /\ Near(j, i)
                       /\ SCENARIO_EVENTS[j].status # "unknown"
                       /\ SCENARIO_EVENTS[j].witness # SCENARIO_EVENTS[i].witness}

LEMMA OthersAre ==
    ASSUME NEW r \in Invocation, NEW i \in 1..38
    PROVE  Api!others(<<r, i>>, Rows(r, i)) = {<<r, j>> : j \in Witnesses(i)}
<1>1. /\ Payload[<<r, i>>].zone = SCENARIO_EVENTS[i].zone
      /\ Payload[<<r, i>>].witness = SCENARIO_EVENTS[i].witness
  BY RequestSays
<1>2. ASSUME NEW j \in Earlier(i)
      PROVE  <<r, j>> \in Api!others(<<r, i>>, Rows(r, i)) <=> j \in Witnesses(i)
  <2>1. j \in 1..38 /\ j # i /\ SCENARIO_EVENTS[j].zone = SCENARIO_EVENTS[i].zone
    BY BeforeIsEarlier DEF Earlier
  <2>2. /\ Payload[<<r, j>>].zone = SCENARIO_EVENTS[j].zone
        /\ Payload[<<r, j>>].witness = SCENARIO_EVENTS[j].witness
        /\ Payload[<<r, j>>].status = SCENARIO_EVENTS[j].status
    BY <2>1, RequestSays
  <2>3. Api!Close(<<r, j>>, <<r, i>>) <=> Near(j, i)
    BY CloseIsNear
  <2>4. <<r, j>> \in Rows(r, i) /\ <<r, j>> # <<r, i>>
    BY <2>1 DEF Rows
  <2> QED
    BY <1>1, <2>1, <2>2, <2>3, <2>4 DEF Api!others, Witnesses
<1>3. Api!others(<<r, i>>, Rows(r, i)) \subseteq {<<r, j>> : j \in Earlier(i)}
  BY DEF Api!others, Rows
<1>4. Witnesses(i) \subseteq Earlier(i)
  BY DEF Witnesses
<1> QED
  BY <1>2, <1>3, <1>4

(* Only five events meet another witness within ten minutes.                *)
LEMMA WitnessesAre ==
    /\ \A i \in (1..24) \cup {26, 28, 30, 31, 34, 35} : Witnesses(i) = {}
    /\ Witnesses(25) = {24} /\ Witnesses(27) = {26} /\ Witnesses(29) = {28}
    /\ Witnesses(32) = {31} /\ Witnesses(33) = {31}
<1>1. \A j \in 1..23 : SCENARIO_EVENTS[j].band = "sealed" /\ SCENARIO_EVENTS[j].at = 300
  BY BaselineFields
<1>2. /\ SCENARIO_EVENTS[24].at = 1200 /\ SCENARIO_EVENTS[25].at = 1320
      /\ SCENARIO_EVENTS[26].at = 2160 /\ SCENARIO_EVENTS[27].at = 2280
      /\ SCENARIO_EVENTS[28].at = 1800 /\ SCENARIO_EVENTS[29].at = 1980
      /\ SCENARIO_EVENTS[30].at = 3000
      /\ \A j \in 24..30 : SCENARIO_EVENTS[j].band = "sealed"
  BY ActsByPlace DEF sensor, report, MINUTE
<1>3. /\ SCENARIO_EVENTS[31].at = -600 /\ SCENARIO_EVENTS[32].at = -480
      /\ SCENARIO_EVENTS[33].at = -240
      /\ \A j \in 31..38 : SCENARIO_EVENTS[j].band = "live"
  BY ActsByPlace DEF sensor, report, MINUTE
<1>4. /\ SCENARIO_EVENTS[24].status = "grid_down" /\ SCENARIO_EVENTS[26].status = "grid_up"
      /\ SCENARIO_EVENTS[28].status = "grid_down" /\ SCENARIO_EVENTS[31].status = "grid_up"
  BY ActsByPlace DEF sensor, report
<1>5. /\ SCENARIO_EVENTS[24].witness # SCENARIO_EVENTS[25].witness
      /\ SCENARIO_EVENTS[26].witness # SCENARIO_EVENTS[27].witness
  BY ActsByPlace DEF sensor, report
<1>6. /\ SCENARIO_EVENTS[28].witness # SCENARIO_EVENTS[29].witness
      /\ SCENARIO_EVENTS[31].witness # SCENARIO_EVENTS[32].witness
      /\ SCENARIO_EVENTS[31].witness # SCENARIO_EVENTS[33].witness
      /\ SCENARIO_EVENTS[32].witness = SCENARIO_EVENTS[33].witness
  <2>1. \A z, m : <<"wallet", z>> # <<"device", z, m>>
    OBVIOUS
  <2> QED BY <2>1, ActsByPlace DEF sensor, report
<1>7. \A i \in 1..23 : Witnesses(i) = {}
  BY BeforeIs DEF Witnesses
<1>8. Witnesses(24) = {} /\ Witnesses(26) = {} /\ Witnesses(28) = {} /\ Witnesses(30) = {}
  BY <1>1, <1>2, BeforeIs DEF Witnesses, Near
<1>9. Witnesses(31) = {} /\ Witnesses(34) = {} /\ Witnesses(35) = {}
  BY <1>1, <1>3, BeforeIs DEF Witnesses, Near
<1>10. Witnesses(25) = {24} /\ Witnesses(27) = {26}
  BY <1>1, <1>2, <1>4, <1>5, BeforeIs DEF Witnesses, Near
<1>11. Witnesses(29) = {28}
  BY <1>1, <1>2, <1>4, <1>6, BeforeIs DEF Witnesses, Near
<1>12. Witnesses(32) = {31} /\ Witnesses(33) = {31}
  BY <1>1, <1>3, <1>4, <1>6, BeforeIs DEF Witnesses, Near
<1> QED
  BY <1>7, <1>8, <1>9, <1>10, <1>11, <1>12

(* What an event is worth alone.                                            *)
alone(i) ==
    LET e == SCENARIO_EVENTS[i] IN
    IF e.source = "reporter" THEN 6500 ELSE IF e.status = "grid_down" THEN 9500 ELSE 9000

(* Whom the hand-worked confidences of the scenario agree with.             *)
LEMMA ExpectedByPlace ==
    \A i \in 1..38 :
       LET e == SCENARIO_EVENTS[i] IN
       IF e.status = "unknown" THEN e.expect = 0
       ELSE /\ e.status \in {"grid_up", "grid_down"} /\ e.source \in {"sensor", "reporter"}
            /\ e.source = "sensor" => IF e.status = "grid_up" THEN e.voltage = 10700
                                      ELSE e.voltage \in 0..5
            /\ e.expect = IF i \in {32, 33} THEN 8000 ELSE IF i \in {25, 29} THEN 9700
                          ELSE IF i = 27 THEN 9400 ELSE alone(i)
<1>1. ASSUME NEW i \in 1..23
      PROVE  LET e == SCENARIO_EVENTS[i] IN
             IF e.status = "unknown" THEN e.expect = 0
             ELSE /\ e.status \in {"grid_up", "grid_down"} /\ e.source \in {"sensor", "reporter"}
                  /\ e.source = "sensor" => IF e.status = "grid_up" THEN e.voltage = 10700
                                            ELSE e.voltage \in 0..5
                  /\ e.expect = IF i \in {32, 33} THEN 8000 ELSE IF i \in {25, 29} THEN 9700
                                ELSE IF i = 27 THEN 9400 ELSE alone(i)
  BY BaselineFields DEF alone
<1>2. ASSUME NEW i \in 24..38
      PROVE  LET e == SCENARIO_EVENTS[i] IN
             IF e.status = "unknown" THEN e.expect = 0
             ELSE /\ e.status \in {"grid_up", "grid_down"} /\ e.source \in {"sensor", "reporter"}
                  /\ e.source = "sensor" => IF e.status = "grid_up" THEN e.voltage = 10700
                                            ELSE e.voltage \in 0..5
                  /\ e.expect = IF i \in {32, 33} THEN 8000 ELSE IF i \in {25, 29} THEN 9700
                                ELSE IF i = 27 THEN 9400 ELSE alone(i)
  BY ActsByPlace DEF alone, sensor, report, NoCandidate
<1> QED
  BY <1>1, <1>2

Known(i) == SCENARIO_EVENTS[i].status # "unknown"

LEMMA WorthAlone ==
    ASSUME NEW r \in Invocation, NEW i \in 1..38, Known(i)
    PROVE  Api!confidenceForEvidence(<<r, i>>) = alone(i)
<1> DEFINE e == SCENARIO_EVENTS[i]
           p == Payload[<<r, i>>]
<1>1. p.source = e.source /\ p.status = e.status /\ p.voltage = e.voltage
  BY RequestSays
<1>2. /\ e.status \in {"grid_up", "grid_down"} /\ e.source \in {"sensor", "reporter"}
      /\ e.source = "sensor" => IF e.status = "grid_up" THEN e.voltage = 10700
                                ELSE e.voltage \in 0..5
  BY ExpectedByPlace DEF Known
<1>3. Unmeasured \notin Nat
  BY ScenarioAssumption
<1>4. Api!confidenceForEvidence(<<r, i>>) =
         IF p.source = "reporter" THEN 6500
         ELSE IF p.status = "grid_down" /\ p.voltage # Unmeasured /\ p.voltage <= 5 THEN 9500
         ELSE IF p.status = "grid_up" /\ p.voltage # Unmeasured /\ p.voltage >= 180 THEN 9000
         ELSE 7200
  BY DEF Api!confidenceForEvidence
<1>5. alone(i) = IF e.source = "reporter" THEN 6500 ELSE IF e.status = "grid_down" THEN 9500 ELSE 9000
  BY DEF alone
<1> HIDE DEF e, p
<1> QED
  BY <1>1, <1>2, <1>3, <1>4, <1>5

(* What the rules say of each event among the earlier ones of its zone is   *)
(* the confidence that was worked out by hand.                              *)
LEMMA ScoreIsExpected ==
    ASSUME NEW r \in Invocation, NEW i \in 1..38, Known(i)
    PROVE  Api!scoreAgreement(<<r, i>>, Rows(r, i)) = SCENARIO_EVENTS[i].expect
<1> DEFINE x == <<r, i>>
           heard == Api!others(x, Rows(r, i))
           result == Api!scoreAgreement(x, Rows(r, i))
<1> SUFFICES result = SCENARIO_EVENTS[i].expect
  OBVIOUS
<1>1. heard = {<<r, j>> : j \in Witnesses(i)}
  BY OthersAre
<1>2. alone(i) \in {6500, 9000, 9500} /\ Api!confidenceForEvidence(x) = alone(i)
  <2>1. Api!confidenceForEvidence(<<r, i>>) = alone(i)
    BY WorthAlone
  <2> QED BY <2>1 DEF alone
<1>3. /\ heard = {} => result = Api!MinOf(alone(i), 9700)
      /\ \A q : heard = {q} /\ Payload[q].status = Payload[x].status =>
            result = Api!MinOf(alone(i) + (IF Payload[q].source = Payload[x].source THEN 400 ELSE 800), 9700)
      /\ \A q : heard = {q} /\ {Payload[q].status, Payload[x].status} = {"grid_up", "grid_down"} =>
            result = Api!MinOf(alone(i), 8000)
  BY <1>2, Worth
<1>4. SCENARIO_EVENTS[i].expect =
         IF i \in {32, 33} THEN 8000 ELSE IF i \in {25, 29} THEN 9700
         ELSE IF i = 27 THEN 9400 ELSE alone(i)
  BY ExpectedByPlace DEF Known
<1>5. \A j \in 1..38 : /\ Payload[<<r, j>>].status = SCENARIO_EVENTS[j].status
                       /\ Payload[<<r, j>>].source = SCENARIO_EVENTS[j].source
  <2> SUFFICES ASSUME NEW j \in 1..38
               PROVE  /\ Payload[<<r, j>>].status = SCENARIO_EVENTS[j].status
                      /\ Payload[<<r, j>>].source = SCENARIO_EVENTS[j].source
    OBVIOUS
  <2> QED BY RequestSays
<1>6. SCENARIO_EVENTS[36].status = "unknown" /\ SCENARIO_EVENTS[37].status = "unknown"
      /\ SCENARIO_EVENTS[38].status = "unknown"
  BY ActsByPlace DEF sensor
<1> HIDE DEF result, heard, x
<1>7. CASE i \in (1..24) \cup {26, 28, 30, 31, 34, 35}
  <2>1. heard = {}
    BY <1>1, <1>7, WitnessesAre
  <2>2. result = alone(i)
    BY <1>2, <1>3, <2>1 DEF Api!MinOf
  <2> QED BY <1>4, <1>7, <2>2
<1>8. CASE i = 25
  <2>1. heard = {<<r, 24>>}
    BY <1>1, <1>8, WitnessesAre
  <2>2. /\ SCENARIO_EVENTS[24].status = "grid_down" /\ SCENARIO_EVENTS[25].status = "grid_down"
        /\ SCENARIO_EVENTS[24].source = "sensor" /\ SCENARIO_EVENTS[25].source = "sensor"
    BY ActsByPlace DEF sensor
  <2>3. Payload[<<r, 24>>].status = Payload[x].status /\ Payload[<<r, 24>>].source = Payload[x].source
    BY <1>5, <1>8, <2>2 DEF x
  <2>4. result = Api!MinOf(alone(i) + 400, 9700)
    BY <1>3, <2>1, <2>3
  <2>5. alone(i) = 9500
    BY <1>8, <2>2 DEF alone
  <2> QED BY <1>4, <1>8, <2>4, <2>5 DEF Api!MinOf
<1>9. CASE i = 27
  <2>1. heard = {<<r, 26>>}
    BY <1>1, <1>9, WitnessesAre
  <2>2. /\ SCENARIO_EVENTS[26].status = "grid_up" /\ SCENARIO_EVENTS[27].status = "grid_up"
        /\ SCENARIO_EVENTS[26].source = "sensor" /\ SCENARIO_EVENTS[27].source = "sensor"
    BY ActsByPlace DEF sensor
  <2>3. Payload[<<r, 26>>].status = Payload[x].status /\ Payload[<<r, 26>>].source = Payload[x].source
    BY <1>5, <1>9, <2>2 DEF x
  <2>4. result = Api!MinOf(alone(i) + 400, 9700)
    BY <1>3, <2>1, <2>3
  <2>5. alone(i) = 9000
    BY <1>9, <2>2 DEF alone
  <2> QED BY <1>4, <1>9, <2>4, <2>5 DEF Api!MinOf
<1>10. CASE i = 29
  <2>1. heard = {<<r, 28>>}
    BY <1>1, <1>10, WitnessesAre
  <2>2. /\ SCENARIO_EVENTS[28].status = "grid_down" /\ SCENARIO_EVENTS[29].status = "grid_down"
        /\ SCENARIO_EVENTS[28].source = "reporter" /\ SCENARIO_EVENTS[29].source = "sensor"
    BY ActsByPlace DEF sensor, report
  <2>3. Payload[<<r, 28>>].status = Payload[x].status /\ Payload[<<r, 28>>].source # Payload[x].source
    BY <1>5, <1>10, <2>2 DEF x
  <2>4. result = Api!MinOf(alone(i) + 800, 9700)
    BY <1>3, <2>1, <2>3
  <2>5. alone(i) = 9500
    BY <1>10, <2>2 DEF alone
  <2> QED BY <1>4, <1>10, <2>4, <2>5 DEF Api!MinOf
<1>11. CASE i \in {32, 33}
  <2>1. heard = {<<r, 31>>}
    BY <1>1, <1>11, WitnessesAre
  <2>2. /\ SCENARIO_EVENTS[31].status = "grid_up" /\ SCENARIO_EVENTS[i].status = "grid_down"
        /\ SCENARIO_EVENTS[i].source = "sensor"
    BY <1>11, ActsByPlace DEF sensor, report
  <2>3. {Payload[<<r, 31>>].status, Payload[x].status} = {"grid_up", "grid_down"}
    <3>1. Payload[<<r, 31>>].status = SCENARIO_EVENTS[31].status
      BY <1>5
    <3>2. Payload[x].status = SCENARIO_EVENTS[i].status
      BY <1>5 DEF x
    <3> QED BY <2>2, <3>1, <3>2
  <2>4. result = Api!MinOf(alone(i), 8000)
    BY <1>3, <2>1, <2>3
  <2>5. alone(i) = 9500
    BY <2>2 DEF alone
  <2> QED BY <1>4, <1>11, <2>4, <2>5 DEF Api!MinOf
<1>12. i \notin {36, 37, 38}
  BY <1>6 DEF Known
<1>13. \/ i \in (1..24) \cup {26, 28, 30, 31, 34, 35} \/ i = 25 \/ i = 27 \/ i = 29 \/ i \in {32, 33}
  BY <1>12
<1> QED
  BY <1>7, <1>8, <1>9, <1>10, <1>11, <1>13

(* What the requests before the i-th leave in the store, and what the API   *)
(* answers to the i-th then.                                                *)
sentBefore(r, i) == {<<r, j>> : j \in 1..i - 1}

LEMMA AnswerIsExpected ==
    ASSUME NEW r \in Invocation, NEW i \in 1..38, evidence = sentBefore(r, i)
    PROVE  answer(<<r, i>>) = Payload[<<r, i>>].expect
<1>1. inZone(<<r, i>>) = Rows(r, i)
  BY DEF inZone, sentBefore, Rows, Earlier
<1>2. /\ Payload[<<r, i>>].expect = SCENARIO_EVENTS[i].expect
      /\ Payload[<<r, i>>].status = SCENARIO_EVENTS[i].status
  BY RequestSays
<1>3. ~\E y \in Rows(r, i) : sameKey(<<r, i>>, y)
  <2> SUFFICES ASSUME NEW j \in Earlier(i), sameKey(<<r, i>>, <<r, j>>) PROVE FALSE
    BY DEF Rows
  <2>1. Payload[<<r, j>>].at # Payload[<<r, i>>].at
    BY CloseIsNear
  <2> QED BY <2>1 DEF sameKey
<1>4. answer(<<r, i>>) = IF Payload[<<r, i>>].status = "unknown" THEN 0
                         ELSE Api!scoreAgreement(<<r, i>>, Rows(r, i))
  BY <1>1, <1>3 DEF answer
<1>5. CASE SCENARIO_EVENTS[i].status = "unknown"
  <2>1. SCENARIO_EVENTS[i].expect = 0
    BY <1>5, ExpectedByPlace
  <2> QED BY <1>2, <1>4, <1>5, <2>1
<1>6. CASE Known(i)
  <2>1. Api!scoreAgreement(<<r, i>>, Rows(r, i)) = SCENARIO_EVENTS[i].expect
    BY <1>6, ScoreIsExpected
  <2> QED BY <1>2, <1>4, <1>6, <2>1 DEF Known
<1> QED
  BY <1>5, <1>6 DEF Known

LEMMA ExpectedIsNoDuplicate ==
    ASSUME NEW r \in Invocation, NEW i \in 1..38
    PROVE  Payload[<<r, i>>].expect # Duplicate
<1>1. Payload[<<r, i>>].expect = SCENARIO_EVENTS[i].expect
  BY RequestSays
<1>2. SCENARIO_EVENTS[i].expect \in Nat
  BY ExpectedByPlace DEF alone
<1> QED
  BY <1>1, <1>2 DEF Duplicate

Turns == [run : Invocation, first : Invocation,
          step : {"send", "replay", "review", "chain", "done"}, event : 1..38]

(* The first run is alone with its own requests until a later one starts,   *)
(* which has a later clock and is never the first again.                    *)
FirstRunInv ==
    /\ turn \in Turns
    /\ turn.run # turn.first => Runs[turn.run].clock > Runs[turn.first].clock
    /\ turn.run = turn.first /\ turn.step = "send" => evidence = sentBefore(turn.first, turn.event)
    /\ turn.run = turn.first /\ turn.step = "replay" => evidence = sentBefore(turn.first, 39)
    /\ FirstRunPasses

LEMMA ChecksGrow ==
    ASSUME FirstRunPasses, turn'.first = turn.first, NEW name, NEW status,
           record(name, status), turn.run # turn.first \/ status # "fail"
    PROVE  FirstRunPasses'
  BY DEF FirstRunPasses, checksOf, record

LEMMA SendKeepsFirstRun == FirstRunInv /\ sendEvent => FirstRunInv'
<1> SUFFICES ASSUME FirstRunInv, sendEvent PROVE FirstRunInv'
  OBVIOUS
<1> DEFINE x == <<turn.run, turn.event>>
<1>1. /\ turn.run \in Invocation /\ turn.first \in Invocation /\ turn.event \in 1..38
      /\ FirstRunPasses /\ turn.step = "send"
  BY DEF FirstRunInv, Turns, sendEvent
<1>2. turn' = IF turn.event = 38 THEN [turn EXCEPT !.step = "replay"]
              ELSE [turn EXCEPT !.event = @ + 1]
  BY EventsByPlace DEF sendEvent
<1>3. IF answer(x) = Duplicate
      THEN record(Payload[x].act, "warn") /\ UNCHANGED evidence
      ELSE verifyEvent(Payload[x], answer(x)) /\ evidence' = evidence \cup {x}
  BY DEF sendEvent, ingest
<1>4. /\ turn' \in Turns
      /\ turn'.run = turn.run /\ turn'.first = turn.first
      /\ IF turn.event = 38 THEN turn'.step = "replay"
         ELSE turn'.step = "send" /\ turn'.event = turn.event + 1
  BY <1>1, <1>2 DEF FirstRunInv, Turns
<1>5. turn'.run # turn'.first => Runs[turn'.run].clock > Runs[turn'.first].clock
  BY <1>4 DEF FirstRunInv
<1>6. CASE turn.run # turn.first
  <2>1. \E status : record(Payload[x].act, status)
    BY <1>3 DEF verifyEvent
  <2>2. FirstRunPasses'
    BY <1>1, <1>4, <1>6, <2>1, ChecksGrow
  <2> QED BY <1>4, <1>5, <1>6, <2>2 DEF FirstRunInv
<1>7. CASE turn.run = turn.first
  <2>1. evidence = sentBefore(turn.first, turn.event)
    BY <1>1, <1>7 DEF FirstRunInv
  <2>2. answer(x) = Payload[x].expect
    BY <1>1, <1>7, <2>1, AnswerIsExpected
  <2>3. answer(x) # Duplicate
    BY <1>1, <2>2, ExpectedIsNoDuplicate
  <2>4. record(Payload[x].act, "pass") /\ evidence' = evidence \cup {x}
    BY <1>3, <2>2, <2>3 DEF verifyEvent
  <2>5. FirstRunPasses'
    BY <1>1, <1>4, <2>4, ChecksGrow
  <2>6. evidence' = sentBefore(turn.first, turn.event + 1)
    BY <1>1, <1>7, <2>1, <2>4 DEF sentBefore
  <2> QED BY <1>1, <1>4, <1>5, <1>7, <2>5, <2>6 DEF FirstRunInv
<1> QED
  BY <1>6, <1>7

LEMMA ReplayKeepsFirstRun == FirstRunInv /\ checkIdempotentReplay => FirstRunInv'
<1> SUFFICES ASSUME FirstRunInv, checkIdempotentReplay PROVE FirstRunInv'
  OBVIOUS
<1>1. /\ turn.run \in Invocation /\ turn.first \in Invocation
      /\ FirstRunPasses /\ turn.step = "replay" /\ turn' = [turn EXCEPT !.step = "review"]
  BY DEF FirstRunInv, Turns, checkIdempotentReplay
<1>2. /\ turn' \in Turns
      /\ turn'.run = turn.run /\ turn'.first = turn.first /\ turn'.step = "review"
  BY <1>1 DEF FirstRunInv, Turns
<1>3. turn.run # turn.first => Runs[turn.run].clock > Runs[turn.first].clock
  BY DEF FirstRunInv
<1> DEFINE status == IF \A x \in Act("S2") : \E y \in evidence : sameKey(x, y) THEN "pass" ELSE "fail"
<1>4. record("replay", status)
  BY DEF checkIdempotentReplay
<1>5. turn.run = turn.first => status # "fail"
  <2> SUFFICES ASSUME turn.run = turn.first, NEW x \in Act("S2")
               PROVE  \E y \in evidence : sameKey(x, y)
    OBVIOUS
  <2>1. evidence = sentBefore(turn.run, 39)
    BY <1>1 DEF FirstRunInv
  <2>2. x \in Invocation \X (1..38) /\ x[1] = turn.run
    BY EventsByPlace DEF Act, Telemetry
  <2>3. x = <<turn.run, x[2]>> /\ x[2] \in 1..38
    BY <2>2
  <2>4. x \in evidence
    BY <2>1, <2>3 DEF sentBefore
  <2> QED BY <2>4 DEF sameKey
<1> HIDE DEF status
<1>6. FirstRunPasses'
  BY <1>1, <1>2, <1>4, <1>5, ChecksGrow
<1> QED
  BY <1>2, <1>3, <1>6 DEF FirstRunInv

LEMMA RestKeepsFirstRun ==
    ASSUME FirstRunInv,
           \/ resolveReviewQueue \/ driveChain \/ backgroundSweep
           \/ \E i \in Invocation : Again(i)
           \/ UNCHANGED svars
    PROVE  FirstRunInv'
<1>1. FirstRunPasses /\ turn.run \in Invocation /\ turn.first \in Invocation
  BY DEF FirstRunInv, Turns
<1>2. CASE resolveReviewQueue
  <2>1. /\ turn.step = "review" /\ turn' = [turn EXCEPT !.step = "chain"]
        /\ \E status \in {"pass", "warn"} : record("review", status)
    BY <1>2 DEF resolveReviewQueue
  <2>2. /\ turn' \in Turns
        /\ turn'.run = turn.run /\ turn'.first = turn.first /\ turn'.step = "chain"
    BY <2>1 DEF FirstRunInv, Turns
  <2>3. FirstRunPasses'
    BY <1>1, <2>1, <2>2, ChecksGrow
  <2> QED BY <2>2, <2>3 DEF FirstRunInv
<1>3. CASE driveChain
  <2>1. /\ turn.step = "chain" /\ turn' \in {turn, [turn EXCEPT !.step = "done"]}
        /\ checks' = checks
    BY <1>3 DEF driveChain
  <2>2. /\ turn' \in Turns
        /\ turn'.run = turn.run /\ turn'.first = turn.first /\ turn'.step \in {"chain", "done"}
    BY <2>1 DEF FirstRunInv, Turns
  <2>3. FirstRunPasses'
    BY <1>1, <2>1, <2>2 DEF FirstRunPasses, checksOf
  <2> QED BY <2>2, <2>3 DEF FirstRunInv
<1>4. CASE backgroundSweep \/ UNCHANGED svars
  <2>1. UNCHANGED <<turn, evidence, checks>>
    BY <1>4 DEF backgroundSweep, svars
  <2> QED BY <2>1 DEF FirstRunInv, FirstRunPasses, checksOf
<1>5. ASSUME NEW i \in Invocation, Again(i) PROVE FirstRunInv'
  <2>1. /\ turn' = [turn EXCEPT !.run = i, !.step = "send", !.event = 1]
        /\ Runs[i].clock > Runs[turn.run].clock /\ checks' = checks
    BY <1>5 DEF Again
  <2>2. /\ turn' \in Turns
        /\ turn'.run = i /\ turn'.first = turn.first
    <3>1. turn \in Turns /\ 1 \in 1..38
      BY DEF FirstRunInv
    <3> QED BY <2>1, <3>1 DEF Turns
  <2>3. Runs[i].clock > Runs[turn.first].clock
    <3>1. Runs[i].clock \in Nat /\ Runs[turn.run].clock \in Nat /\ Runs[turn.first].clock \in Nat
      BY <1>1, ScenarioAssumption
    <3>2. turn.run # turn.first => Runs[turn.run].clock > Runs[turn.first].clock
      BY DEF FirstRunInv
    <3> QED BY <2>1, <3>1, <3>2
  <2>4. i # turn.first
    BY <1>1, <2>3, ScenarioAssumption
  <2>5. FirstRunPasses'
    BY <1>1, <2>1, <2>2 DEF FirstRunPasses, checksOf
  <2> QED BY <2>2, <2>3, <2>4, <2>5 DEF FirstRunInv
<1> QED
  BY <1>2, <1>3, <1>4, <1>5

(* Whatever the minute at which the scenario is started and whatever its    *)
(* --run-offset, its first run sees the confidences it expects.             *)
THEOREM FirstRunPassesProven == ScenarioSpec => []FirstRunPasses
<1>1. ScenarioInit => FirstRunInv
  <2> SUFFICES ASSUME ScenarioInit PROVE FirstRunInv
    OBVIOUS
  <2>1. PICK i \in Invocation : turn = [run |-> i, first |-> i, step |-> "send", event |-> 1]
    BY DEF ScenarioInit
  <2>2. evidence = {} /\ checks = {}
    BY DEF ScenarioInit
  <2>3. sentBefore(i, 1) = {}
    BY DEF sentBefore
  <2> QED
    BY <2>1, <2>2, <2>3 DEF FirstRunInv, FirstRunPasses, checksOf, Turns
<1>2. FirstRunInv /\ [ScenarioNext]_svars => FirstRunInv'
  BY SendKeepsFirstRun, ReplayKeepsFirstRun, RestKeepsFirstRun DEF ScenarioNext
<1>3. FirstRunInv => FirstRunPasses
  BY DEF FirstRunInv
<1> QED
  BY <1>1, <1>2, <1>3, PTL DEF ScenarioSpec

=============================================================================
