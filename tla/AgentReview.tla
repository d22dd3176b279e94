----------------------------- MODULE AgentReview -----------------------------
(***************************************************************************)
(* One agent-review of the worker: orchestrateCandidateReview of           *)
(* agent-worker/orchestrator.ts with the tools and the two agents of       *)
(* packages/ai.  Its queries are statements of their own, while evidence   *)
(* of the zone keeps arriving; a model may answer, refuse, talk nonsense   *)
(* or be too late.                                                         *)
(***************************************************************************)
EXTENDS Integers, FiniteSets, Sequences

CONSTANTS
    Message,        \* readings and reports of the candidate's zone
    Content,        \* [Message -> what it says]
    Instant,        \* times, within windowDays of the candidate's window
    WindowStart, WindowEnd,     \* the candidate's window
    Named,          \* the providers the job names
    WindowRows,     \* the `limit` of getTelemetryWindow
    Unread          \* an answer, or an outcome, there is not yet

Sources == {"sensor", "reporter"}
Statuses == {"grid_up", "grid_down", "unknown"}
Confidences == {"low", "high"}      \* below 0.85, or not
Decisions == {"approve", "escalate", "reject"}

ASSUME ReviewAssumption ==
    /\ {WindowStart, WindowEnd} \subseteq Instant /\ Instant \subseteq Int
    /\ \A m \in Message : /\ Content[m].source \in Sources
                          /\ Content[m].status \in Statuses
                          /\ Content[m].at \in Instant
    /\ WindowRows \in Nat

VARIABLES
    arrived,        \* evidence_events of the zone, in the order of received_at
    telemetryWindow, historicalBaseline, conflictingReports,
    providerMetadata,   \* [provider -> its metadata], as far as read
    step,           \* what orchestrateCandidateReview awaits
    outcome         \* its result

reviewvars == <<arrived, telemetryWindow, historicalBaseline, conflictingReports,
                providerMetadata, step, outcome>>
toolvars == <<telemetryWindow, historicalBaseline, conflictingReports, providerMetadata>>

ProviderOf(m) == Content[m].provider
Senders == {ProviderOf(m) : m \in Message} \cup Named
Stored == {arrived[i] : i \in 1..Len(arrived)}
InWindow == {m \in Stored : Content[m].at \in WindowStart..WindowEnd}

ReviewInit ==
    /\ arrived = <<>>
    /\ telemetryWindow = Unread /\ historicalBaseline = Unread /\ conflictingReports = Unread
    /\ providerMetadata = [p \in {} |-> 0]
    /\ step = "tools"
    /\ outcome = Unread

(* External: another request stores evidence. *)
EvidenceArrives(m) ==
    /\ m \notin Stored
    /\ arrived' = Append(arrived, m)
    /\ UNCHANGED <<toolvars, step, outcome>>

-----------------------------------------------------------------------------
(* `order by observed_at, received_at`: m comes before n. *)
Before(m, n) ==
    \/ Content[m].at < Content[n].at
    \/ /\ Content[m].at = Content[n].at
       /\ \E i, j \in 1..Len(arrived) : i < j /\ arrived[i] = m /\ arrived[j] = n

getTelemetryWindow ==
    /\ step = "tools" /\ telemetryWindow = Unread
    /\ telemetryWindow' =
          {m \in InWindow : Cardinality({n \in InWindow : Before(n, m)}) < WindowRows}
    /\ UNCHANGED <<arrived, historicalBaseline, conflictingReports, providerMetadata, step, outcome>>

(* The counts by status of what was observed before `asOf`. *)
getHistoricalBaseline ==
    /\ step = "tools" /\ historicalBaseline = Unread
    /\ historicalBaseline' = [s \in Statuses |->
          Cardinality({m \in Stored : Content[m].at < WindowEnd /\ Content[m].status = s})]
    /\ UNCHANGED <<arrived, telemetryWindow, conflictingReports, providerMetadata, step, outcome>>

getConflictingReports ==
    /\ step = "tools" /\ conflictingReports = Unread
    /\ LET reports == {m \in InWindow : Content[m].source = "reporter"}
           said == {Content[m].status : m \in reports} \ {"unknown"} IN
       conflictingReports' = [reports |-> reports, hasConflict |-> Cardinality(said) > 1]
    /\ UNCHANGED <<arrived, telemetryWindow, historicalBaseline, providerMetadata, step, outcome>>

(* Fault: only the readings' providers are looked up. *)
providerIds_Telemetry == Named \cup {ProviderOf(m) : m \in telemetryWindow}

providerIds ==
    Named \cup {ProviderOf(m) : m \in telemetryWindow \cup conflictingReports.reports}

(* Promise.all of the three is fulfilled. *)
ToolsRead ==
    /\ step = "tools"
    /\ Unread \notin {telemetryWindow, historicalBaseline, conflictingReports}
    /\ step' = "metadata"
    /\ UNCHANGED <<arrived, toolvars, outcome>>

(* Fault: as the baseline, without what was observed at `asOf`. *)
recentEvidence_Before(p) == {m \in Stored : ProviderOf(m) = p /\ Content[m].at < WindowEnd}

recentEvidence(p) == {m \in Stored : ProviderOf(m) = p /\ Content[m].at <= WindowEnd}

latestStatus(p) ==
    IF recentEvidence(p) = {} THEN "none"
    ELSE LET newest == CHOOSE m \in recentEvidence(p) :
                          \A n \in recentEvidence(p) \ {m} : Before(n, m)
         IN Content[newest].status

getProviderMetadata(p) ==
    /\ step = "metadata" /\ p \in providerIds \ DOMAIN providerMetadata
    /\ providerMetadata' =
          [q \in DOMAIN providerMetadata \cup {p} |->
              IF q = p THEN [recentEvidenceCount |-> Cardinality(recentEvidence(p)),
                             latestStatus |-> latestStatus(p)]
              ELSE providerMetadata[q]]
    /\ UNCHANGED <<arrived, telemetryWindow, historicalBaseline, conflictingReports, step, outcome>>

ContextCollected ==
    /\ step = "metadata" /\ DOMAIN providerMetadata = providerIds
    /\ step' = "analysis"
    /\ UNCHANGED <<arrived, toolvars, outcome>>

(* A query throws, or completeJson does: a timeout, another status than    *)
(* 2xx, no choice, no JSON or the wrong schema.                            *)
Fails ==
    /\ step # "done"
    /\ step' = "done" /\ outcome' = [decision |-> "escalate", by |-> "failure"]
    /\ UNCHANGED <<arrived, toolvars>>

runAnomalyAnalysisAgent ==
    /\ step = "analysis"
    /\ step' = "verification"
    /\ UNCHANGED <<arrived, toolvars, outcome>>

runVerificationAgent(decision, finalConfidence) ==
    /\ step = "verification"
    /\ step' = "done"
    /\ outcome' = IF decision = "approve" /\ finalConfidence = "low"
                  THEN [decision |-> "escalate", by |-> "override"]
                  ELSE [decision |-> decision, by |-> "agents"]
    /\ UNCHANGED <<arrived, toolvars>>

ReviewNext ==
    \/ \E m \in Message : EvidenceArrives(m)
    \/ getTelemetryWindow \/ getHistoricalBaseline \/ getConflictingReports \/ ToolsRead
    \/ \E p \in Senders : getProviderMetadata(p)
    \/ ContextCollected
    \/ Fails
    \/ runAnomalyAnalysisAgent
    \/ \E d \in Decisions, c \in Confidences : runVerificationAgent(d, c)

ReviewSpec == ReviewInit /\ [][ReviewNext]_reviewvars

-----------------------------------------------------------------------------
(* The snapshots and the outcome have their types. *)
ReviewTypeOK ==
    /\ arrived \in Seq(Message)
    /\ telemetryWindow \in {Unread} \cup SUBSET Message
    /\ historicalBaseline \in {Unread} \cup [Statuses -> Nat]
    /\ conflictingReports \in
          {Unread} \cup [reports : SUBSET Message, hasConflict : BOOLEAN]
    /\ DOMAIN providerMetadata \subseteq Senders
    /\ step \in {"tools", "metadata", "analysis", "verification", "done"}
    /\ outcome \in {Unread} \cup
          [decision : Decisions, by : {"failure", "override", "agents"}]

ContextIsRead == step \in {"analysis", "verification"}
Shown == telemetryWindow \cup conflictingReports.reports

(* Whatever arrives between the queries, and wherever the window is cut    *)
(* off, the agents see no evidence whose provider's metadata is missing or *)
(* does not count it, and none from a provider that is said to be silent.  *)
MetadataCountsTheEvidence ==
    ContextIsRead =>
        \A m \in Shown :
            LET p == ProviderOf(m) IN
            /\ p \in DOMAIN providerMetadata
            /\ providerMetadata[p].latestStatus # "none"
            /\ providerMetadata[p].recentEvidenceCount >=
                  Cardinality({n \in Shown : ProviderOf(n) = p})

-----------------------------------------------------------------------------
(* "combined agent context snapshots" (docs/test-plan.md:356): a report of *)
(* the context is in its window's evidence.  It is not if it came between  *)
(* the two queries, or if the window has more rows than the limit.         *)
ContextIsOneSnapshot == ContextIsRead => conflictingReports.reports \subseteq telemetryWindow

(* "judged against local normal" (docs/agent-orchestration.md:63): what    *)
(* the window observed is not part of the normal.                          *)
BaselineIsOfBefore ==
    historicalBaseline # Unread =>
        \A s \in Statuses :
            historicalBaseline[s] <=
                Cardinality({m \in Stored : Content[m].at < WindowStart /\ Content[m].status = s})

=============================================================================
