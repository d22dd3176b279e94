----------------------------- MODULE EpochStore -----------------------------
(***************************************************************************)
(* The Postgres tables the evidence pipeline and the chain relayer share:  *)
(* agent_decisions, epoch_scores and chain_commitments, with the queries   *)
(* of pipeline/service.ts and result-sink.ts on them.  One SQL statement   *)
(* is atomic and is one operator here; nothing in the code opens a         *)
(* transaction around several of them.                                     *)
(***************************************************************************)
EXTENDS Naturals, FiniteSets, Functions

CONSTANTS
    Candidate,      \* rows of candidate_events
    Slot,           \* (zone, hourly epoch) pairs
    SlotOf,         \* the slot of a candidate's window_end (floorToEpoch)
    Confidence,     \* a candidate's confidence, in percent
    Restored,       \* candidates with status "restored"; the rest are outages
    Tx,             \* transaction hashes
    NoTx,           \* null in chain_commitments.tx_hash
    NoScore         \* the absence of an epoch_scores row

VARIABLES
    decisions,      \* agent_decisions.decision by candidate and agent_name
    scores,         \* epoch_scores by slot
    commitments     \* chain_commitments by slot: one per epoch score

dbvars == <<decisions, scores, commitments>>

(* agent_name: "deterministic-policy-gate" and the AI worker's. *)
Agent == {"gate", "ai"}
Verdict == {"approve", "escalate", "reject"}

(* A score is the votes it counts: how often each candidate appears in the *)
(* join.  The uptime and the evidence hash are functions of them.          *)
Votes == [Candidate -> 0..2]
NoVotes == [c \in Candidate |-> 0]

ASSUME StoreAssumption ==
    /\ IsFiniteSet(Candidate) /\ IsFiniteSet(Slot)
    /\ SlotOf \in [Candidate -> Slot]
    /\ Confidence \in [Candidate -> 0..100]
    /\ Restored \subseteq Candidate
    /\ NoTx \notin Tx
    /\ NoScore \notin Votes

Commitment ==
    [status : {"none", "pending", "confirmed", "failed"},
     txHash : Tx \cup {NoTx},
     createdAt : 0..Cardinality(Slot)]

NoCommitment == [status |-> "none", txHash |-> NoTx, createdAt |-> 0]

StoreInit ==
    /\ decisions = [c \in Candidate |-> [a \in Agent |-> "none"]]
    /\ scores = [s \in Slot |-> NoScore]
    /\ commitments = [s \in Slot |-> NoCommitment]

Exists(s) == commitments[s].status # "none"

(* Fault: the join forgets `decision = 'approve'`. *)
approvedVotes_AnyRow(s) ==
    [c \in Candidate |->
        IF SlotOf[c] = s
          THEN Cardinality({a \in Agent : decisions[c][a] # "none"}) ELSE 0]

(* The join of candidates with their approving decisions in one slot. *)
approvedVotes(s) ==
    [c \in Candidate |->
        IF SlotOf[c] = s
          THEN Cardinality({a \in Agent : decisions[c][a] = "approve"})
          ELSE 0]

(* Fault: the total counts candidates, the restored rows of the join. *)
TotalVotes_Distinct(v) == Cardinality({c \in Candidate : v[c] > 0})

TotalVotes(v) == SumFunction(v)
UpVotes(v) == SumFunction([c \in Restored |-> v[c]])

(* Math.round((up / total) * 10_000), rounding halves up. *)
uptimeBps(v) ==
    IF TotalVotes(v) = 0 THEN 0
    ELSE (20000 * UpVotes(v) + TotalVotes(v)) \div (2 * TotalVotes(v))

upsertDecision(c, a, v) == decisions' = [decisions EXCEPT ![c][a] = v]

upsertEpochScore(s, v) == scores' = [scores EXCEPT ![s] = v]

(* Fault: an update in place of the upsert. *)
upsertPendingCommitment_UpdateOnly(s) ==
    commitments' = [commitments EXCEPT ![s].status = IF Exists(s) THEN "pending" ELSE @]

(* A new row is stamped with its creation order; on conflict the upsert    *)
(* sets the status alone and keeps the transaction hash of the old row.    *)
upsertPendingCommitment(s) ==
    commitments' = [commitments EXCEPT ![s] =
        IF Exists(s) THEN [@ EXCEPT !.status = "pending"]
        ELSE [status |-> "pending", txHash |-> NoTx,
              createdAt |-> Cardinality({r \in Slot : Exists(r)})]]

(* `order by created_at asc limit n` over the slots of S. *)
Oldest(S, n) ==
    {s \in S : Cardinality({r \in S : commitments[r].createdAt
                                        < commitments[s].createdAt}) < n}

StoreTypeOK ==
    /\ decisions \in [Candidate -> [Agent -> Verdict \cup {"none"}]]
    /\ scores \in [Slot -> Votes \cup {NoScore}]
    /\ commitments \in [Slot -> Commitment]

=============================================================================
