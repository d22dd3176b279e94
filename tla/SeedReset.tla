------------------------------ MODULE SeedReset ------------------------------
(***************************************************************************)
(* scripts/seed-demo-data.ts run again and again on the database of a live *)
(* system: "run the seed before each dry run" (demo-script.md:18).  The    *)
(* seed writes its own rows by id in one transaction, whatever the tasks   *)
(* and sweeps of EpochProof are doing; rows of other ids stay.             *)
(***************************************************************************)
EXTENDS EpochProof

CONSTANTS
    SeedApproved,   \* outageCandidate, stableCandidate: approved by the gate
    SeedDisputed,   \* restoredCandidate: escalated by the AI agent
    SeedOrder,      \* the order of the seeded rows' created_at, by slot
    MaxSeeds        \* bounds the runs of the script

(* The rest are like rejectCandidate: rejected in the AI agent's name.     *)
ASSUME SeedAssumption ==
    /\ SeedApproved \subseteq Candidate
    /\ SeedDisputed \subseteq Candidate \ SeedApproved
    /\ \A c \in SeedApproved : Confidence[c] >= 85
    /\ SeedOrder \in [Slot -> 0..Cardinality(Slot)]
    /\ MaxSeeds \in Nat

VARIABLES
    seeds,      \* runs of the script
    ruled       \* history: candidates a reviewer decided since the last run

svars == <<vars, seeds, ruled>>

SeedSlots == {SlotOf[c] : c \in SeedApproved}

(* Fault: the dispute is seeded as already approved by the AI agent. *)
seedAgentDecisions_Resolved(old) ==
    [c \in Candidate |->
        IF c \in SeedApproved THEN [old[c] EXCEPT !["gate"] = "approve"]
        ELSE [old[c] EXCEPT !["ai"] = "approve"]]

(* One row per candidate, in the name of the gate or of an agent; a row    *)
(* the candidate has in the other's name stays as it is.  The agent of the *)
(* seed ("evidence-verification-agent") is not the worker's, but no job    *)
(* runs for these candidates, so "ai" stands for its row here.             *)
seedAgentDecisions(old) ==
    [c \in Candidate |->
        IF c \in SeedApproved THEN [old[c] EXCEPT !["gate"] = "approve"]
        ELSE [old[c] EXCEPT !["ai"] =
                IF c \in SeedDisputed THEN "escalate" ELSE "reject"]]

(* The uptime and the hash of a seeded score are written by hand (0 and    *)
(* 9820, and a sha256 of the ids): its votes here are the candidates whose *)
(* evidence the hash names, which is all the properties ask of a score.    *)
seedEpochScores(old) ==
    [s \in Slot |->
        IF s \in SeedSlots
          THEN [c \in Candidate |->
                   IF c \in SeedApproved /\ SlotOf[c] = s THEN 1 ELSE 0]
          ELSE old[s]]

(* Fault: the commitments are seeded as already confirmed. *)
seedChainCommitments_Confirmed(old) ==
    [s \in Slot |->
        IF s \in SeedSlots
          THEN [status |-> "confirmed", txHash |-> NoTx, createdAt |-> SeedOrder[s]]
          ELSE old[s]]

(* Back to pending without a transaction, whatever the row said. *)
seedChainCommitments(old) ==
    [s \in Slot |->
        IF s \in SeedSlots
          THEN [status |-> "pending", txHash |-> NoTx, createdAt |-> SeedOrder[s]]
          ELSE old[s]]

(* The gate stands behind the rows the seed writes in its name. *)
SeedApprovers(old) ==
    [c \in Candidate |-> IF c \in SeedApproved THEN old[c] \cup {"gate"} ELSE old[c]]

(* A database that has been seeded once; no ingestion ever detects the     *)
(* seeded candidates, so no pipeline or AI job runs for them.              *)
SeedInit ==
    /\ LET none == [c \in Candidate |-> [a \in Agent |-> "none"]] IN
         decisions = seedAgentDecisions(none)
    /\ scores = seedEpochScores([s \in Slot |-> NoScore])
    /\ commitments = seedChainCommitments([s \in Slot |-> NoCommitment])
    /\ detected = Candidate
    /\ pc = [t \in Task |-> "idle"]
    /\ readVotes = [t \in Task |-> NoScore]
    /\ jobs = [c \in Candidate |-> 0]
    /\ redisUnavailable = FALSE
    /\ approvers = SeedApprovers([c \in Candidate |-> {}])
    /\ RelayerInit
    /\ seeds = 1
    /\ ruled = {}

(* main: begin, the tables one after the other, commit.  Its writes take   *)
(* nothing from what they replace, so the commit is where it happens.      *)
Seed ==
    /\ seeds < MaxSeeds
    /\ seeds' = seeds + 1
    /\ decisions' = seedAgentDecisions(decisions)
    /\ scores' = seedEpochScores(scores)
    /\ commitments' = seedChainCommitments(commitments)
    /\ approvers' = SeedApprovers(approvers)
    /\ ruled' = {}
    /\ UNCHANGED <<detected, pc, readVotes, jobs, redisUnavailable, relayervars>>

(* What goes on meanwhile; `ruled` notes the reviewers' decisions. *)
Meanwhile ==
    /\ Next
    /\ ruled' = ruled \cup {c \in Candidate : decisions'[c] # decisions[c]}
    /\ UNCHANGED seeds

SeedNext == Seed \/ Meanwhile

SeedSpec == SeedInit /\ [][SeedNext]_svars

-----------------------------------------------------------------------------
(* The tables keep their types across runs of the script. *)
SeedTypeOK ==
    /\ TypeOK
    /\ seeds \in 1..MaxSeeds
    /\ ruled \subseteq Candidate

-----------------------------------------------------------------------------
(* What the documents say of the seed and the code does not keep.          *)

(* It resets "the visible demo path to known data" (demo-script.md:18): as *)
(* long as no reviewer has decided since, the scores count what the seed   *)
(* approves and nothing else.  Neither an approval in flight nor a slot    *)
(* the seed has no row for is reset.                                       *)
ResetIsKept ==
    ruled = {} => \A s \in Slot : scores[s] # NoScore /\ Quiet(s) =>
        \A c \in Candidate : scores[s][c] > 0 => c \in SeedApproved

(* Nobody hand-writes "a 'confirmed' row with a fabricated tx hash"        *)
(* (seed-demo-data.ts:28-30): a confirmed commitment has its hash.  A      *)
(* sweep that looked the hash up before the reset confirms the row after.  *)
ConfirmedHasHash ==
    \A s \in Slot : commitments[s].status = "confirmed" => commitments[s].txHash # NoTx

(* "Pending seed records are not proof"; the sweep is to "submit and       *)
(* confirm them" (demo-script.md:18): without faults none ends as failed,  *)
(* also when its epoch had been submitted before the reset.                *)
SeededNeverFail == \A s \in SeedSlots : commitments[s].status # "failed"

=============================================================================
