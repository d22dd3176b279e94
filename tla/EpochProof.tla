----------------------------- MODULE EpochProof -----------------------------
(***************************************************************************)
(* The core loop of GridProof: candidates are approved (ApprovalPipeline), *)
(* their epochs are scored and queued in the shared tables (EpochStore),   *)
(* submitted to the chain and confirmed (ChainRelayer).                    *)
(***************************************************************************)
EXTENDS ApprovalPipeline, ChainRelayer

vars == <<dbvars, taskvars, relayervars>>

Init == PipelineInit /\ RelayerInit

Next ==
    \/ PipelineNext /\ UNCHANGED relayervars
    \/ RelayerNext /\ UNCHANGED taskvars

Spec == Init /\ [][Next]_vars

(* Time passes, the scheduler's timers start the sweeps again and again, a *)
(* sweep that runs goes on with its next row, and the chain executes what  *)
(* is in its mempool.                                                      *)
Sweep(A) == A /\ UNCHANGED taskvars

RelayerFairness ==
    /\ \A s \in Slot : WF_vars(Sweep(EndEpoch(s)))
    /\ \A w \in Submitter :
          /\ WF_vars(Sweep(SubmitScan(w)))
          /\ WF_vars(Sweep(\E s \in Slot :
                SendFails(w, s) \/ \E t \in Tx : commitEpoch(w, s, t)))
          /\ WF_vars(Sweep(StoreTxHash(w)))
    /\ \A i \in Indexer :
          /\ WF_vars(Sweep(IndexScan(i)))
          /\ WF_vars(Sweep(\E s \in Slot : IndexRow(i, s)))
    /\ \A t \in Tx : WF_vars(Sweep(Mine(t)))

FairSpec == Spec /\ PipelineFairness /\ RelayerFairness

-----------------------------------------------------------------------------
TypeOK == PipelineTypeOK /\ RelayerTypeOK

(* What anybody can read from the ledger counts no candidate's evidence    *)
(* that nobody entitled to at its confidence had approved, whatever tasks  *)
(* and sweeps overlap, fail half-way or work from rows that have changed.  *)
LedgerCountsOnlyVetted ==
    \A s \in Slot : ~Chain!isFree(s) => CountsOnlyVetted(ledger[s])

(* The whole loop keeps what the documents promise of a proof: every step  *)
(* of its tasks, sweeps and transactions approves, publishes a vetted      *)
(* score for a free slot, shows what is on the ledger, or hides.           *)
Promise == INSTANCE ProofPromise
             WITH Key <- Slot, Value <- Votes, Empty <- NoScore,
                  trusted <- {c \in Candidate : Vetted(c)},
                  shown <- {s \in Slot : commitments[s].status = "confirmed"}

PromiseIsKept == Promise!PromiseSpec

(* With sweeps that do not overlap or fail and a chain that loses nothing, *)
(* whoever approves a candidate that may be written to the chain gets its  *)
(* epoch confirmed in the end (job-queues.md:59-65, test-plan.md:86-87):   *)
(* no interleaving of tasks and sweeps forgets to queue it, no batch limit *)
(* starves it and no later approval leaves it pending for good.            *)
ApprovalIsConfirmed ==
    \A c \in Candidate \ Preview :
        approvers[c] # {} ~> commitments[SlotOf[c]].status = "confirmed"

(* What that rests on: an approval that may be written to the chain is     *)
(* never forgotten on the way.  Its epoch is queued, or a task is about to *)
(* queue it; and of every epoch that was ever queued the row has not       *)
(* failed, its score is stored, and its transaction, if one was sent, is   *)
(* in the mempool or has succeeded and is the one the row names or the one *)
(* the submitter still has to write down.                                  *)
AboutToQueue(s) ==
    \E t \in Task : SlotOf[t[2]] = s /\ pc[t] \in {"recompute", "score", "commit"}

RowProceeds(s) ==
    LET t == commitments[s].txHash IN
    /\ commitments[s].status # "failed" /\ scores[s] # NoScore
    /\ IF t = NoTx
         THEN Chain!isFree(s) \/ \E w \in Submitter : sent[w] # NoTx /\ txs[sent[w]].slot = s
         ELSE txs[t].slot = s /\ txs[t].status \in {"mempool", "success"}

ApprovalIsOnItsWay ==
    /\ \A c \in Candidate \ Preview :
          approvers[c] # {} => Exists(SlotOf[c]) \/ AboutToQueue(SlotOf[c])
    /\ \A s \in Slot : Exists(s) => RowProceeds(s)

-----------------------------------------------------------------------------
(* What the documents say of a proof and the code does not keep.           *)

(* The proof page shows the "exact epoch score, evidence hash, transaction *)
(* ..." of an epoch (README.md:327): the score shown as confirmed is the   *)
(* one its transaction put on the ledger.                                  *)
ConfirmedScoreIsOnChain ==
    \A s \in Slot : commitments[s].status = "confirmed" => ledger[s] = scores[s]

(* "A successful receipt updates chain_commitments.status = confirmed"     *)
(* (blockchain-indexing.md:7), also when older transactions have been      *)
(* lost and "stay pending and are retried" (blockchain-indexing.md:9).     *)
SuccessIsConfirmed ==
    \A s \in Slot :
        (\E t \in Tx : commitments[s].txHash = t /\ txs[t].status = "success")
        ~> commitments[s].status = "confirmed"


(* "Synthetic demo evidence was not written to mainnet"                    *)
(* (DemoLab.tsx:397), said of a run that had no permission to write.       *)
PreviewsStayOffChain ==
    \A s \in Slot : ~Chain!isFree(s) => \A c \in Preview : ledger[s][c] = 0

=============================================================================
