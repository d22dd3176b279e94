---------------------------- MODULE ChainRelayer ----------------------------
(***************************************************************************)
(* blockchain/service.ts: the sweep that submits queued commitments and    *)
(* the sweep that indexes their receipts, against the chain's mempool and  *)
(* ledger.  The scheduler's timers and the admin endpoints start a sweep   *)
(* whether or not another one is running, so Submitter and Indexer are the *)
(* runs that may overlap.  A sweep works from the rows of its first query. *)
(***************************************************************************)
EXTENDS EpochStore

CONSTANTS
    Submitter, Indexer,         \* runs of the two sweeps that may overlap
    SubmitLimit, IndexLimit,    \* the `limit` of their queries: 5 and 10
    ChainFaults \* what may fail: "send", "lostAnswer", "store", "crash", "drop"

ASSUME RelayerAssumption ==
    SubmitLimit \in Nat \ {0} /\ IndexLimit \in Nat \ {0}

VARIABLES
    ended,      \* slots whose hour is over
    batch,      \* scores a submitter still has to send, by slot
    sent,       \* the transaction a submitter has sent and not stored yet
    checks,     \* hashes an indexer still has to look up, by slot
    txs,        \* every transaction that reached a BOT Chain node
    ledger      \* UptimeAttestation's records

relayervars == <<ended, batch, sent, checks, txs, ledger>>

Chain == INSTANCE AppendOnlyLedger
           WITH Key <- Slot, Value <- Votes, Empty <- NoScore

TxState == [status : {"mempool", "success", "reverted", "dropped"},
            slot : Slot, score : Votes]
Unsent == [status |-> "unsent"]

EmptyBatch == [s \in Slot |-> NoScore]
NoChecks == [s \in Slot |-> NoTx]

RelayerInit ==
    /\ ended = {}
    /\ batch = [w \in Submitter |-> EmptyBatch]
    /\ sent = [w \in Submitter |-> NoTx]
    /\ checks = [i \in Indexer |-> NoChecks]
    /\ txs = [t \in Tx |-> Unsent]
    /\ Chain!LedgerInit

(* The clock passes the end of an epoch. *)
EndEpoch(s) ==
    /\ s \notin ended
    /\ ended' = ended \cup {s}
    /\ UNCHANGED <<dbvars, batch, sent, checks, txs, ledger>>

-----------------------------------------------------------------------------
(* submitPendingCommitmentsWithClient *)
Submittable ==
    {s \in ended : commitments[s].status = "pending" /\ commitments[s].txHash = NoTx}

SubmitScan(w) ==
    /\ batch[w] = EmptyBatch /\ sent[w] = NoTx
    /\ Submittable # {}
    /\ batch' = [batch EXCEPT ![w] = [s \in Slot |->
                    IF s \in Oldest(Submittable, SubmitLimit) THEN scores[s] ELSE NoScore]]
    /\ UNCHANGED <<dbvars, ended, sent, checks, txs, ledger>>

(* The row the loop is at: the oldest left. *)
NextToSend(w, s) ==
    /\ sent[w] = NoTx
    /\ s \in Oldest({r \in Slot : batch[w][r] # NoScore}, 1)

(* Fault: the hash is computed locally and the transaction never sent. *)
Broadcast_HashOnly(t, s, score) == txs[t] = Unsent /\ Chain!isFree(s) /\ UNCHANGED txs

Broadcast(t, s, score) ==
    /\ txs[t] = Unsent
    /\ Chain!isFree(s)
    /\ txs' = [txs EXCEPT ![t] = [status |-> "mempool", slot |-> s, score |-> score]]

(* The client estimates the gas first, which fails for a call the contract *)
(* would revert now, then broadcasts.                                      *)
commitEpoch(w, s, t) ==
    /\ NextToSend(w, s)
    /\ Broadcast(t, s, batch[w][s])
    /\ sent' = [sent EXCEPT ![w] = t]
    /\ UNCHANGED <<dbvars, ended, batch, checks, ledger>>

StoreTxHash(w) ==
    /\ sent[w] # NoTx
    /\ LET s == txs[sent[w]].slot IN
         /\ commitments' = [commitments EXCEPT ![s].txHash = sent[w],
                                               ![s].status = "pending"]
         /\ batch' = [batch EXCEPT ![w][s] = NoScore]
    /\ sent' = [sent EXCEPT ![w] = NoTx]
    /\ UNCHANGED <<decisions, scores, ended, checks, txs, ledger>>

setStatus(s, status) == commitments' = [commitments EXCEPT ![s].status = status]

(* The catch block: the row is marked and the rest of the batch dropped.   *)
GiveUp(w, s) ==
    /\ setStatus(s, "failed")
    /\ batch' = [batch EXCEPT ![w] = EmptyBatch]
    /\ sent' = [sent EXCEPT ![w] = NoTx]
    /\ UNCHANGED <<decisions, scores, ended, checks, ledger>>

(* commitEpoch throws, before anything was broadcast or after. *)
SendFails(w, s) ==
    /\ NextToSend(w, s)
    /\ \/ ~Chain!isFree(s) /\ UNCHANGED txs
       \/ "send" \in ChainFaults /\ UNCHANGED txs
       \/ "lostAnswer" \in ChainFaults /\ \E t \in Tx : Broadcast(t, s, batch[w][s])
    /\ GiveUp(w, s)

(* The update that should have stored the hash throws. *)
StoreFails(w) ==
    /\ "store" \in ChainFaults
    /\ sent[w] # NoTx
    /\ GiveUp(w, txs[sent[w]].slot)
    /\ UNCHANGED txs

(* The audit insert after a stored hash throws, in the same try block: the *)
(* row is marked with its hash in it.                                      *)
AuditFails(w) ==
    /\ "store" \in ChainFaults
    /\ sent[w] # NoTx
    /\ commitments' = [commitments EXCEPT ![txs[sent[w]].slot].txHash = sent[w],
                                          ![txs[sent[w]].slot].status = "failed"]
    /\ batch' = [batch EXCEPT ![w] = EmptyBatch]
    /\ sent' = [sent EXCEPT ![w] = NoTx]
    /\ UNCHANGED <<decisions, scores, ended, checks, txs, ledger>>

(* The process dies in the middle of a sweep, or the catch block throws. *)
SubmitterCrash(w) ==
    /\ "crash" \in ChainFaults
    /\ batch[w] # EmptyBatch
    /\ batch' = [batch EXCEPT ![w] = EmptyBatch]
    /\ sent' = [sent EXCEPT ![w] = NoTx]
    /\ UNCHANGED <<dbvars, ended, checks, txs, ledger>>

-----------------------------------------------------------------------------
(* indexPendingConfirmationsWithClient *)
Indexable ==
    {s \in Slot : commitments[s].status = "pending" /\ commitments[s].txHash # NoTx}

IndexScan(i) ==
    /\ checks[i] = NoChecks
    /\ Indexable # {}
    /\ checks' = [checks EXCEPT ![i] = [s \in Slot |->
                     IF s \in Oldest(Indexable, IndexLimit)
                       THEN commitments[s].txHash ELSE NoTx]]
    /\ UNCHANGED <<dbvars, ended, batch, sent, txs, ledger>>

(* Faults: all but a reverted transaction confirm; any receipt confirms;   *)
(* the want of a receipt is a failure.                                     *)
confirmationUpdate_NotReverted(s, receipt) ==
    setStatus(s, IF receipt = "reverted" THEN "failed" ELSE "confirmed")
confirmationUpdate_AnyReceipt(s, receipt) ==
    IF receipt \in {"success", "reverted"} THEN setStatus(s, "confirmed")
    ELSE UNCHANGED commitments
confirmationUpdate_MissingFails(s, receipt) ==
    setStatus(s, IF receipt = "success" THEN "confirmed" ELSE "failed")

(* A transaction that is in no block has no receipt. *)
confirmationUpdateFromReceipt(s, receipt) ==
    CASE receipt = "success" -> setStatus(s, "confirmed")
      [] receipt = "reverted" -> setStatus(s, "failed")
      [] OTHER -> UNCHANGED commitments

(* The receipt decides the status, whatever the row says by now. *)
IndexRow(i, s) ==
    /\ s \in Oldest({r \in Slot : checks[i][r] # NoTx}, 1)
    /\ checks' = [checks EXCEPT ![i][s] = NoTx]
    /\ confirmationUpdateFromReceipt(s, txs[checks[i][s]].status)
    /\ UNCHANGED <<decisions, scores, ended, batch, sent, txs, ledger>>

(* A lookup or an update throws, or the process dies. *)
IndexerCrash(i) ==
    /\ "crash" \in ChainFaults
    /\ checks[i] # NoChecks
    /\ checks' = [checks EXCEPT ![i] = NoChecks]
    /\ UNCHANGED <<dbvars, ended, batch, sent, txs, ledger>>

-----------------------------------------------------------------------------
(* The chain executes a transaction in a block, or loses it. *)
Mine(t) ==
    /\ txs[t].status = "mempool"
    /\ \/ /\ Chain!Commit(txs[t].slot, txs[t].score)
          /\ txs' = [txs EXCEPT ![t].status = "success"]
       \/ /\ ~Chain!isFree(txs[t].slot)
          /\ txs' = [txs EXCEPT ![t].status = "reverted"]
          /\ UNCHANGED ledger
    /\ UNCHANGED <<dbvars, ended, batch, sent, checks>>

Drop(t) ==
    /\ "drop" \in ChainFaults
    /\ txs[t].status = "mempool"
    /\ txs' = [txs EXCEPT ![t].status = "dropped"]
    /\ UNCHANGED <<dbvars, ended, batch, sent, checks, ledger>>

SubmitterStep(w) ==
    \/ SubmitScan(w)
    \/ \E s \in Slot : SendFails(w, s) \/ \E t \in Tx : commitEpoch(w, s, t)
    \/ StoreTxHash(w) \/ StoreFails(w) \/ AuditFails(w) \/ SubmitterCrash(w)

IndexerStep(i) ==
    IndexScan(i) \/ (\E s \in Slot : IndexRow(i, s)) \/ IndexerCrash(i)

RelayerNext ==
    \/ \E s \in Slot : EndEpoch(s)
    \/ \E w \in Submitter : SubmitterStep(w)
    \/ \E i \in Indexer : IndexerStep(i)
    \/ \E t \in Tx : Mine(t) \/ Drop(t)

-----------------------------------------------------------------------------
RelayerTypeOK ==
    /\ ended \subseteq Slot
    /\ batch \in [Submitter -> [Slot -> Votes \cup {NoScore}]]
    /\ sent \in [Submitter -> Tx \cup {NoTx}]
    /\ \A w \in Submitter : sent[w] # NoTx => txs[sent[w]] # Unsent
    /\ checks \in [Indexer -> [Slot -> Tx \cup {NoTx}]]
    /\ txs \in [Tx -> TxState \cup {Unsent}]
    /\ ledger \in [Slot -> Votes \cup {NoScore}]

(* "Confirmed: BOT Chain included the commitment in a successful           *)
(* transaction" (README.md:52): the slot is on the ledger, whatever sweeps *)
(* overlapped, died or answered late.                                      *)
ConfirmedIsOnChain ==
    \A s \in Slot : commitments[s].status = "confirmed" => ~Chain!isFree(s)

(* With sweeps that do not overlap, the hash shown with a confirmed        *)
(* commitment is that of the transaction that put the slot on the ledger.  *)
ConfirmedHashSucceeded ==
    \A s \in Slot : commitments[s].status = "confirmed" =>
        \E t \in Tx : /\ commitments[s].txHash = t
                      /\ txs[t].status = "success"
                      /\ txs[t].slot = s /\ txs[t].score = ledger[s]

=============================================================================
