-------------------------- MODULE AppendOnlyLedger --------------------------
(***************************************************************************)
(* What the chain promises the rest of the system: "the core append-only   *)
(* ledger of verified grid-uptime evidence" (UptimeAttestation.sol:9-11).  *)
(* A key is committed at most once and its value never changes.            *)
(***************************************************************************)
CONSTANTS
    Key,    \* (zone, epoch) pairs
    Value,  \* what may be committed for a key
    Empty   \* the value of a key nobody committed

VARIABLE ledger

LedgerInit == ledger = [k \in Key |-> Empty]

isFree(k) == ledger[k] = Empty

Commit(k, v) ==
    /\ isFree(k)
    /\ ledger' = [ledger EXCEPT ![k] = v]

LedgerNext == \E k \in Key, v \in Value : Commit(k, v)

LedgerSpec == LedgerInit /\ [][LedgerNext]_ledger

=============================================================================
