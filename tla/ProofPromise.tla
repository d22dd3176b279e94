---------------------------- MODULE ProofPromise ----------------------------
(***************************************************************************)
(* What GridProof promises a reader of the chain and of the proof page:    *)
(* an epoch is put on the ledger once, for good, and only with candidates  *)
(* that somebody entitled had approved by then (README.md:284); and it is  *)
(* shown as confirmed only once it is there (README.md:52).  How tables,   *)
(* tasks, sweeps and transactions get it there is EpochProof's matter.     *)
(***************************************************************************)
EXTENDS Naturals

CONSTANTS
    Candidate,
    Key,    \* (zone, epoch) pairs
    Value,  \* what may be committed: how often each candidate counts
    Empty   \* the value of a key nobody committed

VARIABLES
    trusted,    \* candidates that somebody entitled has approved
    ledger,     \* the value of every key
    shown       \* keys shown as confirmed

promisevars == <<trusted, ledger, shown>>

Promised ==
    /\ trusted \subseteq Candidate
    /\ ledger = [k \in Key |-> Empty]
    /\ shown = {}

(* Candidates are approved, and epochs queued again, which hides them.     *)
Revise ==
    /\ trusted \subseteq trusted'
    /\ shown' \subseteq shown
    /\ UNCHANGED ledger

Publish(k, v) ==
    /\ ledger[k] = Empty
    /\ \A c \in Candidate : v[c] > 0 => c \in trusted
    /\ ledger' = [ledger EXCEPT ![k] = v]
    /\ UNCHANGED <<trusted, shown>>

Show(k) ==
    /\ ledger[k] # Empty
    /\ shown' = shown \cup {k}
    /\ UNCHANGED <<trusted, ledger>>

PromiseNext ==
    \/ Revise
    \/ \E k \in Key, v \in Value : Publish(k, v)
    \/ \E k \in Key : Show(k)

PromiseSpec == Promised /\ [][PromiseNext]_promisevars

=============================================================================
