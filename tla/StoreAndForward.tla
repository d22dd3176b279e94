-------------------------- MODULE StoreAndForward --------------------------
(***************************************************************************)
(* What the sensor board promises of the readings it could not send at     *)
(* once (hardware.ino:155, 1139, 1191): they wait in the order they were    *)
(* taken, the oldest leaves first, and only when both sinks have taken it  *)
(* or the queue is full; a reading that was taken does not wait again.     *)
(* How a file, its copy and an offset do it is FirmwareQueue's matter.      *)
(***************************************************************************)
EXTENDS Integers, FiniteSets

CONSTANTS
    Record,     \* the numbers of the readings
    Room        \* how many of them can wait

VARIABLES
    newest,     \* the number of the last reading
    waiting,    \* the readings that wait
    accepted,   \* the readings both sinks have taken or refused for good
    intact      \* no compaction was interrupted, and every copy did fit

buffervars == <<newest, waiting, accepted, intact>>

NothingWaits == newest = 0 /\ waiting = {} /\ accepted = {} /\ intact = TRUE

Oldest(rec) == rec \in waiting /\ \A other \in waiting : rec <= other

(* A fresh reading, which the sinks may take at once. *)
Take ==
    /\ newest + 1 \in Record
    /\ newest' = newest + 1
    /\ accepted' \in {accepted, accepted \cup {newest + 1}}
    /\ UNCHANGED <<waiting, intact>>

(* It waits behind all that wait already. *)
Keep ==
    /\ newest \notin accepted /\ \A rec \in waiting : rec < newest
    /\ waiting' = waiting \cup {newest}
    /\ UNCHANGED <<newest, accepted, intact>>

Accept(rec) ==
    /\ Oldest(rec)
    /\ waiting' = waiting \ {rec}
    /\ accepted' = accepted \cup {rec}
    /\ UNCHANGED <<newest, intact>>

PushOut(rec) ==
    /\ Oldest(rec) /\ Cardinality(waiting) >= Room
    /\ waiting' = waiting \ {rec}
    /\ UNCHANGED <<newest, accepted, intact>>

(* Readings are lost, and none of them comes back. *)
Break ==
    /\ waiting' \subseteq waiting
    /\ intact' = FALSE
    /\ UNCHANGED <<newest, accepted>>

BufferNext == Take \/ Keep \/ Break \/ \E rec \in Record : Accept(rec) \/ PushOut(rec)

BufferSpec == NothingWaits /\ [][BufferNext]_buffervars

=============================================================================
