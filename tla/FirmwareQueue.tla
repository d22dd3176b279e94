---------------------------- MODULE FirmwareQueue ----------------------------
(***************************************************************************)
(* The sensor board's store-and-forward queue (hardware.ino).  A reading is *)
(* sent at once to two sinks, PowerTech's broker and GridProof's API, and   *)
(* kept in a file on flash while one of them has not taken it.  The number  *)
(* of records that are done with is kept apart from the file, in NVS; both  *)
(* survive a restart, the loop's own state does not.  Readings are numbered *)
(* as they are taken, and an age is a number of readings.                   *)
(***************************************************************************)
EXTENDS Integers, Sequences

CONSTANTS
    MaxTaken,       \* bound on readings
    MaxQueue,       \* MAX_QUEUE_BYTES, in records
    Flash,          \* the partition's size, in records
    MaxFlush,       \* MAX_FLUSH_PER_LOOP
    MaxRecordAge,   \* GRIDPROOF_MAX_RECORD_AGE_S
    BoardFaults     \* which of "restart", "brownout", "reject", "unsynced" happen

ASSUME BoardAssumption ==
    /\ MaxTaken \in Nat /\ MaxQueue \in Nat \ {0} /\ Flash \in Nat
    /\ MaxFlush \in Nat \ {0} /\ MaxRecordAge \in Nat

Record == 1..MaxTaken

VARIABLES
    taken,          \* readings taken so far: the newest one's number
    synced,         \* NTP has set the clock
    early,          \* readings stamped before it did
    file, tmp,      \* /queue.bin and /queue.tmp; <<>> also when it is not there
    hollow,         \* /queue.bin is there, and empty
    qOffset,        \* records of the file that are done with
    pc, next,       \* what the loop does next, and after a compaction
    sent,           \* records this flush has delivered
    online,         \* both sinks can be reached
    damaged,        \* history: a compaction was interrupted, or its copy did not fit
    inApi,          \* history: what GridProof has stored
    fate            \* history: what became of each reading

qvars == <<taken, synced, early, file, tmp, hollow, qOffset, pc, next, sent, online, damaged,
           inApi, fate>>
deliveryVars == <<inApi, fate>>
boardVars == <<taken, synced, early, damaged>>
flashVars == <<file, tmp, hollow, qOffset>>

pending == SubSeq(file, qOffset + 1, Len(file))

QueueInit ==
    /\ taken = 0
    /\ synced = ("unsynced" \notin BoardFaults)
    /\ early = {}
    /\ file = <<>> /\ tmp = <<>> /\ hollow = FALSE /\ qOffset = 0
    /\ pc = "idle" /\ next = "idle" /\ sent = 0
    /\ online = TRUE /\ damaged = FALSE
    /\ inApi = {}
    /\ fate = [r \in Record |-> "volatile"]

-----------------------------------------------------------------------------
gridProofRecordExpired(rec) == synced /\ taken - rec > MaxRecordAge

(* Fault: a reading the API will not take any more is retried. *)
sendRecordGridProof_Retries(rec, isEarly) ==
    IF isEarly \/ gridProofRecordExpired(rec) THEN {"failed"}
    ELSE {"ok", "failed", "unanswered"}

(* What becomes of one POST.  "dropped": retrying cannot help.  "failed" is *)
(* any other error, 429 included; "unanswered": stored, and the answer lost.*)
sendRecordGridProof(rec, isEarly) ==
    IF isEarly \/ gridProofRecordExpired(rec) THEN {"dropped"}
    ELSE IF "reject" \in BoardFaults THEN {"ok", "failed", "unanswered", "dropped"}
    ELSE {"ok", "failed", "unanswered"}

isDelivered(mqttOk, answer) == mqttOk /\ answer \in {"ok", "dropped"}

(* Both sinks are tried.  Online, both take the record. *)
deliverRecord(rec, isEarly, done, other) ==
    \E mqttOk \in BOOLEAN, answer \in sendRecordGridProof(rec, isEarly) :
       /\ online => mqttOk /\ (answer \in {"failed", "unanswered"}
                               => "ok" \notin sendRecordGridProof(rec, isEarly))
       /\ inApi' = IF answer \in {"ok", "unanswered"} THEN inApi \cup {rec} ELSE inApi
       /\ IF isDelivered(mqttOk, answer)
            THEN fate' = [fate EXCEPT ![rec] = "finished"] /\ pc' = done
            ELSE UNCHANGED fate /\ pc' = other

-----------------------------------------------------------------------------
(* One publish cycle: flush the backlog, then a fresh reading. *)
loop ==
    /\ pc = "idle"
    /\ taken < MaxTaken \/ pending # <<>>
    /\ pc' = IF pending # <<>> THEN "flush" ELSE "read"
    /\ sent' = 0
    /\ UNCHANGED <<boardVars, flashVars, next, online, deliveryVars>>

(* Fault: a record that fails goes to the back of the queue. *)
flushQueue_Requeue ==
    /\ pc = "flush" /\ sent < MaxFlush /\ pending # <<>>
    /\ deliverRecord(Head(pending), Head(pending) \in early, "advance", "read")
    /\ IF pc' = "advance" THEN UNCHANGED <<file, qOffset>>
       ELSE file' = Append(file, Head(pending)) /\ qOffset' = qOffset + 1
    /\ UNCHANGED <<boardVars, tmp, hollow, next, sent, online>>

flushQueue ==
    /\ pc = "flush" /\ sent < MaxFlush /\ pending # <<>>
    /\ deliverRecord(Head(pending), Head(pending) \in early, "advance", "read")
    /\ UNCHANGED <<boardVars, flashVars, next, sent, online>>

flushEnds ==
    /\ pc = "flush" /\ (sent = MaxFlush \/ pending = <<>>)
    /\ pc' = "read"
    /\ UNCHANGED <<boardVars, flashVars, next, sent, online, deliveryVars>>

dequeueAdvance ==
    /\ pc = "advance"
    /\ qOffset' = qOffset + 1
    /\ sent' = sent + 1
    /\ pc' = "compact" /\ next' = "flush"
    /\ UNCHANGED <<boardVars, file, tmp, hollow, online, deliveryVars>>

postTelemetry ==
    /\ pc = "read" /\ taken < MaxTaken
    /\ taken' = taken + 1
    /\ early' = IF synced THEN early ELSE early \cup {taken + 1}
    /\ deliverRecord(taken + 1, ~synced, "idle", "enqueue")
    /\ UNCHANGED <<synced, damaged, flashVars, next, sent, online>>

(* Past the bound on readings a cycle only flushes. *)
noReading ==
    /\ pc = "read" /\ taken = MaxTaken
    /\ pc' = "idle"
    /\ UNCHANGED <<boardVars, flashVars, next, sent, online, deliveryVars>>

(* A full queue loses its oldest record, before the new one is written. *)
dropOldest ==
    /\ pc = "enqueue" /\ Len(pending) + 1 > MaxQueue
    /\ fate' = IF fate[Head(pending)] = "finished" THEN fate
               ELSE [fate EXCEPT ![Head(pending)] = "pushedOut"]
    /\ qOffset' = qOffset + 1
    /\ UNCHANGED <<boardVars, file, tmp, hollow, pc, next, sent, online, inApi>>

(* The write fails when the partition is full, dead records included.  It  *)
(* leaves no part of a record: LittleFS commits a file when it is closed,  *)
(* and not at all once a write to it has failed.                           *)
enqueueRecord ==
    /\ pc = "enqueue" /\ Len(pending) + 1 <= MaxQueue
    /\ IF Len(file) + Len(tmp) < Flash
         THEN file' = Append(file, taken) /\ fate' = [fate EXCEPT ![taken] = "buffered"]
         ELSE UNCHANGED <<file, fate>>
    /\ hollow' = (file' = <<>>)
    /\ pc' = "compact" /\ next' = "idle"
    /\ UNCHANGED <<boardVars, tmp, qOffset, sent, online, inApi>>

-----------------------------------------------------------------------------
(* Compaction, one flash operation at a time. *)
hasDead == qOffset > 0 /\ (file # <<>> \/ hollow)
allDone == hasDead /\ qOffset >= Len(file)
mostlyDone == hasDead /\ qOffset < Len(file) /\ 2 * qOffset > Len(file)

compactQueueIfNeeded ==
    /\ pc = "compact"
    /\ pc' = IF allDone THEN "removeDone" ELSE IF mostlyDone THEN "copy" ELSE next
    /\ UNCHANGED <<boardVars, flashVars, next, sent, online, deliveryVars>>

(* tmp.write is not checked: a copy that does not fit is an empty file.    *)
copied == IF Len(file) + Len(pending) <= Flash THEN pending ELSE <<>>

copyToTmp ==
    /\ pc = "copy"
    /\ tmp' = copied
    /\ damaged' = (damaged \/ Len(copied) < Len(pending))
    /\ pc' = "remove"
    /\ UNCHANGED <<taken, synced, early, file, hollow, qOffset, next, sent, online,
                   deliveryVars>>

(* Fault: the file is still open and stays. *)
removeFile_Kept ==
    /\ pc \in {"removeDone", "remove"}
    /\ pc' = IF pc = "remove" THEN "rename" ELSE "resetOffset"
    /\ UNCHANGED <<boardVars, flashVars, next, sent, online, deliveryVars>>

removeFile ==
    /\ pc \in {"removeDone", "remove"}
    /\ file' = <<>> /\ hollow' = FALSE
    /\ pc' = IF pc = "remove" THEN "rename" ELSE "resetOffset"
    /\ UNCHANGED <<boardVars, tmp, qOffset, next, sent, online, deliveryVars>>

renameTmp ==
    /\ pc = "rename"
    /\ file' = tmp /\ tmp' = <<>> /\ hollow' = (tmp = <<>>)
    /\ pc' = "resetOffset"
    /\ UNCHANGED <<boardVars, qOffset, next, sent, online, deliveryVars>>

(* Fault: the offset stays. *)
resetOffset_Not ==
    /\ pc = "resetOffset"
    /\ pc' = next
    /\ UNCHANGED <<boardVars, flashVars, next, sent, online, deliveryVars>>

resetOffset ==
    /\ pc = "resetOffset"
    /\ qOffset' = 0
    /\ pc' = next
    /\ UNCHANGED <<boardVars, file, tmp, hollow, next, sent, online, deliveryVars>>

-----------------------------------------------------------------------------
inCompaction == pc \in {"copy", "remove", "removeDone", "rename", "resetOffset"}

(* A restart loses the loop's state and the clock, and keeps the flash.    *)
(* "brownout" is one between two flash operations of a compaction.         *)
Restart ==
    /\ pc # "idle"
    /\ (IF inCompaction THEN "brownout" ELSE "restart") \in BoardFaults
    /\ pc' = "idle" /\ next' = "idle" /\ sent' = 0
    /\ synced' = ("unsynced" \notin BoardFaults)
    /\ damaged' = (damaged \/ inCompaction)
    /\ UNCHANGED <<taken, early, flashVars, online, deliveryVars>>

NtpSync ==
    /\ ~synced
    /\ synced' = TRUE
    /\ UNCHANGED <<taken, early, damaged, flashVars, pc, next, sent, online, deliveryVars>>

LinkChanges ==
    /\ online' = ~online
    /\ UNCHANGED <<boardVars, flashVars, pc, next, sent, deliveryVars>>

compactionStep ==
    compactQueueIfNeeded \/ copyToTmp \/ removeFile \/ renameTmp \/ resetOffset

boardStep ==
    loop \/ flushQueue \/ flushEnds \/ dequeueAdvance \/ postTelemetry \/ noReading
    \/ dropOldest \/ enqueueRecord \/ compactionStep

QueueNext == boardStep \/ Restart \/ NtpSync \/ LinkChanges

QueueSpec == QueueInit /\ [][QueueNext]_qvars

(* The board runs its loop; restarts, NTP and the network are not its doing. *)
QueueFairness == WF_qvars(boardStep)
QueueFairSpec == QueueSpec /\ QueueFairness

-----------------------------------------------------------------------------
BoardPc == {"idle", "flush", "advance", "read", "enqueue", "compact", "copy",
            "removeDone", "remove", "rename", "resetOffset"}

(* Variables have their types and the files never outgrow the partition.   *)
QueueTypeOK ==
    /\ taken \in 0..MaxTaken /\ {synced, online, damaged, hollow} \subseteq BOOLEAN
    /\ file \in Seq(Record) /\ tmp \in Seq(Record)
    /\ Len(file) + Len(tmp) <= Flash
    /\ qOffset \in Nat /\ sent \in 0..MaxFlush
    /\ pc \in BoardPc /\ next \in {"idle", "flush"}
    /\ early \subseteq Record /\ inApi \subseteq Record
    /\ fate \in [Record -> {"volatile", "buffered", "finished", "pushedOut"}]

(* "Try to drain queued readings, oldest first" (hardware.ino:1191): what   *)
(* is pending is in the order it was taken, none of it twice, whatever     *)
(* compactions, and restarts between any two flash operations, left behind.*)
QueueInOrder == \A i, j \in 1..Len(pending) : i < j => pending[i] < pending[j]

(* A restart repeats at most the record at the head: "Paying for that with *)
(* an occasional duplicate publish" (hardware.ino:1139).  Whatever else is *)
(* pending has never been finished.                                        *)
OnlyTheHeadIsRepeated ==
    \A i \in 2..Len(pending) : fate[pending[i]] # "finished"

(* Where the records are that wait, at each flash operation. *)
onFlash == CASE pc = "rename" -> tmp [] pc = "resetOffset" -> file [] OTHER -> pending
recordsOf(s) == {s[i] : i \in 1..Len(s)}
finished == {rec \in Record : fate[rec] = "finished"}
unfinished == recordsOf(onFlash) \ finished

Buffer == INSTANCE StoreAndForward
            WITH Room <- MaxQueue,
                 newest <- taken,
                 waiting <- unfinished,
                 accepted <- finished,
                 intact <- ~damaged

(* The board keeps what StoreAndForward promises: whatever compactions, lost*)
(* answers and restarts between any two flash operations do, readings leave *)
(* oldest first and only once both sinks took them or the queue is full,    *)
(* and none is lost unless a compaction was interrupted or did not fit.     *)
BufferIsKept == Buffer!BufferSpec

(* "A record only leaves the offline queue once every ENABLED sink has     *)
(* accepted it" (hardware.ino:155), a sink that gave up permanently        *)
(* (hardware.ino:1130) and a full queue aside.                             *)
LeavesOnlyAccepted ==
    pc \in {"idle", "flush", "read"} =>
       \A rec \in Record : fate[rec] = "buffered" => \E i \in 1..Len(pending) : pending[i] = rec

(* The same, until a restart interrupts a compaction or its copy does not  *)
(* fit the partition: restarts anywhere else, lost answers, a full queue   *)
(* and a write that fails do not make a buffered reading disappear.        *)
BufferedIsKept == ~damaged => LeavesOnlyAccepted

(* "Readings taken before sync are still buffered" (hardware.ino:1351) and *)
(* held until the clock is set: what is done with is in GridProof, or too  *)
(* old, or refused by the API.                                             *)
EarlyReadingsAreHeld ==
    \A rec \in Record : fate[rec] = "finished" /\ "reject" \notin BoardFaults
                        => rec \in inApi \/ taken - rec > MaxRecordAge

(* With the sinks back for good and no more restarts, the backlog is worked *)
(* off: no record at the head blocks those behind it (hardware.ino:248-251).*)
BacklogDrains ==
    <>[]online /\ <>[][~Restart]_qvars => <>[](pending = <<>>)
=============================================================================
