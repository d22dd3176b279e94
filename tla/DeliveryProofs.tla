--------------------------- MODULE DeliveryProofs ---------------------------
(* Theorems about the firmware's queue, its relay, the notification rows,   *)
(* the pages they are shown on and a zone on the dashboard, for queues,     *)
(* partitions, caps, events, pages and readings of any number and size; and *)
(* that the queue implements StoreAndForward.                               *)
EXTENDS FirmwareQueue, ConverterRelay, NotificationOutbox, LiveView,
        NotificationPages, FiniteSetTheorems, SequenceTheorems, TLAPS

-----------------------------------------------------------------------------
(* The queue *)

(* Records in the order they were taken, the newest not after number n. *)
Ordered(s, n) ==
    /\ s \in Seq(Record)
    /\ \A i, j \in 1..Len(s) : i < j => s[i] < s[j]
    /\ \A i \in 1..Len(s) : s[i] <= n

OrderInv ==
    /\ taken \in 0..MaxTaken /\ qOffset \in Nat /\ next \in {"idle", "flush"}
    /\ Ordered(file, taken) /\ Ordered(tmp, taken)
    /\ pc = "enqueue" => taken > 0 /\ Ordered(file, taken - 1)

LEMMA EmptyOrdered == \A n \in Int : Ordered(<<>>, n)
BY DEF Ordered

LEMMA OrderedUpTo ==
    ASSUME NEW s, NEW m \in Int, NEW n \in Int, m <= n, Ordered(s, m)
    PROVE  Ordered(s, n)
<1>1. s \in Seq(Record)
  BY DEF Ordered
<1>2. \A i \in 1..Len(s) : s[i] \in Record
  BY <1>1
<1>3. \A i \in 1..Len(s) : s[i] <= n
  BY <1>2 DEF Ordered, Record
<1> QED
  BY <1>3 DEF Ordered

(* A piece of a file in order is in order. *)
LEMMA OrderedPiece ==
    ASSUME NEW s, NEW n \in Int, Ordered(s, n), NEW a \in Nat \ {0}, NEW b \in Int, b <= Len(s)
    PROVE  Ordered(SubSeq(s, a, b), n)
<1>1. s \in Seq(Record) /\ Len(s) \in Nat
  BY DEF Ordered
<1>2. \A i \in a..b : i \in 1..Len(s) /\ s[i] \in Record
  BY <1>1
<1>3. /\ SubSeq(s, a, b) \in Seq(Record)
      /\ Len(SubSeq(s, a, b)) = IF a <= b THEN b - a + 1 ELSE 0
      /\ \A i \in 1..(b - a + 1) : SubSeq(s, a, b)[i] = s[a + i - 1]
  BY <1>2, SubSeqProperties
<1> DEFINE p == SubSeq(s, a, b)
<1>4. \A i \in 1..Len(p) : a + i - 1 \in 1..Len(s) /\ p[i] = s[a + i - 1]
  BY <1>1, <1>3
<1> HIDE DEF p
<1>5. \A i \in 1..Len(p) : p[i] <= n
  BY <1>4 DEF Ordered
<1>6. ASSUME NEW i \in 1..Len(p), NEW j \in 1..Len(p), i < j PROVE p[i] < p[j]
  BY <1>3, <1>4, <1>6 DEF Ordered, p
<1> QED
  BY <1>3, <1>5, <1>6 DEF Ordered, p

LEMMA PendingOrdered == OrderInv => Ordered(pending, taken)
BY OrderedPiece DEF OrderInv, Ordered, pending

LEMMA CopiedOrdered == OrderInv => Ordered(copied, taken)
BY PendingOrdered, EmptyOrdered DEF OrderInv, copied

LEMMA StepKeepsOrder == OrderInv /\ [QueueNext]_qvars => OrderInv'
<1> SUFFICES ASSUME OrderInv, [QueueNext]_qvars PROVE OrderInv'
  OBVIOUS
<1> USE BoardAssumption, EmptyOrdered DEF OrderInv
<1>0. taken \in Int /\ taken - 1 \in Int
  OBVIOUS
<1>1. CASE loop \/ flushEnds \/ noReading \/ compactQueueIfNeeded
  BY <1>1 DEF loop, flushEnds, noReading, compactQueueIfNeeded, boardVars, flashVars
<1>2. CASE flushQueue
  <2>1. pc' # "enqueue" /\ UNCHANGED <<taken, file, tmp, qOffset, next>>
    BY <1>2 DEF flushQueue, deliverRecord, boardVars, flashVars
  <2> QED
    BY <2>1
<1>3. CASE dequeueAdvance
  BY <1>3 DEF dequeueAdvance, boardVars
<1>4. CASE postTelemetry
  <2>1. taken' = taken + 1 /\ taken < MaxTaken /\ UNCHANGED <<file, tmp, qOffset, next>>
    BY <1>4 DEF postTelemetry, flashVars
  <2>2. Ordered(file, taken + 1) /\ Ordered(tmp, taken + 1)
    BY OrderedUpTo
  <2> QED
    BY <2>1, <2>2
<1>5. CASE dropOldest
  BY <1>5 DEF dropOldest, boardVars
<1>6. CASE enqueueRecord
  <2>1. taken > 0 /\ Ordered(file, taken - 1) /\ taken \in Record
    BY <1>6 DEF enqueueRecord, Record
  <2>2. \A i \in 1..Len(file) : file[i] \in Int /\ file[i] <= taken - 1
    BY <2>1 DEF Ordered, Record
  <2>3. Ordered(Append(file, taken), taken)
    <3>1. file \in Seq(Record) /\ Len(file) \in Nat
      BY <2>1 DEF Ordered
    <3>2. /\ Append(file, taken) \in Seq(Record)
          /\ Len(Append(file, taken)) = Len(file) + 1
          /\ \A i \in 1..(Len(file) + 1) :
                Append(file, taken)[i] = IF i <= Len(file) THEN file[i] ELSE taken
      BY <2>1, <3>1
    <3> QED
      BY <2>1, <2>2, <3>1, <3>2 DEF Ordered
  <2>4. file' = file \/ file' = Append(file, taken)
    BY <1>6 DEF enqueueRecord
  <2>5. pc' = "compact" /\ next' = "idle" /\ UNCHANGED <<taken, tmp, qOffset>>
    BY <1>6 DEF enqueueRecord, boardVars
  <2> QED
    BY <2>3, <2>4, <2>5
<1>7. CASE copyToTmp
  <2>1. tmp' = copied /\ pc' = "remove" /\ UNCHANGED <<taken, file, qOffset, next>>
    BY <1>7 DEF copyToTmp, boardVars
  <2> QED
    BY <2>1, CopiedOrdered
<1>8. CASE removeFile
  <2>1. file' = <<>> /\ pc' # "enqueue" /\ UNCHANGED <<taken, tmp, qOffset, next>>
    BY <1>8 DEF removeFile, boardVars
  <2> QED
    BY <1>0, <2>1
<1>9. CASE renameTmp
  <2>1. file' = tmp /\ tmp' = <<>> /\ pc' # "enqueue" /\ UNCHANGED <<taken, qOffset, next>>
    BY <1>9 DEF renameTmp, boardVars
  <2> QED
    BY <1>0, <2>1
<1>10. CASE resetOffset
  BY <1>10 DEF resetOffset, boardVars
<1>11. CASE Restart
  BY <1>11 DEF Restart, flashVars
<1>12. CASE NtpSync \/ LinkChanges
  BY <1>12 DEF NtpSync, LinkChanges, flashVars, boardVars
<1>13. CASE UNCHANGED qvars
  BY <1>13 DEF qvars
<1> QED
  BY <1>1, <1>2, <1>3, <1>4, <1>5, <1>6, <1>7, <1>8, <1>9, <1>10, <1>11, <1>12, <1>13
  DEF QueueNext, boardStep, compactionStep

(* What is pending is in the order it was taken, none of it twice, whatever *)
(* compactions, and restarts between any two flash operations, left behind. *)
THEOREM QueueInOrderProven == QueueSpec => []QueueInOrder
<1>1. QueueInit => OrderInv
  BY BoardAssumption, EmptyOrdered DEF QueueInit, OrderInv
<1>2. OrderInv /\ [QueueNext]_qvars => OrderInv'
  BY StepKeepsOrder
<1>3. OrderInv => QueueInOrder
  BY PendingOrdered DEF Ordered, QueueInOrder
<1> QED
  BY <1>1, <1>2, <1>3, PTL DEF QueueSpec

-----------------------------------------------------------------------------
(* What the queue repeats, and what it keeps *)

Rest(s, q) == SubSeq(s, q + 1, Len(s))

LEMMA RestShape ==
    ASSUME NEW s \in Seq(Record), NEW q \in Nat
    PROVE  /\ Rest(s, q) \in Seq(Record) /\ Len(Rest(s, q)) \in Nat
           /\ Len(Rest(s, q)) = IF q <= Len(s) THEN Len(s) - q ELSE 0
           /\ \A i \in 1..Len(Rest(s, q)) :
                 q + i \in 1..Len(s) /\ Rest(s, q)[i] = s[q + i] /\ Rest(s, q)[i] \in Record
<1>1. Len(s) \in Nat /\ q + 1 \in Nat
  OBVIOUS
<1>2. \A i \in (q + 1)..Len(s) : s[i] \in Record
  OBVIOUS
<1>3. /\ Rest(s, q) \in Seq(Record)
      /\ Len(Rest(s, q)) = IF q + 1 <= Len(s) THEN Len(s) - (q + 1) + 1 ELSE 0
      /\ \A i \in 1..(Len(s) - (q + 1) + 1) : Rest(s, q)[i] = s[(q + 1) + i - 1]
  BY <1>1, <1>2, SubSeqProperties DEF Rest
<1>4. Len(Rest(s, q)) = IF q <= Len(s) THEN Len(s) - q ELSE 0
  BY <1>1, <1>3
<1>5. ASSUME NEW i \in 1..Len(Rest(s, q))
      PROVE  q + i \in 1..Len(s) /\ Rest(s, q)[i] = s[q + i] /\ Rest(s, q)[i] \in Record
  <2>1. i \in Nat /\ i >= 1 /\ i <= Len(s) - q /\ q <= Len(s)
    BY <1>1, <1>4
  <2>2. q + i \in 1..Len(s) /\ (q + 1) + i - 1 = q + i /\ i \in 1..(Len(s) - (q + 1) + 1)
    BY <1>1, <2>1
  <2>3. Rest(s, q)[i] = s[q + i]
    BY <1>3, <2>2
  <2> QED
    BY <1>2, <2>2, <2>3
<1> QED
  BY <1>1, <1>3, <1>4, <1>5

LEMMA PendingIsRest == pending = Rest(file, qOffset)
BY DEF pending, Rest

(* Taking the head off the queue. *)
LEMMA RestTail ==
    ASSUME NEW s \in Seq(Record), NEW q \in Nat, Rest(s, q) # <<>>
    PROVE  /\ q < Len(s) /\ Len(Rest(s, q)) >= 1 /\ Head(Rest(s, q)) = Rest(s, q)[1]
           /\ Len(Rest(s, q + 1)) = Len(Rest(s, q)) - 1
           /\ \A i \in 1..Len(Rest(s, q + 1)) :
                 i + 1 \in 2..Len(Rest(s, q)) /\ Rest(s, q + 1)[i] = Rest(s, q)[i + 1]
<1> DEFINE r == Rest(s, q)
           t == Rest(s, q + 1)
<1>1. /\ r \in Seq(Record) /\ Len(r) \in Nat
      /\ Len(r) = IF q <= Len(s) THEN Len(s) - q ELSE 0
      /\ \A i \in 1..Len(r) : r[i] = s[q + i]
  BY RestShape
<1>2. /\ q + 1 \in Nat /\ Len(t) \in Nat
      /\ Len(t) = IF q + 1 <= Len(s) THEN Len(s) - (q + 1) ELSE 0
      /\ \A i \in 1..Len(t) : t[i] = s[(q + 1) + i]
  BY RestShape
<1> HIDE DEF r, t
<1>3. Len(r) # 0
  BY <1>1 DEF r
<1>4. q < Len(s) /\ Len(s) \in Nat
  BY <1>1, <1>3
<1>5. Len(t) = Len(r) - 1
  BY <1>1, <1>2, <1>4
<1>6. ASSUME NEW i \in 1..Len(t) PROVE i + 1 \in 2..Len(r) /\ t[i] = r[i + 1]
  <2>1. i + 1 \in 1..Len(r) /\ i + 1 \in 2..Len(r) /\ (q + 1) + i = q + (i + 1)
    BY <1>1, <1>2, <1>5
  <2> QED
    BY <1>1, <1>2, <2>1
<1> QED
  BY <1>1, <1>3, <1>4, <1>5, <1>6 DEF r, t

(* Only the first of a sequence of records may be finished. *)
Clean(s) == \A i \in 2..Len(s) : fate[s[i]] # "finished"

HeadInv ==
    /\ OrderInv
    /\ fate \in [Record -> {"volatile", "buffered", "finished", "pushedOut"}]
    /\ pc \in BoardPc
    /\ Clean(pending)
    /\ pc \in {"remove", "rename"} => Clean(tmp)
    /\ pc = "resetOffset" => Clean(file)
    /\ pc = "rename" => file = <<>>

LEMMA CleanRest ==
    ASSUME NEW s \in Seq(Record), NEW q \in Nat, Clean(s)
    PROVE  Clean(Rest(s, q))
<1>1. \A i \in 2..Len(Rest(s, q)) : q + i \in 2..Len(s) /\ Rest(s, q)[i] = s[q + i]
  <2> SUFFICES ASSUME NEW i \in 2..Len(Rest(s, q))
               PROVE  q + i \in 2..Len(s) /\ Rest(s, q)[i] = s[q + i]
    OBVIOUS
  <2>1. i \in 1..Len(Rest(s, q)) /\ i \in Nat /\ i >= 2
    BY RestShape
  <2>2. q + i \in 1..Len(s) /\ Rest(s, q)[i] = s[q + i]
    BY <2>1, RestShape
  <2> QED
    BY <2>1, <2>2
<1> QED
  BY <1>1 DEF Clean

LEMMA CopiedShape ==
    ASSUME OrderInv
    PROVE  /\ copied \in Seq(Record) /\ Len(copied) \in Nat /\ Len(copied) <= Len(pending)
           /\ \A i \in 1..Len(copied) : i \in 1..Len(pending) /\ copied[i] = pending[i]
<1>1. pending \in Seq(Record) /\ Len(pending) \in Nat
  BY PendingOrdered DEF Ordered, OrderInv
<1> QED
  BY <1>1 DEF copied

(* A delivery finishes its record, or nothing. *)
LEMMA DeliveryFinishes ==
    ASSUME NEW rec \in Record, NEW isEarly, NEW done, NEW other,
           fate \in [Record -> {"volatile", "buffered", "finished", "pushedOut"}],
           deliverRecord(rec, isEarly, done, other)
    PROVE  \/ fate' = [fate EXCEPT ![rec] = "finished"] /\ pc' = done
           \/ fate' = fate /\ pc' = other
BY DEF deliverRecord

LEMMA PendingShape ==
    OrderInv =>
        /\ file \in Seq(Record) /\ tmp \in Seq(Record) /\ qOffset \in Nat /\ taken \in 0..MaxTaken
        /\ pending \in Seq(Record) /\ Len(pending) \in Nat /\ Len(file) \in Nat
        /\ Len(pending) = IF qOffset <= Len(file) THEN Len(file) - qOffset ELSE 0
        /\ \A i \in 1..Len(pending) : /\ qOffset + i \in 1..Len(file)
                                      /\ pending[i] = file[qOffset + i] /\ pending[i] \in Record
        /\ \A i, j \in 1..Len(pending) : pending[i] = pending[j] => i = j
        /\ \A i \in 1..Len(file) : file[i] \in Record /\ file[i] <= taken
        /\ pc = "enqueue" => taken \in Record /\ \A i \in 1..Len(file) : file[i] <= taken - 1
<1> SUFFICES ASSUME OrderInv
             PROVE  /\ file \in Seq(Record) /\ tmp \in Seq(Record) /\ qOffset \in Nat
                    /\ taken \in 0..MaxTaken
                    /\ pending \in Seq(Record) /\ Len(pending) \in Nat /\ Len(file) \in Nat
                    /\ Len(pending) = IF qOffset <= Len(file) THEN Len(file) - qOffset ELSE 0
                    /\ \A i \in 1..Len(pending) :
                          /\ qOffset + i \in 1..Len(file)
                          /\ pending[i] = file[qOffset + i] /\ pending[i] \in Record
                    /\ \A i, j \in 1..Len(pending) : pending[i] = pending[j] => i = j
                    /\ \A i \in 1..Len(file) : file[i] \in Record /\ file[i] <= taken
                    /\ pc = "enqueue" => taken \in Record
                                         /\ \A i \in 1..Len(file) : file[i] <= taken - 1
  OBVIOUS
<1>1. /\ file \in Seq(Record) /\ tmp \in Seq(Record) /\ qOffset \in Nat /\ taken \in 0..MaxTaken
      /\ \A i \in 1..Len(file) : file[i] <= taken
      /\ pc = "enqueue" => taken > 0 /\ \A i \in 1..Len(file) : file[i] <= taken - 1
  BY DEF OrderInv, Ordered
<1>2. \A i \in 1..Len(file) : file[i] \in Record
  BY <1>1
<1>3. /\ pending \in Seq(Record) /\ Len(pending) \in Nat
      /\ Len(pending) = IF qOffset <= Len(file) THEN Len(file) - qOffset ELSE 0
      /\ \A i \in 1..Len(pending) :
            qOffset + i \in 1..Len(file) /\ pending[i] = file[qOffset + i] /\ pending[i] \in Record
  BY <1>1, RestShape, PendingIsRest
<1>4. ASSUME NEW i \in 1..Len(pending), NEW j \in 1..Len(pending), pending[i] = pending[j]
      PROVE  i = j
  <2>1. \A k, l \in 1..Len(pending) : k < l => pending[k] < pending[l]
    BY PendingOrdered DEF Ordered
  <2>2. pending[i] \in Int
    BY <1>3 DEF Record
  <2>3. i \in Int /\ j \in Int
    BY <1>3
  <2> QED
    BY <1>4, <2>1, <2>2, <2>3
<1>5. pc = "enqueue" => taken \in Record
  BY <1>1 DEF Record
<1>6. Len(file) \in Nat
  BY <1>1
<1> QED
  BY <1>1, <1>2, <1>3, <1>4, <1>5, <1>6

LEMMA EmptyPending == ASSUME NEW q \in Nat PROVE Rest(<<>>, q) = <<>>
<1> DEFINE s == <<>>
<1>1. s \in Seq(Record) /\ Len(s) = 0
  OBVIOUS
<1> HIDE DEF s
<1>2. Rest(s, q) \in Seq(Record) /\ Len(Rest(s, q)) = IF q <= Len(s) THEN Len(s) - q ELSE 0
  BY <1>1, RestShape
<1>3. Len(Rest(s, q)) = 0
  BY <1>1, <1>2
<1>4. Rest(s, q) = <<>>
  BY <1>2, <1>3, EmptySeq
<1> QED
  BY <1>4 DEF s

LEMMA StepKeepsHead == HeadInv /\ [QueueNext]_qvars => HeadInv'
<1> SUFFICES ASSUME HeadInv, [QueueNext]_qvars PROVE HeadInv'
  OBVIOUS
<1>0. /\ OrderInv /\ OrderInv' /\ Clean(pending) /\ pc \in BoardPc
      /\ fate \in [Record -> {"volatile", "buffered", "finished", "pushedOut"}]
      /\ pc \in {"remove", "rename"} => Clean(tmp)
      /\ pc = "resetOffset" => Clean(file)
      /\ pc = "rename" => file = <<>>
  BY StepKeepsOrder DEF HeadInv
<1>p. pending = Rest(file, qOffset) /\ pending' = Rest(file', qOffset')
  BY PendingIsRest DEF pending, Rest
(* The flash and the fates stay, and pc is not in the middle of a           *)
(* compaction, or was there already.                                        *)
<1>s. ASSUME UNCHANGED <<file, tmp, qOffset, fate>>, pc' \in BoardPc,
             pc' \in {"remove", "rename", "resetOffset"} => pc' = pc
      PROVE  HeadInv'
  BY <1>0, <1>p, <1>s DEF HeadInv, Clean
(* A record is finished that is not pending behind the head. *)
<1>f. ASSUME NEW rec \in Record,
             fate' = fate \/ fate' = [fate EXCEPT ![rec] = "finished"],
             \A i \in 2..Len(pending) : pending[i] # rec,
             UNCHANGED <<file, qOffset>>,
             pc' \in {"advance", "read", "idle", "enqueue"}
      PROVE  HeadInv'
  <2>1. pending' = pending
    BY <1>f, <1>p
  <2>2. \A i \in 2..Len(pending) : pending[i] \in Record
    BY <1>0, PendingShape
  <2>3. Clean(pending)'
    BY <1>0, <1>f, <2>1, <2>2 DEF Clean
  <2>4. fate' \in [Record -> {"volatile", "buffered", "finished", "pushedOut"}]
    BY <1>0, <1>f
  <2> QED
    BY <1>0, <1>f, <2>3, <2>4 DEF HeadInv, BoardPc
<1>1. CASE loop \/ flushEnds \/ noReading
  BY <1>s, <1>1 DEF loop, flushEnds, noReading, flashVars, deliveryVars, BoardPc
<1>2. CASE compactQueueIfNeeded
  BY <1>s, <1>0, <1>2 DEF compactQueueIfNeeded, flashVars, deliveryVars, BoardPc, OrderInv
<1>3. CASE flushQueue
  <2>1. Head(pending) = pending[1] /\ pending[1] \in Record
    <3>1. pending # <<>>
      BY <1>3 DEF flushQueue
    <3> QED
      BY <1>0, <1>p, <3>1, RestTail, PendingShape
  <2>2. /\ fate' = fate \/ fate' = [fate EXCEPT ![pending[1]] = "finished"]
        /\ pc' \in {"advance", "read"} /\ UNCHANGED <<file, qOffset>>
    BY <1>0, <1>3, <2>1, DeliveryFinishes DEF flushQueue, flashVars
  <2>3. \A i \in 2..Len(pending) : pending[i] # pending[1]
    BY <1>0, PendingShape
  <2> QED
    BY <1>f, <2>1, <2>2, <2>3
<1>4. CASE dequeueAdvance
  <2>1. /\ qOffset' = qOffset + 1 /\ UNCHANGED <<file, tmp, fate>> /\ pc' = "compact"
    BY <1>4 DEF dequeueAdvance, boardVars, deliveryVars
  <2>2. file \in Seq(Record) /\ qOffset \in Nat
    BY <1>0, PendingShape
  <2>3. \A i \in 2..Len(Rest(file, qOffset + 1)) :
           fate[Rest(file, qOffset + 1)[i]] # "finished"
    <3>1. CASE Rest(file, qOffset) = <<>>
      <4>1. Len(Rest(file, qOffset)) = 0
        BY <3>1
      <4>2. Len(Rest(file, qOffset + 1)) = 0
        BY <2>2, <4>1, RestShape
      <4> QED
        BY <4>2
    <3>2. CASE Rest(file, qOffset) # <<>>
      <4>1. Len(Rest(file, qOffset + 1)) \in Nat
        BY <2>2, RestShape
      <4> SUFFICES ASSUME NEW i \in 2..Len(Rest(file, qOffset + 1))
                   PROVE  fate[Rest(file, qOffset + 1)[i]] # "finished"
        OBVIOUS
      <4>2. i \in 1..Len(Rest(file, qOffset + 1))
        BY <4>1
      <4>3. i + 1 \in 2..Len(pending) /\ Rest(file, qOffset + 1)[i] = pending[i + 1]
        BY <1>p, <2>2, <3>2, <4>2, RestTail
      <4> QED
        BY <1>0, <4>3 DEF Clean
    <3> QED
      BY <3>1, <3>2
  <2> QED
    BY <1>0, <1>p, <2>1, <2>3 DEF HeadInv, Clean, BoardPc
<1>5. CASE postTelemetry
  <2>1. /\ taken < MaxTaken /\ UNCHANGED <<file, qOffset>>
        /\ deliverRecord(taken + 1, ~synced, "idle", "enqueue")
    BY <1>5 DEF postTelemetry, flashVars
  <2>2. taken + 1 \in Record /\ taken \in Int
    BY <1>0, <2>1, PendingShape, BoardAssumption DEF Record
  <2>3. \A i \in 2..Len(pending) : pending[i] # taken + 1
    <3>1. \A i \in 1..Len(pending) : pending[i] \in Int /\ pending[i] <= taken
      BY <1>0, PendingShape DEF Record
    <3> QED
      BY <1>0, <2>2, <3>1, PendingShape
  <2>4. /\ fate' = fate \/ fate' = [fate EXCEPT ![taken + 1] = "finished"]
        /\ pc' \in {"idle", "enqueue"}
    BY <1>0, <2>1, <2>2, DeliveryFinishes
  <2> QED
    BY <1>f, <2>1, <2>2, <2>3, <2>4
<1>6. CASE dropOldest
  <2>1. /\ qOffset' = qOffset + 1 /\ UNCHANGED <<file, tmp, pc>> /\ pc = "enqueue"
        /\ fate' = IF fate[Head(pending)] = "finished" THEN fate
                   ELSE [fate EXCEPT ![Head(pending)] = "pushedOut"]
        /\ Len(pending) + 1 > MaxQueue
    BY <1>6 DEF dropOldest, boardVars
  <2>2. file \in Seq(Record) /\ qOffset \in Nat /\ pending # <<>>
    <3>1. Len(pending) \in Nat /\ Len(pending) # 0
      BY <1>0, <2>1, PendingShape, BoardAssumption
    <3> QED
      BY <1>0, <3>1, PendingShape
  <2>3. ASSUME NEW i \in 2..Len(Rest(file, qOffset + 1))
        PROVE  fate'[Rest(file, qOffset + 1)[i]] # "finished"
    <3>1. Len(Rest(file, qOffset + 1)) \in Nat
      BY <2>2, RestShape
    <3>2. i + 1 \in 2..Len(pending) /\ Rest(file, qOffset + 1)[i] = pending[i + 1]
      BY <1>p, <2>2, <3>1, RestTail
    <3>3. fate[pending[i + 1]] # "finished" /\ pending[i + 1] \in Record
      BY <1>0, <3>2, PendingShape DEF Clean
    <3> QED
      BY <1>0, <2>1, <3>2, <3>3
  <2>4. fate' \in [Record -> {"volatile", "buffered", "finished", "pushedOut"}]
    BY <1>0, <2>1
  <2> QED
    BY <1>0, <1>p, <2>1, <2>3, <2>4 DEF HeadInv, Clean, BoardPc
<1>7. CASE enqueueRecord
  <2>1. /\ pc' = "compact" /\ UNCHANGED <<tmp, qOffset>> /\ pc = "enqueue"
        /\ \/ file' = Append(file, taken) /\ fate' = [fate EXCEPT ![taken] = "buffered"]
           \/ UNCHANGED <<file, fate>>
    BY <1>7 DEF enqueueRecord
  <2>2. CASE UNCHANGED <<file, fate>>
    BY <1>s, <2>1, <2>2 DEF BoardPc
  <2>3. CASE file' = Append(file, taken) /\ fate' = [fate EXCEPT ![taken] = "buffered"]
    <3>1. file \in Seq(Record) /\ taken \in Record /\ qOffset \in Nat /\ Len(file) \in Nat
      BY <1>0, <2>1, PendingShape
    <3>2. /\ file' \in Seq(Record) /\ Len(file') = Len(file) + 1
          /\ \A j \in 1..Len(file') : file'[j] = IF j = Len(file') THEN taken ELSE file[j]
      BY <2>3, <3>1
    <3>3. ASSUME NEW i \in 2..Len(Rest(file', qOffset))
          PROVE  fate'[Rest(file', qOffset)[i]] # "finished"
      <4>1. i \in 1..Len(Rest(file', qOffset)) /\ i \in Nat /\ i >= 2
        BY <3>1, <3>2, RestShape
      <4>2. qOffset + i \in 1..Len(file') /\ Rest(file', qOffset)[i] = file'[qOffset + i]
        BY <3>1, <3>2, <4>1, RestShape
      <4>3. CASE qOffset + i = Len(file')
        BY <1>0, <2>3, <3>1, <3>2, <4>2, <4>3
      <4>4. CASE qOffset + i # Len(file')
        <5>1. qOffset + i <= Len(file) /\ file'[qOffset + i] = file[qOffset + i]
          BY <3>1, <3>2, <4>1, <4>2, <4>4
        <5>2. Len(pending) = Len(file) - qOffset
          BY <1>p, <3>1, <4>1, <5>1, RestShape
        <5>3. i \in 2..Len(pending) /\ i \in 1..Len(pending)
          BY <3>1, <4>1, <5>1, <5>2
        <5>4. pending[i] = file[qOffset + i] /\ pending[i] \in Record
          BY <1>0, <5>3, PendingShape
        <5>5. fate[pending[i]] # "finished"
          BY <1>0, <5>3 DEF Clean
        <5> QED
          BY <1>0, <2>3, <4>2, <5>1, <5>4, <5>5
      <4> QED
        BY <4>3, <4>4
    <3>4. fate' \in [Record -> {"volatile", "buffered", "finished", "pushedOut"}]
      BY <1>0, <2>3
    <3> QED
      BY <1>0, <1>p, <2>1, <3>3, <3>4 DEF HeadInv, Clean, BoardPc
  <2> QED
    BY <2>1, <2>2, <2>3
<1>8. CASE copyToTmp
  <2>1. tmp' = copied /\ UNCHANGED <<file, qOffset, fate>> /\ pc' = "remove"
    BY <1>8 DEF copyToTmp, deliveryVars
  <2>2. Clean(copied)
    <3>1. \A i \in 2..Len(copied) : i \in 2..Len(pending) /\ copied[i] = pending[i]
      BY <1>0, CopiedShape, PendingShape
    <3> QED
      BY <1>0, <3>1 DEF Clean
  <2> QED
    BY <1>0, <1>p, <2>1, <2>2 DEF HeadInv, Clean, BoardPc
<1>9. CASE removeFile
  <2>1. /\ file' = <<>> /\ UNCHANGED <<tmp, qOffset, fate>>
        /\ pc \in {"removeDone", "remove"} /\ pc' = IF pc = "remove" THEN "rename" ELSE "resetOffset"
    BY <1>9 DEF removeFile, deliveryVars
  <2>2. pending' = <<>>
    BY <1>0, <1>p, <2>1, EmptyPending, PendingShape
  <2>3. Len(<<>>) = 0
    OBVIOUS
  <2>4. Clean(pending)' /\ Clean(file)'
    BY <2>1, <2>2, <2>3 DEF Clean
  <2> QED
    BY <1>0, <2>1, <2>4 DEF HeadInv, Clean, BoardPc
<1>10. CASE renameTmp
  <2>1. file' = tmp /\ tmp' = <<>> /\ UNCHANGED <<qOffset, fate>> /\ pc = "rename" /\ pc' = "resetOffset"
    BY <1>10 DEF renameTmp, deliveryVars
  <2>2. tmp \in Seq(Record) /\ qOffset \in Nat /\ Clean(tmp)
    BY <1>0, <2>1, PendingShape
  <2>3. Clean(Rest(tmp, qOffset))
    BY <2>2, CleanRest
  <2> QED
    BY <1>0, <1>p, <2>1, <2>2, <2>3 DEF HeadInv, Clean, BoardPc
<1>11. CASE resetOffset
  <2>1. qOffset' = 0 /\ UNCHANGED <<file, tmp, fate>> /\ pc = "resetOffset" /\ pc' = next
    BY <1>11 DEF resetOffset, deliveryVars
  <2>2. file \in Seq(Record) /\ Clean(file)
    BY <1>0, <2>1, PendingShape
  <2>3. Clean(Rest(file, 0))
    BY <2>2, CleanRest
  <2>4. next \in {"idle", "flush"}
    BY <1>0 DEF OrderInv
  <2> QED
    BY <1>0, <1>p, <2>1, <2>3, <2>4 DEF HeadInv, Clean, BoardPc
<1>12. CASE Restart
  BY <1>s, <1>12 DEF Restart, flashVars, deliveryVars, BoardPc
<1>13. CASE NtpSync \/ LinkChanges
  BY <1>s, <1>0, <1>13 DEF NtpSync, LinkChanges, flashVars, deliveryVars
<1>14. CASE UNCHANGED qvars
  BY <1>s, <1>0, <1>14 DEF qvars
<1> QED
  BY <1>1, <1>2, <1>3, <1>4, <1>5, <1>6, <1>7, <1>8, <1>9, <1>10, <1>11, <1>12, <1>13, <1>14
  DEF QueueNext, boardStep, compactionStep

LEMMA HeadInitially == QueueInit => HeadInv
<1> SUFFICES ASSUME QueueInit PROVE HeadInv
  OBVIOUS
<1>1. OrderInv
  BY BoardAssumption, EmptyOrdered DEF QueueInit, OrderInv
<1>2. pending = <<>> /\ Len(<<>>) = 0
  BY EmptyPending, PendingIsRest DEF QueueInit
<1> QED
  BY <1>1, <1>2 DEF QueueInit, HeadInv, Clean, BoardPc

(* A restart repeats at most the record at the head: nothing else that is   *)
(* pending has been finished, wherever the board stopped (deliverRecord,    *)
(* dequeueAdvance and compactQueueIfNeeded of hardware.ino).                *)
THEOREM OnlyTheHeadIsRepeatedProven == QueueSpec => []OnlyTheHeadIsRepeated
<1>1. QueueInit => HeadInv
  BY HeadInitially
<1>2. HeadInv /\ [QueueNext]_qvars => HeadInv'
  BY StepKeepsHead
<1>3. HeadInv => OnlyTheHeadIsRepeated
  BY DEF HeadInv, Clean, OnlyTheHeadIsRepeated
<1> QED
  BY <1>1, <1>2, <1>3, PTL DEF QueueSpec

-----------------------------------------------------------------------------
(* Every reading the fates f call buffered is in the sequence. *)
Holds(f, s) == \A rec \in Record : f[rec] = "buffered" => \E i \in 1..Len(s) : s[i] = rec

(* Where the readings that wait are, flash operation by flash operation,    *)
(* until a compaction is interrupted or does not fit.                       *)
UndamagedInv ==
    /\ pc \in {"idle", "flush", "advance", "read", "enqueue", "compact", "copy"}
          => Holds(fate, pending) /\ qOffset <= Len(file)
    /\ pc = "removeDone" => Holds(fate, <<>>)
    /\ pc \in {"remove", "rename"} => Holds(fate, tmp)
    /\ pc = "resetOffset" => Holds(fate, file)

KeepInv ==
    /\ HeadInv
    /\ pc = "advance" => pending # <<>> /\ fate[pending[1]] = "finished"
    /\ damaged \in BOOLEAN
    /\ ~damaged => UndamagedInv

LEMMA HoldsFewer ==
    ASSUME NEW f, NEW g, NEW s, Holds(f, s),
           \A rec \in Record : g[rec] = "buffered" => f[rec] = "buffered"
    PROVE  Holds(g, s)
BY DEF Holds

(* Two sequences hold the same if one has what the other has. *)
LEMMA HoldsMore ==
    ASSUME NEW f, NEW s, NEW t, Holds(f, s),
           \A i \in 1..Len(s) : \E j \in 1..Len(t) : t[j] = s[i]
    PROVE  Holds(f, t)
<1> SUFFICES ASSUME NEW rec \in Record, f[rec] = "buffered" PROVE \E j \in 1..Len(t) : t[j] = rec
  BY DEF Holds
<1>1. PICK i \in 1..Len(s) : s[i] = rec
  BY DEF Holds
<1>2. \E j \in 1..Len(t) : t[j] = s[i]
  OBVIOUS
<1> QED
  BY <1>1, <1>2

(* The head is done with, and the queue moves on. *)
LEMMA HoldsTail ==
    ASSUME NEW f, NEW s \in Seq(Record), NEW q \in Nat, Rest(s, q) # <<>>,
           Holds(f, Rest(s, q)), f[Rest(s, q)[1]] # "buffered"
    PROVE  Holds(f, Rest(s, q + 1)) /\ q + 1 <= Len(s)
<1> DEFINE r == Rest(s, q)
           t == Rest(s, q + 1)
<1>1. /\ q < Len(s) /\ Len(s) \in Nat /\ Len(r) \in Nat /\ Len(t) = Len(r) - 1
      /\ \A i \in 1..Len(t) : i + 1 \in 2..Len(r) /\ t[i] = r[i + 1]
  BY RestTail, RestShape
<1>2. f[r[1]] # "buffered" /\ Holds(f, r)
  OBVIOUS
<1> HIDE DEF r, t
<1>3. ASSUME NEW rec \in Record, f[rec] = "buffered" PROVE \E j \in 1..Len(t) : t[j] = rec
  <2>1. PICK i \in 1..Len(r) : r[i] = rec
    BY <1>2, <1>3 DEF Holds
  <2>2. i # 1
    BY <1>2, <1>3, <2>1
  <2>3. i - 1 \in 1..Len(t) /\ t[i - 1] = r[(i - 1) + 1] /\ (i - 1) + 1 = i
    BY <1>1, <2>2
  <2> QED
    BY <2>1, <2>3
<1>4. q + 1 <= Len(s)
  BY <1>1
<1> QED
  BY <1>3, <1>4 DEF Holds, t

LEMMA KeepInitially == QueueInit => KeepInv
<1> SUFFICES ASSUME QueueInit PROVE KeepInv
  OBVIOUS
<1>1. HeadInv
  BY HeadInitially
<1>2. Holds(fate, pending) /\ qOffset <= Len(file)
  BY BoardAssumption DEF QueueInit, Holds
<1> QED
  BY <1>1, <1>2 DEF QueueInit, KeepInv, UndamagedInv

LEMMA StepKeepsBuffered == KeepInv /\ HeadInv' /\ [QueueNext]_qvars => KeepInv'
<1> SUFFICES ASSUME KeepInv, HeadInv', [QueueNext]_qvars PROVE KeepInv'
  OBVIOUS
<1> DEFINE Resting == {"idle", "flush", "read", "enqueue", "compact", "copy"}
<1>0. /\ HeadInv /\ OrderInv /\ damaged \in BOOLEAN /\ pc \in BoardPc
      /\ fate \in [Record -> {"volatile", "buffered", "finished", "pushedOut"}]
      /\ pc = "advance" => pending # <<>> /\ fate[pending[1]] = "finished"
      /\ ~damaged => UndamagedInv
  BY DEF KeepInv, HeadInv
<1>p. pending = Rest(file, qOffset) /\ pending' = Rest(file', qOffset')
  BY PendingIsRest DEF pending, Rest
<1>q. file \in Seq(Record) /\ tmp \in Seq(Record) /\ qOffset \in Nat /\ Len(file) \in Nat
  BY <1>0, PendingShape
<1>r. ~damaged /\ pc \in Resting \cup {"advance"}
         => Holds(fate, pending) /\ qOffset <= Len(file)
  BY <1>0 DEF UndamagedInv
(* A step between two places where the flash is at rest. *)
<1>s. ASSUME pc' \in Resting, damaged' = damaged,
             ~damaged => Holds(fate', pending') /\ qOffset' <= Len(file')
      PROVE  KeepInv'
  BY <1>0, <1>s DEF KeepInv, UndamagedInv
<1>t. ASSUME UNCHANGED <<file, qOffset, fate, damaged>>, pc' \in Resting, 
             pc \in Resting \cup {"advance"}
      PROVE  KeepInv'
  BY <1>p, <1>r, <1>s, <1>t
(* Fewer readings wait, and the flash stays. *)
<1>f. ASSUME NEW rec \in Record, fate' = fate \/ fate' = [fate EXCEPT ![rec] = "finished"],
             UNCHANGED <<file, qOffset, damaged>>, pc \in Resting
      PROVE  ~damaged => Holds(fate', pending') /\ qOffset' <= Len(file')
  <2>1. \A x \in Record : fate'[x] = "buffered" => fate[x] = "buffered"
    BY <1>0, <1>f
  <2>2. pending' = pending
    BY <1>f, <1>p
  <2> HIDE DEF Resting
  <2> QED
    BY <1>f, <1>r, <2>1, <2>2, HoldsFewer
<1>1. CASE loop \/ flushEnds \/ noReading
  BY <1>t, <1>1 DEF loop, flushEnds, noReading, flashVars, boardVars, deliveryVars
<1>2. CASE compactQueueIfNeeded
  <2>1. /\ UNCHANGED <<file, tmp, qOffset, fate, damaged>> /\ pc = "compact"
        /\ pc' = IF allDone THEN "removeDone" ELSE IF mostlyDone THEN "copy" ELSE next
    BY <1>2 DEF compactQueueIfNeeded, boardVars, flashVars, deliveryVars
  <2>2. next \in {"idle", "flush"}
    BY <1>0 DEF OrderInv
  <2>3. CASE ~allDone
    BY <1>t, <2>1, <2>2, <2>3
  <2>4. CASE allDone
    <3>1. pc' = "removeDone" /\ Len(pending) = 0
      BY <1>p, <1>q, <2>1, <2>4, RestShape DEF allDone, hasDead
    <3>2. ~damaged => Holds(fate, <<>>)
      BY <1>r, <2>1, <3>1 DEF Holds
    <3> QED
      BY <1>0, <2>1, <3>1, <3>2 DEF KeepInv, UndamagedInv
  <2> QED
    BY <2>3, <2>4
<1>3. CASE flushQueue
  <2>1. pending # <<>> /\ Head(pending) = pending[1] /\ pending[1] \in Record
    <3>1. pending # <<>>
      BY <1>3 DEF flushQueue
    <3> QED
      BY <1>0, <1>p, <1>q, <3>1, RestTail, PendingShape
  <2>2. /\ \/ fate' = fate /\ pc' = "read"
           \/ fate' = [fate EXCEPT ![pending[1]] = "finished"] /\ pc' = "advance"
        /\ UNCHANGED <<file, qOffset, damaged>> /\ pc = "flush"
    BY <1>0, <1>3, <2>1, DeliveryFinishes DEF flushQueue, flashVars, boardVars
  <2>3. ~damaged => Holds(fate', pending') /\ qOffset' <= Len(file')
    BY <1>f, <2>1, <2>2
  <2>4. CASE pc' = "read"
    BY <1>s, <2>2, <2>3, <2>4
  <2>5. CASE pc' = "advance"
    <3>1. pending' = pending /\ fate'[pending[1]] = "finished"
      BY <1>0, <1>p, <2>1, <2>2, <2>5
    <3> QED
      BY <1>0, <2>1, <2>2, <2>3, <2>5, <3>1 DEF KeepInv, UndamagedInv
  <2> QED
    BY <2>2, <2>4, <2>5
<1>4. CASE dequeueAdvance
  <2>1. /\ qOffset' = qOffset + 1 /\ UNCHANGED <<file, tmp, fate, damaged>>
        /\ pc = "advance" /\ pc' = "compact"
    BY <1>4 DEF dequeueAdvance, boardVars, deliveryVars
  <2>2. ~damaged => Holds(fate, Rest(file, qOffset + 1)) /\ qOffset + 1 <= Len(file)
    BY <1>0, <1>p, <1>q, <1>r, <2>1, HoldsTail
  <2> QED
    BY <1>p, <1>s, <2>1, <2>2
<1>5. CASE postTelemetry
  <2>1. /\ taken < MaxTaken /\ UNCHANGED <<file, qOffset, damaged>> /\ pc = "read"
        /\ deliverRecord(taken + 1, ~synced, "idle", "enqueue")
    BY <1>5 DEF postTelemetry, flashVars
  <2>2. taken + 1 \in Record
    BY <1>0, <2>1, PendingShape, BoardAssumption DEF Record
  <2>3. /\ fate' = fate \/ fate' = [fate EXCEPT ![taken + 1] = "finished"]
        /\ pc' \in {"idle", "enqueue"}
    BY <1>0, <2>1, <2>2, DeliveryFinishes
  <2>4. ~damaged => Holds(fate', pending') /\ qOffset' <= Len(file')
    BY <1>f, <2>1, <2>2, <2>3
  <2> QED
    BY <1>s, <2>1, <2>3, <2>4
<1>6. CASE dropOldest
  <2>1. /\ qOffset' = qOffset + 1 /\ UNCHANGED <<file, tmp, pc, damaged>> /\ pc = "enqueue"
        /\ fate' = IF fate[Head(pending)] = "finished" THEN fate
                   ELSE [fate EXCEPT ![Head(pending)] = "pushedOut"]
        /\ Len(pending) + 1 > MaxQueue
    BY <1>6 DEF dropOldest, boardVars
  <2>2. pending # <<>> /\ Head(pending) = pending[1] /\ pending[1] \in Record
    <3>1. pending # <<>>
      <4>1. Len(pending) \in Nat /\ Len(pending) # 0
        BY <1>0, <2>1, PendingShape, BoardAssumption
      <4> QED
        BY <4>1
    <3> QED
      BY <1>0, <1>p, <1>q, <3>1, RestTail, PendingShape
  <2>3. /\ \A x \in Record : fate'[x] = "buffered" => fate[x] = "buffered"
        /\ fate'[pending[1]] # "buffered"
    BY <1>0, <2>1, <2>2
  <2>4. ~damaged => Holds(fate', Rest(file, qOffset + 1)) /\ qOffset + 1 <= Len(file)
    <3>1. ~damaged => Holds(fate', pending)
      <4>1. ~damaged => Holds(fate, pending)
        BY <1>r, <2>1
      <4> HIDE DEF Resting
      <4> QED
        BY <2>3, <4>1, HoldsFewer
    <3> QED
      BY <1>p, <1>q, <2>2, <2>3, <3>1, HoldsTail
  <2> QED
    BY <1>p, <1>s, <2>1, <2>4
<1>7. CASE enqueueRecord
  <2>1. /\ pc' = "compact" /\ UNCHANGED <<tmp, qOffset, damaged>> /\ pc = "enqueue"
        /\ \/ file' = Append(file, taken) /\ fate' = [fate EXCEPT ![taken] = "buffered"]
           \/ UNCHANGED <<file, fate>>
    BY <1>7 DEF enqueueRecord, boardVars
  <2>2. CASE UNCHANGED <<file, fate>>
    BY <1>t, <2>1, <2>2
  <2>3. CASE file' = Append(file, taken) /\ fate' = [fate EXCEPT ![taken] = "buffered"]
    <3>1. taken \in Record
      BY <1>0, <2>1, PendingShape
    <3>2. /\ file' \in Seq(Record) /\ Len(file') = Len(file) + 1
          /\ \A j \in 1..Len(file') : file'[j] = IF j = Len(file') THEN taken ELSE file[j]
      BY <1>q, <2>3, <3>1
    <3>3. ASSUME ~damaged, NEW rec \in Record, fate'[rec] = "buffered"
          PROVE  \E i \in 1..Len(pending') : pending'[i] = rec
      <4>1. qOffset <= Len(file) /\ Holds(fate, pending)
        BY <1>r, <2>1, <3>3
      <4>2. /\ Len(pending') = Len(file) + 1 - qOffset
            /\ \A i \in 1..Len(pending') : pending'[i] = file'[qOffset + i]
        BY <1>p, <1>q, <2>1, <3>2, <4>1, RestShape
      <4>3. CASE rec = taken
        <5>1. /\ Len(pending') \in 1..Len(pending')
              /\ qOffset + Len(pending') = Len(file') /\ Len(file') \in 1..Len(file')
          BY <1>q, <3>2, <4>1, <4>2
        <5>2. pending'[Len(pending')] = taken
          BY <3>2, <4>2, <5>1
        <5> QED
          BY <4>3, <5>1, <5>2
      <4>4. CASE rec # taken
        <5>1. fate[rec] = "buffered"
          BY <1>0, <2>3, <3>1, <3>3, <4>4
        <5>2. PICK i \in 1..Len(pending) : pending[i] = rec
          BY <4>1, <5>1 DEF Holds
        <5>3. qOffset + i \in 1..Len(file) /\ pending[i] = file[qOffset + i] /\ i \in Nat /\ i >= 1
          BY <1>0, PendingShape
        <5>4. /\ i \in 1..Len(pending') /\ qOffset + i \in 1..Len(file')
              /\ qOffset + i # Len(file')
          BY <1>q, <3>2, <4>1, <4>2, <5>3
        <5>5. pending'[i] = rec
          BY <3>2, <4>2, <5>2, <5>3, <5>4
        <5> QED
          BY <5>4, <5>5
      <4> QED
        BY <4>3, <4>4
    <3>4. ~damaged => Holds(fate', pending')
      BY <3>3 DEF Holds
    <3>5. ~damaged => qOffset' <= Len(file')
      BY <1>q, <1>r, <2>1, <3>2
    <3> QED
      BY <1>s, <2>1, <3>4, <3>5
  <2> QED
    BY <2>1, <2>2, <2>3
<1>8. CASE copyToTmp
  <2>1. /\ tmp' = copied /\ UNCHANGED <<file, qOffset, fate>> /\ pc = "copy" /\ pc' = "remove"
        /\ damaged' = (damaged \/ Len(copied) < Len(pending))
    BY <1>8 DEF copyToTmp, deliveryVars
  <2>2. ~damaged' => Holds(fate, copied)
    <3> SUFFICES ASSUME ~damaged' PROVE Holds(fate, copied)
      OBVIOUS
    <3>1. ~damaged /\ ~(Len(copied) < Len(pending))
      BY <1>0, <2>1
    <3>2. /\ Len(copied) = Len(pending)
          /\ \A i \in 1..Len(pending) : i \in 1..Len(copied) /\ copied[i] = pending[i]
      BY <1>0, <3>1, CopiedShape, PendingShape
    <3>3. Holds(fate, pending)
      BY <1>r, <2>1, <3>1
    <3> QED
      BY <3>2, <3>3, HoldsMore
  <2>3. damaged' \in BOOLEAN
    BY <2>1
  <2> QED
    BY <1>0, <2>1, <2>2, <2>3 DEF KeepInv, UndamagedInv
<1>9. CASE removeFile
  <2>1. /\ file' = <<>> /\ UNCHANGED <<tmp, qOffset, fate, damaged>>
        /\ pc \in {"removeDone", "remove"} /\ pc' = IF pc = "remove" THEN "rename" ELSE "resetOffset"
    BY <1>9 DEF removeFile, boardVars, deliveryVars
  <2> QED
    BY <1>0, <2>1 DEF KeepInv, UndamagedInv
<1>10. CASE renameTmp
  <2>1. /\ file' = tmp /\ tmp' = <<>> /\ UNCHANGED <<qOffset, fate, damaged>>
        /\ pc = "rename" /\ pc' = "resetOffset"
    BY <1>10 DEF renameTmp, boardVars, deliveryVars
  <2> QED
    BY <1>0, <2>1 DEF KeepInv, UndamagedInv
<1>11. CASE resetOffset
  <2>1. qOffset' = 0 /\ UNCHANGED <<file, tmp, fate, damaged>> /\ pc = "resetOffset" /\ pc' = next
    BY <1>11 DEF resetOffset, boardVars, deliveryVars
  <2>2. next \in {"idle", "flush"}
    BY <1>0 DEF OrderInv
  <2>3. /\ Len(Rest(file, 0)) = Len(file)
        /\ \A i \in 1..Len(file) : i \in 1..Len(Rest(file, 0)) /\ Rest(file, 0)[i] = file[i]
    BY <1>q, RestShape
  <2>4. ~damaged => Holds(fate, file)
    BY <1>0, <2>1 DEF UndamagedInv
  <2>5. ~damaged => Holds(fate, Rest(file, 0))
    BY <2>3, <2>4, HoldsMore
  <2> QED
    BY <1>p, <1>q, <1>s, <2>1, <2>2, <2>5
<1>12. CASE Restart
  <2>1. UNCHANGED <<file, qOffset, fate>> /\ pc' = "idle" /\ damaged' = (damaged \/ inCompaction)
    BY <1>12 DEF Restart, flashVars, deliveryVars
  <2>2. CASE inCompaction
    BY <1>0, <2>1, <2>2 DEF KeepInv
  <2>3. CASE ~inCompaction
    <3>1. pc \in Resting \cup {"advance"} /\ damaged' = damaged
      BY <1>0, <2>1, <2>3 DEF inCompaction, BoardPc
    <3> QED
      BY <1>t, <2>1, <3>1
  <2> QED
    BY <2>2, <2>3
<1>13. CASE NtpSync \/ LinkChanges \/ UNCHANGED qvars
  <2>1. UNCHANGED <<file, tmp, qOffset, fate, damaged, pc>>
    BY <1>13 DEF NtpSync, LinkChanges, qvars, boardVars, flashVars, deliveryVars
  <2> QED
    BY <1>0, <1>p, <2>1 DEF KeepInv, UndamagedInv
<1> QED
  BY <1>1, <1>2, <1>3, <1>4, <1>5, <1>6, <1>7, <1>8, <1>9, <1>10, <1>11, <1>12, <1>13
  DEF QueueNext, boardStep, compactionStep

(* A buffered reading stays pending, until a restart interrupts a           *)
(* compaction or its copy does not fit: restarts anywhere else, lost        *)
(* answers, a full queue and a write that fails do not make it disappear    *)
(* (flushQueue, enqueueRecord, dropOldest and compactQueueIfNeeded of       *)
(* hardware.ino).                                                           *)
THEOREM BufferedIsKeptProven == QueueSpec => []BufferedIsKept
<1>1. QueueInit => KeepInv
  BY KeepInitially
<1>2. KeepInv /\ [QueueNext]_qvars => KeepInv'
  BY StepKeepsHead, StepKeepsBuffered DEF KeepInv
<1>3. KeepInv => BufferedIsKept
  <2> SUFFICES ASSUME KeepInv, ~damaged, pc \in {"idle", "flush", "read"},
                      NEW rec \in Record, fate[rec] = "buffered"
               PROVE  \E i \in 1..Len(pending) : pending[i] = rec
    BY DEF BufferedIsKept, LeavesOnlyAccepted
  <2> QED
    BY DEF KeepInv, UndamagedInv, Holds
<1> QED
  BY <1>1, <1>2, <1>3, PTL DEF QueueSpec

-----------------------------------------------------------------------------
(* The queue keeps what StoreAndForward promises *)

(* What a compaction has copied, and which readings nobody has finished yet. *)
CopyInv ==
    /\ KeepInv
    /\ pc = "remove" => /\ recordsOf(tmp) \subseteq recordsOf(pending)
                        /\ ~damaged => recordsOf(pending) \subseteq recordsOf(tmp)
    /\ pc = "removeDone" => pending = <<>>
    /\ \A rec \in Record : rec > taken => fate[rec] # "finished"
    /\ pc = "enqueue" => fate[taken] # "finished"

(* The records behind an offset are among those of the file.                *)
LEMMA RecordsOfRest ==
    ASSUME NEW s \in Seq(Record), NEW q \in Nat
    PROVE  /\ recordsOf(s) \subseteq Record
           /\ recordsOf(Rest(s, q)) \subseteq recordsOf(s)
           /\ recordsOf(Rest(s, 0)) = recordsOf(s)
<1>1. recordsOf(s) \subseteq Record
  BY DEF recordsOf
<1>2. recordsOf(Rest(s, q)) \subseteq recordsOf(s)
  BY RestShape DEF recordsOf
<1>3. ASSUME NEW i \in 1..Len(s) PROVE s[i] \in recordsOf(Rest(s, 0))
  <2>1. Len(Rest(s, 0)) = Len(s)
    BY RestShape
  <2>2. i \in 1..Len(Rest(s, 0)) /\ 0 + i = i
    BY <2>1
  <2>3. Rest(s, 0)[i] = s[i]
    BY <2>2, RestShape
  <2> QED
    BY <2>2, <2>3 DEF recordsOf
<1>4. recordsOf(Rest(s, 0)) \subseteq recordsOf(s)
  BY RestShape DEF recordsOf
<1> QED
  BY <1>1, <1>2, <1>3, <1>4 DEF recordsOf

(* Taking the head off the queue takes one record off its set.              *)
LEMMA RecordsOfTail ==
    ASSUME NEW s \in Seq(Record), NEW q \in Nat, Rest(s, q) # <<>>,
           \A i, j \in 1..Len(Rest(s, q)) : Rest(s, q)[i] = Rest(s, q)[j] => i = j
    PROVE  recordsOf(Rest(s, q + 1)) = recordsOf(Rest(s, q)) \ {Rest(s, q)[1]}
<1> DEFINE r == Rest(s, q)
           t == Rest(s, q + 1)
<1>1. /\ Len(r) \in Nat /\ Len(r) >= 1 /\ Len(t) = Len(r) - 1
      /\ \A i \in 1..Len(t) : i + 1 \in 2..Len(r) /\ t[i] = r[i + 1]
      /\ \A i, j \in 1..Len(r) : r[i] = r[j] => i = j
  BY RestTail, RestShape
<1> HIDE DEF r, t
<1>2. ASSUME NEW i \in 1..Len(t) PROVE t[i] \in recordsOf(r) \ {r[1]}
  <2>1. i + 1 \in 1..Len(r) /\ 1 \in 1..Len(r) /\ i + 1 # 1 /\ t[i] = r[i + 1]
    BY <1>1
  <2> QED
    BY <1>1, <2>1 DEF recordsOf
<1>3. ASSUME NEW i \in 1..Len(r), r[i] # r[1] PROVE r[i] \in recordsOf(t)
  <2>1. i # 1 /\ i - 1 \in 1..Len(t) /\ (i - 1) + 1 = i
    BY <1>1, <1>3
  <2>2. t[i - 1] = r[i]
    BY <1>1, <2>1
  <2> QED
    BY <2>1, <2>2 DEF recordsOf
<1>4. recordsOf(t) = recordsOf(r) \ {r[1]}
  BY <1>2, <1>3 DEF recordsOf
<1> QED
  BY <1>4 DEF r, t

(* What a new record adds: itself, or nothing if the offset is beyond it.   *)
LEMMA RecordsOfAppend ==
    ASSUME NEW s \in Seq(Record), NEW q \in Nat, NEW rec \in Record
    PROVE  \/ recordsOf(Rest(Append(s, rec), q)) = recordsOf(Rest(s, q)) \cup {rec}
           \/ recordsOf(Rest(Append(s, rec), q)) = {} /\ recordsOf(Rest(s, q)) = {}
<1> DEFINE a == Append(s, rec)
           r == Rest(s, q)
           t == Rest(a, q)
<1>1. /\ a \in Seq(Record) /\ Len(a) = Len(s) + 1 /\ Len(s) \in Nat
      /\ \A i \in 1..Len(a) : a[i] = IF i = Len(a) THEN rec ELSE s[i]
  OBVIOUS
<1> HIDE DEF a
<1>2. /\ Len(t) = IF q <= Len(a) THEN Len(a) - q ELSE 0
      /\ \A i \in 1..Len(t) : q + i \in 1..Len(a) /\ t[i] = a[q + i]
  BY <1>1, RestShape
<1>3. /\ Len(r) = IF q <= Len(s) THEN Len(s) - q ELSE 0
      /\ \A i \in 1..Len(r) : q + i \in 1..Len(s) /\ r[i] = s[q + i]
  BY RestShape
<1> HIDE DEF r, t
<1>4. CASE q <= Len(s)
  <2>1. Len(t) = Len(r) + 1 /\ Len(r) = Len(s) - q
    BY <1>1, <1>2, <1>3, <1>4
  <2>2. ASSUME NEW i \in 1..Len(t) PROVE t[i] \in recordsOf(r) \cup {rec}
    <3>1. t[i] = a[q + i] /\ q + i \in 1..Len(a)
      BY <1>2
    <3>2. CASE q + i = Len(a)
      BY <1>1, <3>1, <3>2
    <3>3. CASE q + i # Len(a)
      <4>1. i \in 1..Len(r)
        BY <1>1, <2>1, <3>1, <3>3
      <4>2. r[i] = s[q + i] /\ a[q + i] = s[q + i]
        BY <1>1, <1>3, <3>1, <3>3, <4>1
      <4> QED
        BY <3>1, <4>1, <4>2 DEF recordsOf
    <3> QED
      BY <3>2, <3>3
  <2>3. ASSUME NEW i \in 1..Len(r) PROVE r[i] \in recordsOf(t)
    <3>1. i \in 1..Len(t) /\ q + i \in 1..Len(a) /\ q + i # Len(a)
      BY <1>1, <1>4, <2>1
    <3>2. t[i] = r[i]
      BY <1>1, <1>2, <1>3, <3>1
    <3> QED
      BY <3>1, <3>2 DEF recordsOf
  <2>4. rec \in recordsOf(t)
    <3>1. Len(t) \in 1..Len(t) /\ q + Len(t) = Len(a)
      BY <1>1, <1>4, <2>1
    <3>2. t[Len(t)] = rec
      BY <1>1, <1>2, <3>1
    <3> QED
      BY <3>1, <3>2 DEF recordsOf
  <2>5. recordsOf(t) = recordsOf(r) \cup {rec}
    BY <2>2, <2>3, <2>4 DEF recordsOf
  <2> QED
    BY <2>5 DEF r, t, a
<1>5. CASE ~(q <= Len(s))
  <2>1. Len(t) = 0 /\ Len(r) = 0
    BY <1>1, <1>2, <1>3, <1>5
  <2>2. recordsOf(t) = {} /\ recordsOf(r) = {}
    BY <2>1 DEF recordsOf
  <2> QED
    BY <2>2 DEF r, t, a
<1> QED
  BY <1>4, <1>5

(* As many readings wait as the queue has records, when none is finished.   *)
LEMMA HowManyWait ==
    ASSUME NEW s \in Seq(Record), \A i, j \in 1..Len(s) : s[i] = s[j] => i = j
    PROVE  Cardinality(recordsOf(s)) = Len(s)
<1>1. Len(s) \in Nat
  OBVIOUS
<1> DEFINE f == [i \in 1..Len(s) |-> s[i]]
<1>2. f \in Bijection(1..Len(s), recordsOf(s))
  BY DEF Bijection, Injection, Surjection, IsInjective, recordsOf
<1>3. ExistsBijection(1..Len(s), recordsOf(s))
  BY <1>2 DEF ExistsBijection
<1> QED
  BY <1>1, <1>3, FS_CountingElements

LEMMA BufferCounts == \A S : Buffer!Cardinality(S) = Cardinality(S)
  BY DEF Buffer!Cardinality, Cardinality

(* What CopyInv adds to KeepInv, and what its steps need of KeepInv.         *)
LEMMA CopyFacts ==
    ASSUME CopyInv
    PROVE  /\ KeepInv /\ HeadInv /\ OrderInv
           /\ fate \in [Record -> {"volatile", "buffered", "finished", "pushedOut"}]
           /\ pc \in BoardPc /\ next \in {"idle", "flush"} /\ damaged \in BOOLEAN
           /\ file \in Seq(Record) /\ tmp \in Seq(Record) /\ qOffset \in Nat
           /\ taken \in 0..MaxTaken
           /\ pending = Rest(file, qOffset) /\ pending' = Rest(file', qOffset')
           /\ pending # <<>> => Head(pending) = pending[1] /\ pending[1] \in Record
                                /\ pending[1] <= taken /\ 1 \in 1..Len(pending)
           /\ pc = "advance" => pending # <<>> /\ fate[pending[1]] = "finished"
           /\ pc = "enqueue" => taken \in Record /\ \A i \in 1..Len(pending) : pending[i] < taken
           /\ \A i \in 1..Len(pending) : pending[i] \in Record /\ pending[i] <= taken
           /\ \A i, j \in 1..Len(pending) : pending[i] = pending[j] => i = j
           /\ pc = "rename" => file = <<>>
           /\ Clean(pending)
<1>1. KeepInv /\ HeadInv /\ OrderInv /\ damaged \in BOOLEAN
  BY DEF CopyInv, KeepInv, HeadInv
<1>2. /\ fate \in [Record -> {"volatile", "buffered", "finished", "pushedOut"}]
      /\ pc \in BoardPc /\ Clean(pending) /\ next \in {"idle", "flush"}
      /\ pc = "rename" => file = <<>>
      /\ pc = "advance" => pending # <<>> /\ fate[pending[1]] = "finished"
  BY <1>1 DEF KeepInv, HeadInv, OrderInv
<1>3. pending = Rest(file, qOffset) /\ pending' = Rest(file', qOffset')
  BY PendingIsRest DEF pending, Rest
<1>4. /\ file \in Seq(Record) /\ tmp \in Seq(Record) /\ qOffset \in Nat /\ taken \in 0..MaxTaken
      /\ \A i, j \in 1..Len(pending) : pending[i] = pending[j] => i = j
      /\ \A i \in 1..Len(pending) : qOffset + i \in 1..Len(file)
                                    /\ pending[i] = file[qOffset + i] /\ pending[i] \in Record
      /\ \A i \in 1..Len(file) : file[i] <= taken
      /\ pc = "enqueue" => taken \in Record /\ \A i \in 1..Len(file) : file[i] <= taken - 1
  BY <1>1, PendingShape
<1>5. \A i \in 1..Len(pending) : pending[i] \in Record /\ pending[i] <= taken
  BY <1>4
<1>6. pc = "enqueue" => taken \in Record /\ \A i \in 1..Len(pending) : pending[i] < taken
  BY <1>4 DEF Record
<1>7. ASSUME pending # <<>>
      PROVE  Head(pending) = pending[1] /\ 1 \in 1..Len(pending)
  <2>1. Len(pending) \in Nat
    BY <1>1, PendingShape
  <2> QED BY <1>3, <1>4, <1>7, <2>1, RestTail
<1> QED
  BY <1>1, <1>2, <1>3, <1>4, <1>5, <1>6, <1>7

(* A delivery finishes the record it is about, or no record.                *)
LEMMA FinishedBy ==
    ASSUME NEW rec \in Record,
           fate \in [Record -> {"volatile", "buffered", "finished", "pushedOut"}],
           fate' = fate \/ fate' = [fate EXCEPT ![rec] = "finished"]
    PROVE  /\ fate' = fate => finished' = finished
           /\ fate' # fate => finished' = finished \cup {rec}
           /\ \A r \in Record : r # rec => fate'[r] = fate[r]
BY DEF finished

LEMMA StepKeepsCopy == CopyInv /\ [QueueNext]_qvars => CopyInv'
<1> SUFFICES ASSUME CopyInv, [QueueNext]_qvars PROVE CopyInv'
  OBVIOUS
<1>0. /\ KeepInv /\ HeadInv
      /\ fate \in [Record -> {"volatile", "buffered", "finished", "pushedOut"}]
      /\ file \in Seq(Record) /\ qOffset \in Nat /\ taken \in 0..MaxTaken /\ next \in {"idle", "flush"}
      /\ pending = Rest(file, qOffset) /\ pending' = Rest(file', qOffset')
      /\ pc \in BoardPc /\ damaged \in BOOLEAN
  BY CopyFacts
<1>k. KeepInv'
  BY <1>0, StepKeepsHead, StepKeepsBuffered
<1>c. /\ pc = "remove" => /\ recordsOf(tmp) \subseteq recordsOf(pending)
                          /\ ~damaged => recordsOf(pending) \subseteq recordsOf(tmp)
      /\ pc = "removeDone" => pending = <<>>
      /\ \A rec \in Record : rec > taken => fate[rec] # "finished"
      /\ pc = "enqueue" => fate[taken] # "finished"
  BY DEF CopyInv
(* No reading is taken or finished, and no compaction begins.               *)
<1>s. ASSUME UNCHANGED <<taken, fate>>, pc' \notin {"remove", "removeDone", "enqueue"}
      PROVE  CopyInv'
  BY <1>c, <1>k, <1>s DEF CopyInv
<1>1. CASE loop \/ flushEnds \/ noReading \/ dequeueAdvance \/ renameTmp \/ Restart
  BY <1>s, <1>1 DEF loop, flushEnds, noReading, dequeueAdvance, renameTmp, Restart, flashVars,
                    boardVars, deliveryVars
<1>2. CASE resetOffset \/ removeFile
  BY <1>s, <1>0, <1>2 DEF resetOffset, removeFile, boardVars, deliveryVars
<1>3. CASE compactQueueIfNeeded
  <2>1. /\ UNCHANGED <<taken, fate, file, qOffset>>
        /\ pc' = IF allDone THEN "removeDone" ELSE IF mostlyDone THEN "copy" ELSE next
    BY <1>3 DEF compactQueueIfNeeded, boardVars, flashVars, deliveryVars
  <2>2. allDone => pending' = <<>>
    <3> SUFFICES ASSUME allDone PROVE Rest(file, qOffset) = <<>>
      BY <1>0, <2>1
    <3>1. qOffset >= Len(file) /\ Len(file) \in Nat
      BY <1>0 DEF allDone, hasDead
    <3>2. Rest(file, qOffset) \in Seq(Record) /\ Len(Rest(file, qOffset)) = 0
      BY <1>0, <3>1, RestShape
    <3> QED BY <3>2, EmptySeq
  <2>3. pc' \notin {"remove", "enqueue"} /\ (pc' = "removeDone" => pending' = <<>>)
    BY <1>0, <2>1, <2>2
  <2> QED
    BY <1>c, <1>k, <2>1, <2>3 DEF CopyInv
<1>4. CASE flushQueue
  <2>1. pending # <<>>
    BY <1>4 DEF flushQueue
  <2>2. Head(pending) = pending[1] /\ pending[1] \in Record /\ pending[1] <= taken
    BY <2>1, CopyFacts
  <2>3. /\ fate' = fate \/ fate' = [fate EXCEPT ![pending[1]] = "finished"]
        /\ pc' \in {"advance", "read"} /\ taken' = taken
    BY <1>0, <1>4, <2>2, DeliveryFinishes DEF flushQueue, boardVars
  <2>4. \A rec \in Record : rec > taken => rec # pending[1]
    BY <1>0, <2>2 DEF Record
  <2>5. \A rec \in Record : rec > taken' => fate'[rec] # "finished"
    BY <1>0, <1>c, <2>3, <2>4
  <2> QED
    BY <1>k, <2>3, <2>5 DEF CopyInv
<1>5. CASE postTelemetry
  <2>1. /\ taken < MaxTaken /\ taken' = taken + 1
        /\ deliverRecord(taken + 1, ~synced, "idle", "enqueue")
    BY <1>5 DEF postTelemetry
  <2>2. taken + 1 \in Record /\ taken + 1 > taken
    BY <1>0, <2>1, BoardAssumption DEF Record
  <2>3. \/ fate' = [fate EXCEPT ![taken + 1] = "finished"] /\ pc' = "idle"
        \/ fate' = fate /\ pc' = "enqueue"
    BY <1>0, <2>1, <2>2, DeliveryFinishes
  <2>4. \A rec \in Record : rec > taken + 1 => rec > taken /\ rec # taken + 1
    BY <1>0 DEF Record
  <2>5. \A rec \in Record : rec > taken' => fate'[rec] # "finished"
    BY <1>0, <1>c, <2>1, <2>3, <2>4
  <2>6. pc' = "enqueue" => fate'[taken'] # "finished"
    BY <1>c, <2>1, <2>2, <2>3
  <2> QED
    BY <1>k, <2>3, <2>5, <2>6 DEF CopyInv
<1>6. CASE dropOldest
  <2>1. /\ UNCHANGED <<taken, pc>> /\ pc = "enqueue"
        /\ fate' \in {fate, [fate EXCEPT ![Head(pending)] = "pushedOut"]}
    BY <1>6 DEF dropOldest, boardVars
  <2>2. \A rec \in Record : fate'[rec] = "finished" => fate[rec] = "finished"
    BY <1>0, <2>1
  <2>3. taken \in Record
    BY <2>1, CopyFacts
  <2> QED
    BY <1>c, <1>k, <2>1, <2>2, <2>3 DEF CopyInv
<1>7. CASE enqueueRecord
  <2>1. /\ pc' = "compact" /\ taken' = taken
        /\ fate' \in {fate, [fate EXCEPT ![taken] = "buffered"]}
    BY <1>7 DEF enqueueRecord, boardVars
  <2>2. \A rec \in Record : fate'[rec] = "finished" => fate[rec] = "finished"
    BY <1>0, <2>1
  <2> QED
    BY <1>c, <1>k, <2>1, <2>2 DEF CopyInv
<1>8. CASE copyToTmp
  <2>1. /\ tmp' = copied /\ UNCHANGED <<taken, fate, file, qOffset>> /\ pc' = "remove"
        /\ damaged' = (damaged \/ Len(copied) < Len(pending))
    BY <1>8 DEF copyToTmp, deliveryVars
  <2>2. pending' = pending
    BY <1>0, <2>1
  <2>3. /\ Len(copied) \in Nat /\ Len(pending) \in Nat /\ Len(copied) <= Len(pending)
        /\ \A i \in 1..Len(copied) : i \in 1..Len(pending) /\ copied[i] = pending[i]
    BY CopyFacts, CopiedShape, PendingShape
  <2>4. recordsOf(copied) \subseteq recordsOf(pending)
    BY <2>3 DEF recordsOf
  <2>5. ~damaged' => Len(copied) = Len(pending)
    <3>1. ~damaged' => ~(Len(copied) < Len(pending))
      BY <2>1, Zenon
    <3> QED
      BY <2>3, <3>1
  <2>6. ~damaged' => recordsOf(pending) \subseteq recordsOf(copied)
    BY <2>3, <2>5 DEF recordsOf
  <2>7. /\ recordsOf(tmp)' \subseteq recordsOf(pending)'
        /\ ~damaged' => recordsOf(pending)' \subseteq recordsOf(tmp)'
    BY <2>1, <2>2, <2>4, <2>6 DEF recordsOf
  <2> QED
    BY <1>c, <1>k, <2>1, <2>7 DEF CopyInv
<1>9. CASE NtpSync \/ LinkChanges \/ UNCHANGED qvars
  <2>1. UNCHANGED <<taken, fate, file, tmp, qOffset, damaged, pc>>
    BY <1>9 DEF NtpSync, LinkChanges, flashVars, boardVars, deliveryVars, qvars
  <2>2. recordsOf(tmp)' = recordsOf(tmp) /\ pending' = pending /\ recordsOf(pending)' = recordsOf(pending)
    BY <1>0, <2>1 DEF recordsOf
  <2> QED
    BY <1>c, <1>k, <2>1, <2>2 DEF CopyInv
<1> QED
  BY <1>1, <1>2, <1>3, <1>4, <1>5, <1>6, <1>7, <1>8, <1>9
  DEF QueueNext, boardStep, compactionStep

(* A step StoreAndForward allows, or a stutter.                              *)
PromiseStep == Buffer!BufferNext \/ UNCHANGED Buffer!buffervars

LEMMA NothingChanges ==
    ASSUME UNCHANGED <<taken, unfinished, finished, damaged>> PROVE PromiseStep
BY DEF PromiseStep, Buffer!buffervars

(* Anything may be lost when a compaction is interrupted or does not fit.    *)
LEMMA SomeAreLost ==
    ASSUME UNCHANGED <<taken, fate>>, damaged' = TRUE,
           recordsOf(onFlash)' \subseteq recordsOf(onFlash)
    PROVE  PromiseStep
<1>1. finished' = finished
  BY DEF finished
<1>2. unfinished' \subseteq unfinished
  BY <1>1 DEF unfinished
<1>3. Buffer!Break
  BY <1>1, <1>2 DEF Buffer!Break
<1> QED
  BY <1>3 DEF PromiseStep, Buffer!BufferNext

(* The same records are elsewhere on the flash. *)
LEMMA FlashIsMoved ==
    ASSUME UNCHANGED <<taken, fate, damaged>>, recordsOf(onFlash)' = recordsOf(onFlash)
    PROVE  PromiseStep
<1>1. finished' = finished
  BY DEF finished
<1>2. unfinished' = unfinished
  BY <1>1 DEF unfinished
<1> QED
  BY <1>1, <1>2, NothingChanges

(* The head of the queue, if it is not finished, is the oldest that waits.  *)
LEMMA HeadIsOldest ==
    ASSUME CopyInv, onFlash = pending, pending # <<>>, fate[pending[1]] # "finished"
    PROVE  Buffer!Oldest(pending[1]) /\ unfinished = recordsOf(pending)
<1>1. /\ 1 \in 1..Len(pending) /\ pending[1] \in Record /\ Clean(pending) /\ OrderInv
      /\ \A i \in 1..Len(pending) : pending[i] \in Record
  BY CopyFacts
<1>2. Len(pending) \in Nat /\ \A i, j \in 1..Len(pending) : i < j => pending[i] < pending[j]
  BY <1>1, PendingOrdered, PendingShape DEF Ordered
<1>3. ASSUME NEW i \in 1..Len(pending)
      PROVE  fate[pending[i]] # "finished" /\ pending[1] <= pending[i]
  <2>1. CASE i = 1
    BY <1>1, <2>1 DEF Record
  <2>2. CASE i # 1
    <3>1. i \in 2..Len(pending) /\ 1 < i
      BY <1>2, <2>2
    <3>2. pending[1] < pending[i] /\ fate[pending[i]] # "finished"
      BY <1>1, <1>2, <3>1 DEF Clean
    <3>3. pending[1] \in Int /\ pending[i] \in Int
      BY <1>1 DEF Record
    <3> QED
      BY <3>2, <3>3
  <2> QED
    BY <2>1, <2>2
<1>4. unfinished = recordsOf(pending)
  BY <1>3 DEF unfinished, finished, recordsOf
<1>5. pending[1] \in unfinished /\ \A other \in unfinished : pending[1] <= other
  BY <1>1, <1>3, <1>4 DEF recordsOf
<1> QED
  BY <1>4, <1>5 DEF Buffer!Oldest

LEMMA FlushKeepsPromise == ASSUME CopyInv, flushQueue PROVE PromiseStep
<1>1. pending # <<>> /\ pc = "flush" /\ UNCHANGED <<taken, damaged, file, qOffset>>
  BY DEF flushQueue, boardVars, flashVars
<1>2. /\ Head(pending) = pending[1] /\ pending[1] \in Record
      /\ fate \in [Record -> {"volatile", "buffered", "finished", "pushedOut"}]
      /\ pending = Rest(file, qOffset) /\ pending' = Rest(file', qOffset')
  BY <1>1, CopyFacts
<1>3. /\ fate' = fate \/ fate' = [fate EXCEPT ![pending[1]] = "finished"]
      /\ pc' \in {"advance", "read"}
  BY <1>2, DeliveryFinishes DEF flushQueue
<1>4. onFlash = pending /\ onFlash' = pending /\ recordsOf(onFlash)' = recordsOf(onFlash)
  BY <1>1, <1>2, <1>3 DEF onFlash, recordsOf
<1>5. CASE fate' = fate
  BY <1>1, <1>4, <1>5, FlashIsMoved
<1>6. CASE fate[pending[1]] = "finished"
  <2>1. fate' = fate
    BY <1>2, <1>3, <1>6
  <2> QED
    BY <1>1, <1>4, <2>1, FlashIsMoved
<1>7. CASE fate' # fate /\ fate[pending[1]] # "finished"
  <2>1. Buffer!Oldest(pending[1]) /\ unfinished = recordsOf(pending)
    BY <1>1, <1>4, <1>7, HeadIsOldest
  <2>2. finished' = finished \cup {pending[1]}
    BY <1>2, <1>3, <1>7, FinishedBy
  <2>3. unfinished' = unfinished \ {pending[1]}
    BY <1>4, <2>2 DEF unfinished
  <2>4. Buffer!Accept(pending[1])
    BY <1>1, <2>1, <2>2, <2>3 DEF Buffer!Accept
  <2> QED
    BY <1>2, <2>4 DEF PromiseStep, Buffer!BufferNext
<1> QED
  BY <1>5, <1>6, <1>7

LEMMA ReadingKeepsPromise == ASSUME CopyInv, postTelemetry PROVE PromiseStep
<1>1. /\ taken < MaxTaken /\ taken' = taken + 1 /\ UNCHANGED <<damaged, file, qOffset>>
      /\ pc = "read" /\ deliverRecord(taken + 1, ~synced, "idle", "enqueue")
  BY DEF postTelemetry, flashVars
<1>2. /\ fate \in [Record -> {"volatile", "buffered", "finished", "pushedOut"}]
      /\ pending = Rest(file, qOffset) /\ pending' = Rest(file', qOffset')
      /\ \A i \in 1..Len(pending) : pending[i] \in Record /\ pending[i] <= taken
      /\ taken \in 0..MaxTaken
  BY CopyFacts
<1>3. taken + 1 \in Record
  BY <1>1, <1>2, BoardAssumption DEF Record
<1>4. /\ fate' = fate \/ fate' = [fate EXCEPT ![taken + 1] = "finished"]
      /\ pc' \in {"idle", "enqueue"}
  BY <1>1, <1>2, <1>3, DeliveryFinishes
<1>5. onFlash = pending /\ onFlash' = pending
  BY <1>1, <1>2, <1>4 DEF onFlash
<1>6. finished' = finished \/ finished' = finished \cup {taken + 1}
  BY <1>2, <1>3, <1>4, FinishedBy
<1>7. taken + 1 \notin recordsOf(pending)
  BY <1>2 DEF recordsOf, Record
<1>8. unfinished' = unfinished
  BY <1>5, <1>6, <1>7 DEF unfinished, recordsOf
<1>9. Buffer!Take
  BY <1>1, <1>3, <1>6, <1>8 DEF Buffer!Take
<1> QED
  BY <1>9 DEF PromiseStep, Buffer!BufferNext

LEMMA DropKeepsPromise == ASSUME CopyInv, dropOldest PROVE PromiseStep
<1>1. /\ qOffset' = qOffset + 1 /\ UNCHANGED <<taken, damaged, file, pc>> /\ pc = "enqueue"
      /\ fate' = IF fate[Head(pending)] = "finished" THEN fate
                 ELSE [fate EXCEPT ![Head(pending)] = "pushedOut"]
      /\ Len(pending) + 1 > MaxQueue
  BY DEF dropOldest, boardVars
<1>2. /\ fate \in [Record -> {"volatile", "buffered", "finished", "pushedOut"}]
      /\ pending = Rest(file, qOffset) /\ pending' = Rest(file', qOffset')
      /\ \A i, j \in 1..Len(pending) : pending[i] = pending[j] => i = j
      /\ file \in Seq(Record) /\ qOffset \in Nat /\ OrderInv
  BY CopyFacts
<1>3. pending \in Seq(Record) /\ Len(pending) \in Nat
  BY <1>2, PendingShape
<1>4. pending # <<>>
  <2>1. Len(pending) # 0
    BY <1>1, <1>3, BoardAssumption
  <2> QED
    BY <1>3, <2>1
<1>5. Head(pending) = pending[1] /\ pending[1] \in Record
  BY <1>4, CopyFacts
<1>6. onFlash = pending /\ onFlash' = Rest(file, qOffset + 1)
  BY <1>1, <1>2 DEF onFlash
<1>7. recordsOf(onFlash)' = recordsOf(pending) \ {pending[1]}
  <2>1. recordsOf(Rest(file, qOffset + 1)) = recordsOf(Rest(file, qOffset)) \ {Rest(file, qOffset)[1]}
    BY <1>2, <1>4, RecordsOfTail
  <2>2. recordsOf(onFlash)' = recordsOf(Rest(file, qOffset + 1))
    BY <1>6 DEF recordsOf
  <2> QED
    BY <1>2, <2>1, <2>2
<1>8. finished' = finished
  BY <1>1, <1>2, <1>5 DEF finished
<1>9. unfinished' = unfinished \ {pending[1]}
  BY <1>6, <1>7, <1>8 DEF unfinished
<1>10. CASE fate[pending[1]] = "finished"
  <2>1. pending[1] \in finished
    BY <1>5, <1>10 DEF finished
  <2>2. unfinished' = unfinished
    BY <1>9, <2>1 DEF unfinished
  <2> QED
    BY <1>1, <1>8, <2>2, NothingChanges
<1>11. CASE fate[pending[1]] # "finished"
  <2>1. Buffer!Oldest(pending[1]) /\ unfinished = recordsOf(pending)
    BY <1>4, <1>6, <1>11, HeadIsOldest
  <2>2. Cardinality(unfinished) = Len(pending)
    BY <1>2, <1>3, <2>1, HowManyWait
  <2>3. Buffer!Cardinality(unfinished) >= MaxQueue
    BY <1>1, <1>3, <2>2, BufferCounts, BoardAssumption
  <2>4. Buffer!PushOut(pending[1])
    BY <1>1, <1>8, <1>9, <2>1, <2>3 DEF Buffer!PushOut
  <2> QED
    BY <1>5, <2>4 DEF PromiseStep, Buffer!BufferNext
<1> QED
  BY <1>10, <1>11

LEMMA EnqueueKeepsPromise == ASSUME CopyInv, enqueueRecord PROVE PromiseStep
<1>1. /\ pc = "enqueue" /\ pc' = "compact" /\ UNCHANGED <<taken, damaged, qOffset>>
      /\ \/ file' = Append(file, taken) /\ fate' = [fate EXCEPT ![taken] = "buffered"]
         \/ UNCHANGED <<file, fate>>
  BY DEF enqueueRecord, boardVars
<1>2. /\ fate \in [Record -> {"volatile", "buffered", "finished", "pushedOut"}]
      /\ pending = Rest(file, qOffset) /\ pending' = Rest(file', qOffset')
      /\ file \in Seq(Record) /\ qOffset \in Nat
      /\ taken \in Record /\ \A i \in 1..Len(pending) : pending[i] < taken
  BY <1>1, CopyFacts
<1>3. onFlash = pending /\ onFlash' = pending'
  BY <1>1 DEF onFlash
<1>4. CASE UNCHANGED <<file, fate>>
  <2>1. recordsOf(onFlash)' = recordsOf(onFlash)
    BY <1>1, <1>2, <1>3, <1>4 DEF recordsOf
  <2> QED
    BY <1>1, <1>4, <2>1, FlashIsMoved
<1>5. CASE file' = Append(file, taken) /\ fate' = [fate EXCEPT ![taken] = "buffered"]
  <2>1. fate[taken] # "finished"
    BY <1>1 DEF CopyInv
  <2>2. finished' = finished
    BY <1>2, <1>5, <2>1 DEF finished
  <2>3. recordsOf(onFlash)' = recordsOf(Rest(Append(file, taken), qOffset))
    BY <1>1, <1>2, <1>3, <1>5 DEF recordsOf
  <2>4. \/ recordsOf(onFlash)' = recordsOf(onFlash) \cup {taken}
        \/ recordsOf(onFlash)' = {} /\ recordsOf(onFlash) = {}
    BY <1>2, <1>3, <2>3, RecordsOfAppend
  <2>5. taken \notin finished
    BY <2>1 DEF finished
  <2>6. CASE recordsOf(onFlash)' = recordsOf(onFlash) \cup {taken}
    <3>1. unfinished' = unfinished \cup {taken}
      BY <2>2, <2>5, <2>6 DEF unfinished
    <3>2. \A rec \in unfinished : rec < taken
      BY <1>2, <1>3 DEF unfinished, recordsOf
    <3>3. Buffer!Keep
      BY <1>1, <2>2, <2>5, <3>1, <3>2 DEF Buffer!Keep
    <3> QED
      BY <3>3 DEF PromiseStep, Buffer!BufferNext
  <2>7. CASE recordsOf(onFlash)' = {} /\ recordsOf(onFlash) = {}
    <3>1. unfinished' = unfinished
      BY <2>2, <2>7 DEF unfinished
    <3> QED
      BY <1>1, <2>2, <3>1, NothingChanges
  <2> QED
    BY <2>4, <2>6, <2>7
<1> QED
  BY <1>1, <1>4, <1>5

LEMMA AdvanceKeepsPromise == ASSUME CopyInv, dequeueAdvance PROVE PromiseStep
<1>1. /\ pc = "advance" /\ pc' = "compact" /\ qOffset' = qOffset + 1
      /\ UNCHANGED <<taken, damaged, file, fate>>
  BY DEF dequeueAdvance, boardVars, deliveryVars
<1>2. /\ pending = Rest(file, qOffset) /\ pending' = Rest(file', qOffset')
      /\ file \in Seq(Record) /\ qOffset \in Nat
      /\ pending # <<>> /\ fate[pending[1]] = "finished" /\ pending[1] \in Record
      /\ \A i, j \in 1..Len(pending) : pending[i] = pending[j] => i = j
  BY <1>1, CopyFacts
<1>3. onFlash = pending /\ onFlash' = Rest(file, qOffset + 1)
  BY <1>1, <1>2 DEF onFlash
<1>4. recordsOf(Rest(file, qOffset + 1)) = recordsOf(Rest(file, qOffset)) \ {Rest(file, qOffset)[1]}
  BY <1>2, RecordsOfTail
<1>5. recordsOf(onFlash)' = recordsOf(Rest(file, qOffset + 1))
  BY <1>3 DEF recordsOf
<1>6. finished' = finished /\ pending[1] \in finished
  BY <1>1, <1>2 DEF finished
<1>7. unfinished' = unfinished
  BY <1>2, <1>3, <1>4, <1>5, <1>6 DEF unfinished
<1> QED
  BY <1>1, <1>6, <1>7, NothingChanges

LEMMA CompactionKeepsPromise == ASSUME CopyInv, compactionStep PROVE PromiseStep
<1>1. /\ pending = Rest(file, qOffset) /\ pending' = Rest(file', qOffset')
      /\ file \in Seq(Record) /\ tmp \in Seq(Record) /\ qOffset \in Nat
      /\ next \in {"idle", "flush"} /\ damaged \in BOOLEAN
  BY CopyFacts
<1>2. CASE compactQueueIfNeeded
  <2>1. /\ UNCHANGED <<taken, fate, damaged, file, qOffset>> /\ pc = "compact"
        /\ pc' \in {"removeDone", "copy", next}
    BY <1>2 DEF compactQueueIfNeeded, boardVars, flashVars, deliveryVars
  <2>2. onFlash = pending /\ onFlash' = pending
    BY <1>1, <2>1 DEF onFlash
  <2>3. recordsOf(onFlash)' = recordsOf(onFlash)
    BY <2>2 DEF recordsOf
  <2> QED
    BY <2>1, <2>3, FlashIsMoved
<1>3. CASE copyToTmp
  <2>1. /\ UNCHANGED <<taken, fate, file, qOffset>> /\ pc = "copy" /\ pc' = "remove"
        /\ damaged' = (damaged \/ Len(copied) < Len(pending))
    BY <1>3 DEF copyToTmp, deliveryVars
  <2>2. onFlash = pending /\ onFlash' = pending
    BY <1>1, <2>1 DEF onFlash
  <2>3. recordsOf(onFlash)' = recordsOf(onFlash)
    BY <2>2 DEF recordsOf
  <2>4. damaged' = damaged \/ damaged' = TRUE
    BY <1>1, <2>1, Zenon
  <2> QED
    BY <2>1, <2>3, <2>4, FlashIsMoved, SomeAreLost
<1>4. CASE removeFile /\ pc = "remove"
  <2>1. UNCHANGED <<taken, fate, damaged, tmp>> /\ pc' = "rename"
    BY <1>4 DEF removeFile, boardVars, deliveryVars
  <2>2. onFlash = pending /\ recordsOf(onFlash)' = recordsOf(tmp)
    BY <1>4, <2>1 DEF onFlash, recordsOf
  <2>3. /\ recordsOf(tmp) \subseteq recordsOf(pending)
        /\ ~damaged => recordsOf(pending) \subseteq recordsOf(tmp)
    BY <1>4 DEF CopyInv
  <2>4. CASE damaged = TRUE
    BY <2>1, <2>2, <2>3, <2>4, SomeAreLost
  <2>5. CASE damaged = FALSE
    <3>1. recordsOf(onFlash)' = recordsOf(onFlash)
      BY <2>2, <2>3, <2>5
    <3> QED
      BY <2>1, <3>1, FlashIsMoved
  <2> QED
    BY <1>1, <2>4, <2>5
<1>5. CASE removeFile /\ pc = "removeDone"
  <2>1. UNCHANGED <<taken, fate, damaged>> /\ pc' = "resetOffset" /\ file' = <<>>
    BY <1>5 DEF removeFile, boardVars, deliveryVars
  <2>2. onFlash = <<>> /\ onFlash' = <<>>
    BY <1>5, <2>1 DEF onFlash, CopyInv
  <2>3. recordsOf(onFlash)' = recordsOf(onFlash)
    BY <2>2 DEF recordsOf
  <2> QED
    BY <2>1, <2>3, FlashIsMoved
<1>6. CASE renameTmp
  <2>1. UNCHANGED <<taken, fate, damaged>> /\ pc = "rename" /\ pc' = "resetOffset" /\ file' = tmp
    BY <1>6 DEF renameTmp, boardVars, deliveryVars
  <2>2. onFlash = tmp /\ onFlash' = tmp
    BY <2>1 DEF onFlash
  <2>3. recordsOf(onFlash)' = recordsOf(onFlash)
    BY <2>2 DEF recordsOf
  <2> QED
    BY <2>1, <2>3, FlashIsMoved
<1>7. CASE resetOffset
  <2>1. /\ UNCHANGED <<taken, fate, damaged, file>> /\ pc = "resetOffset" /\ pc' \in {"idle", "flush"}
        /\ qOffset' = 0
    BY <1>1, <1>7 DEF resetOffset, boardVars, deliveryVars
  <2>2. onFlash = file /\ onFlash' = Rest(file, 0)
    BY <1>1, <2>1 DEF onFlash
  <2>3. recordsOf(onFlash)' = recordsOf(Rest(file, 0))
    BY <2>2 DEF recordsOf
  <2>4. recordsOf(onFlash)' = recordsOf(onFlash)
    BY <1>1, <2>2, <2>3, RecordsOfRest
  <2> QED
    BY <2>1, <2>4, FlashIsMoved
<1> QED
  BY <1>2, <1>3, <1>4, <1>5, <1>6, <1>7 DEF compactionStep, removeFile

LEMMA RestartKeepsPromise == ASSUME CopyInv, Restart PROVE PromiseStep
<1>1. /\ UNCHANGED <<taken, fate, file, qOffset>> /\ pc' = "idle"
      /\ damaged' = (damaged \/ inCompaction)
  BY DEF Restart, flashVars, deliveryVars
<1>2. /\ pending = Rest(file, qOffset) /\ pending' = Rest(file', qOffset')
      /\ file \in Seq(Record) /\ qOffset \in Nat /\ damaged \in BOOLEAN
      /\ pc = "rename" => file = <<>>
  BY CopyFacts
<1>3. onFlash' = pending /\ recordsOf(onFlash)' = recordsOf(pending)
  BY <1>1, <1>2 DEF onFlash, recordsOf
<1>4. CASE pc \notin {"rename", "resetOffset"}
  <2>1. recordsOf(onFlash)' = recordsOf(onFlash)
    BY <1>3, <1>4 DEF onFlash
  <2>2. damaged' = damaged \/ damaged' = TRUE
    BY <1>1, <1>2, Zenon
  <2> QED
    BY <1>1, <2>1, <2>2, FlashIsMoved, SomeAreLost
<1>5. CASE pc \in {"rename", "resetOffset"}
  <2>1. recordsOf(pending) \subseteq recordsOf(file)
    BY <1>2, RecordsOfRest
  <2>2. recordsOf(<<>>) = {}
    BY DEF recordsOf
  <2>3. recordsOf(onFlash)' \subseteq recordsOf(onFlash)
    BY <1>2, <1>3, <1>5, <2>1, <2>2 DEF onFlash
  <2>4. damaged' = TRUE
    <3>1. inCompaction
      BY <1>5 DEF inCompaction
    <3> QED
      BY <1>1, <3>1, Zenon
  <2> QED
    BY <1>1, <2>3, <2>4, SomeAreLost
<1> QED
  BY <1>4, <1>5

LEMMA OthersKeepPromise ==
    ASSUME CopyInv, loop \/ flushEnds \/ noReading \/ NtpSync \/ LinkChanges \/ UNCHANGED qvars
    PROVE  PromiseStep
<1>1. UNCHANGED <<taken, fate, damaged, file, tmp, qOffset>>
  BY DEF loop, flushEnds, noReading, NtpSync, LinkChanges, flashVars, boardVars, deliveryVars, qvars
<1>2. pc' = pc \/ {pc, pc'} \cap {"rename", "resetOffset"} = {}
  <2>1. CASE loop \/ flushEnds \/ noReading
    BY <2>1 DEF loop, flushEnds, noReading
  <2>2. CASE NtpSync \/ LinkChanges \/ UNCHANGED qvars
    <3>1. pc' = pc
      BY <2>2 DEF NtpSync, LinkChanges, qvars
    <3> QED
      BY <3>1
  <2> QED
    BY <2>1, <2>2
<1>3. pending' = pending
  BY <1>1, CopyFacts
<1>4. recordsOf(onFlash)' = recordsOf(onFlash)
  BY <1>1, <1>2, <1>3 DEF onFlash, recordsOf
<1> QED
  BY <1>1, <1>4, FlashIsMoved

(* The board keeps what StoreAndForward promises: every step of the loop,    *)
(* every flash operation and every restart is one of its steps or a stutter *)
(* (flushQueue, enqueueRecord, dropOldest, compactQueueIfNeeded and setup of*)
(* hardware.ino).                                                           *)
THEOREM BufferIsKeptProven == QueueSpec => BufferIsKept
<1>1. QueueInit => CopyInv /\ Buffer!NothingWaits
  <2> SUFFICES ASSUME QueueInit PROVE CopyInv /\ Buffer!NothingWaits
    OBVIOUS
  <2>1. KeepInv
    BY KeepInitially
  <2>2. /\ pc = "idle" /\ taken = 0 /\ damaged = FALSE /\ file = <<>> /\ qOffset = 0
        /\ fate = [r \in Record |-> "volatile"]
    BY DEF QueueInit
  <2>3. onFlash = <<>>
    BY <2>2, EmptyPending, PendingIsRest DEF onFlash
  <2>4. finished = {} /\ unfinished = {}
    BY <2>2, <2>3 DEF finished, unfinished, recordsOf
  <2> QED
    BY <2>1, <2>2, <2>4 DEF CopyInv, Buffer!NothingWaits
<1>2. CopyInv /\ [QueueNext]_qvars => CopyInv'
  BY StepKeepsCopy
<1>3. CopyInv /\ [QueueNext]_qvars => [Buffer!BufferNext]_(Buffer!buffervars)
  <2> SUFFICES ASSUME CopyInv, [QueueNext]_qvars PROVE PromiseStep
    BY DEF PromiseStep
  <2> QED
    BY FlushKeepsPromise, ReadingKeepsPromise, DropKeepsPromise, EnqueueKeepsPromise,
       AdvanceKeepsPromise, CompactionKeepsPromise, RestartKeepsPromise, OthersKeepPromise
    DEF QueueNext, boardStep
<1> QED
  BY <1>1, <1>2, <1>3, PTL DEF QueueSpec, BufferIsKept, Buffer!BufferSpec

-----------------------------------------------------------------------------
(* The relay *)

(* The cycles are the attempts that were not the pause, and every silent    *)
(* cycle since the board started is an attempt or comes after the pause.    *)
RelayInv ==
    /\ {failures, relayAttempts, cyclesOfBoot} \subseteq Nat
    /\ relayAttempts <= PauseAfter + 1
    /\ cyclesOfBoot = Least(relayAttempts, PauseAfter)
    /\ relayAttempts = Least(failures, PauseAfter + 1)

(* Between two starts of the board an outage gets as many relay cycles as   *)
(* it has silent cycles, up to MAX_RELAY_CYCLES_BEFORE_PAUSING.             *)
THEOREM CyclesOfBootProven == RelaySpec => []CyclesOfBootCapped
<1> USE RelayAssumption DEF Least
<1>1. RelayInit => RelayInv
  BY DEF RelayInit, RelayInv
<1>2. ASSUME RelayInv, [RelayNext]_rvars PROVE RelayInv'
  <2>1. CASE BothSilent
    BY <1>2, <2>1 DEF BothSilent, selfHeal, RelayInv
  <2>2. CASE Recovered \/ RestartBoard
    BY <1>2, <2>2 DEF Recovered, RestartBoard, RelayInv
  <2>3. CASE UNCHANGED rvars
    BY <1>2, <2>3 DEF rvars, RelayInv
  <2> QED
    BY <1>2, <2>1, <2>2, <2>3 DEF RelayNext
<1>3. RelayInv => CyclesOfBootCapped
  BY DEF RelayInv, CyclesOfBootCapped
<1> QED
  BY <1>1, <1>2, <1>3, PTL DEF RelaySpec

-----------------------------------------------------------------------------
(* The notification rows *)

(* The receiver has a notification from the answered post on, and not       *)
(* before it.                                                              *)
EventInv(e) ==
    /\ received[e] \in 0..1
    /\ task[e] \in {"none", "storing", "posting"} => received[e] = 0
    /\ task[e] = "none" <=> channel[e] = "none"
    /\ task[e] \in {"storing", "posting"} => (webhook <=> channel[e] = "webhook")
    /\ received[e] = 1 => channel[e] = "webhook"
    /\ task[e] = "markSent" => received[e] = 1
    /\ row[e] = "sent" => received[e] = 1
    /\ task[e] \notin {"done", "ended"} => attempts[e] = 0

OutboxInv == OutboxTypeOK /\ \A e \in Event : EventInv(e)

LEMMA StepKeepsOutbox == OutboxInv /\ [OutboxNext]_nvars => OutboxInv'
<1> SUFFICES ASSUME OutboxInv, [OutboxNext]_nvars PROVE OutboxInv'
  OBVIOUS
<1> USE DEF OutboxInv, EventInv, OutboxTypeOK, At
<1>1. ASSUME NEW e \in Event, Receive(e) \/ requestStep(e) PROVE OutboxInv'
  BY <1>1 DEF Receive, requestStep, emit, Respond
<1>2. ASSUME NEW e \in Event, storeNotification(e) PROVE OutboxInv'
  BY <1>2 DEF storeNotification, ProcessEnds
<1>3. ASSUME NEW e \in Event, deliverNotification(e) PROVE OutboxInv'
  <2>1. OutboxTypeOK'
    BY <1>3 DEF deliverNotification
  <2>2. EventInv(e)'
    BY <1>3 DEF deliverNotification
  <2>3. ASSUME NEW x \in Event \ {e} PROVE EventInv(x)'
    BY <1>3, <2>3 DEF deliverNotification
  <2> QED
    BY <2>1, <2>2, <2>3
<1>4. ASSUME NEW e \in Event, NEW status \in {"sent", "failed"}, Mark(e, status),
             task[e] \in {"markSent", "markFailed"}, status = "sent" => received[e] = 1
      PROVE  OutboxInv'
  <2>1. OutboxTypeOK'
    BY <1>4 DEF Mark
  <2>2. EventInv(e)'
    BY <1>4 DEF Mark
  <2>3. ASSUME NEW x \in Event \ {e} PROVE EventInv(x)'
    BY <1>4, <2>3 DEF Mark
  <2> QED
    BY <2>1, <2>2, <2>3
<1>5. ASSUME NEW e \in Event, markSent(e) PROVE OutboxInv'
  <2>1. CASE Mark(e, "sent")
    BY <1>4, <1>5, <2>1 DEF markSent
  <2>2. CASE ~Mark(e, "sent")
    BY <1>5, <2>2 DEF markSent
  <2> QED
    BY <2>1, <2>2
<1>6. ASSUME NEW e \in Event, markFailed(e) PROVE OutboxInv'
  <2>1. CASE Mark(e, "failed")
    BY <1>4, <1>6, <2>1 DEF markFailed
  <2>2. CASE ~Mark(e, "failed")
    BY <1>6, <2>2 DEF markFailed, ProcessEnds
  <2> QED
    BY <2>1, <2>2
<1>7. CASE RestartOutbox
  BY <1>7 DEF RestartOutbox, ProcessEnds
<1>8. CASE UNCHANGED nvars
  BY <1>8 DEF nvars
<1> QED
  BY <1>1, <1>2, <1>3, <1>5, <1>6, <1>7, <1>8 DEF OutboxNext, taskStep

(* A receiver sees a notification once at most, and a row that says sent    *)
(* has been received, whatever answers, updates and processes are lost.     *)
THEOREM ReceivedOnceProven == OutboxSpec => []ReceivedOnceAtMost
<1>1. OutboxInit => OutboxInv
  BY DEF OutboxInit, OutboxInv, EventInv, OutboxTypeOK
<1>2. OutboxInv /\ [OutboxNext]_nvars => OutboxInv'
  BY StepKeepsOutbox
<1>3. OutboxInv => ReceivedOnceAtMost
  BY DEF OutboxInv, EventInv, OutboxTypeOK, ReceivedOnceAtMost
<1> QED
  BY <1>1, <1>2, <1>3, PTL DEF OutboxSpec
-----------------------------------------------------------------------------
(* The zone on the page *)

Published == observed \ unpublished

(* The last status on its way, if there is one, is the newest that was      *)
(* published; with none on its way the overlay is, or is empty and the      *)
(* query's answer knows all that was published.                             *)
OnlyRefreshes == \A i \in 1..Len(wire) : wire[i] = Refresh
Knows(r) == \E S \in SUBSET observed : Published \subseteq S /\ r \in latest(S)

LastIsNewest ==
    \A i \in 1..Len(wire) :
       wire[i] # Refresh /\ (\A j \in 1..Len(wire) : i < j => wire[j] = Refresh)
          => wire[i] \in latest(Published)

UnbrokenInv ==
    /\ LastIsNewest
    /\ OnlyRefreshes /\ overlay # NoReading => overlay \in latest(Published)
    /\ OnlyRefreshes /\ overlay = NoReading =>
          /\ fetch = "idle" /\ ~failed /\ cache # NoData => Knows(cache)
          /\ fetch = "read" => Knows(answer)

(* A page whose query is neither in flight nor in error has data. *)
Loaded == tab = "open" /\ fetch = "idle" /\ ~failed => cache # NoData

ViewTypes ==
    /\ observed \subseteq Reading /\ unpublished \subseteq observed
    /\ wire \in Seq(Reading \cup {Refresh})
    /\ tab \in {"closed", "open"} /\ link \in {"down", "up"} /\ fetch \in {"idle", "asked", "read"}
    /\ fetches \in Nat /\ missed \in BOOLEAN /\ disordered \in BOOLEAN
    /\ tab = "open" => fetches > 0
    /\ fetch # "idle" => fetches > 0
    /\ link = "up" => tab = "open"
    /\ link = "down" => wire = <<>>
    /\ fetches = 0 => overlay = NoReading
    /\ overlay \in Reading \cup {NoReading} /\ answer \in Reading \cup {NoReading}
    /\ failed \in BOOLEAN
    /\ Loaded

Unbroken == fetches > 0 /\ ~missed /\ ~disordered
ViewInv == ViewTypes /\ (Unbroken => UnbrokenInv)

LEMMA LatestIs ==
    ASSUME NEW S \in SUBSET Reading, NEW r \in S, \A s \in S : ObservedAt[s] <= ObservedAt[r]
    PROVE  r \in latest(S)
BY DEF latest

LEMMA LatestAre == ASSUME NEW S \in SUBSET Reading PROVE latest(S) \subseteq Reading \cup {NoReading}
BY DEF latest

(* What asking the query changes. *)
LEMMA Asking ==
    ASSUME ViewTypes, invalidateZones \/ Fetch
    PROVE  /\ UNCHANGED <<cache, answer, rest>>
           /\ \/ fetch' = "asked" /\ fetches' = fetches + 1 /\ failed' = (failed /\ cache # NoData)
              \/ UNCHANGED <<fetch, fetches, failed>>
           /\ failed' \in BOOLEAN
           /\ Fetch => fetch' # "idle"
BY DEF ViewTypes, invalidateZones, Fetch, Ask, queryvars

LEMMA StepKeepsViewTypes == ViewTypes /\ [ViewNext]_lvars => ViewTypes'
<1> SUFFICES ASSUME ViewTypes, [ViewNext]_lvars PROVE ViewTypes'
  OBVIOUS
<1> USE DEF ViewTypes, Loaded
<1>1. ASSUME NEW r \in Reading, Store(r) PROVE ViewTypes'
  BY <1>1 DEF Store, tabVars, queryvars
<1>2. ASSUME NEW r \in Reading, emitStatus(r) PROVE ViewTypes'
  BY <1>2 DEF emitStatus, queryvars
<1>3. CASE emitCommitted
  BY <1>3 DEF emitCommitted, apivars, queryvars
<1>4. CASE OpenPage \/ FocusWindow
  <2>1. /\ UNCHANGED <<observed, unpublished, link, wire, overlay, missed, disordered>>
        /\ tab' = "open" /\ Fetch
    BY <1>4 DEF OpenPage, FocusWindow, apivars
  <2>2. /\ UNCHANGED <<cache, answer>> /\ failed' \in BOOLEAN /\ fetch' # "idle"
        /\ \/ fetch' = "asked" /\ fetches' = fetches + 1
           \/ UNCHANGED <<fetch, fetches>>
    BY <2>1, Asking
  <2> QED
    BY <2>1, <2>2
<1>5. CASE ConnectSocket
  BY <1>5 DEF ConnectSocket, apivars, queryvars
<1>6. CASE ConnectError
  <2>1. /\ UNCHANGED <<observed, unpublished, tab, link, wire, overlay, missed, disordered>>
        /\ tab = "open" /\ invalidateZones
    BY <1>6 DEF ConnectError, apivars
  <2>2. /\ UNCHANGED <<cache, answer>> /\ failed' \in BOOLEAN
        /\ \/ fetch' = "asked" /\ fetches' = fetches + 1
           \/ UNCHANGED <<fetch, fetches, failed>>
    BY <2>1, Asking
  <2> QED
    BY <2>1, <2>2
<1>7. CASE Disconnect \/ ClosePage
  <2>1. /\ link = "up" \/ tab = "open"
        /\ link' = "down" /\ wire' = <<>> /\ UNCHANGED <<observed, unpublished, overlay, disordered>>
        /\ missed' \in BOOLEAN /\ tab' \in {"closed", tab}
        /\ UNCHANGED queryvars \/ invalidateZones
    BY <1>7 DEF Disconnect, ClosePage, Dropped, apivars
  <2>2. <<>> \in Seq(Reading \cup {Refresh})
    BY EmptySeq
  <2>3. /\ UNCHANGED <<cache, answer>> /\ failed' \in BOOLEAN
        /\ \/ fetch' = "asked" /\ fetches' = fetches + 1
           \/ UNCHANGED <<fetch, fetches, failed>>
    BY <2>1, Asking DEF queryvars
  <2> QED
    BY <2>1, <2>2, <2>3
<1>8. CASE onStatusChanged
  <2>1. /\ wire # <<>> /\ wire' = Tail(wire) /\ overlay' = Head(wire) /\ Head(wire) # Refresh
        /\ UNCHANGED <<observed, unpublished, tab, link, fetch, answer, fetches, missed, disordered>>
        /\ UNCHANGED <<cache, failed>> \/ (cache' = Head(wire) /\ failed' \in BOOLEAN)
    BY <1>8 DEF onStatusChanged, apivars
  <2>2. /\ wire' \in Seq(Reading \cup {Refresh}) /\ link # "down" /\ fetches # 0
        /\ Head(wire) \in Reading
    BY <2>1
  <2>3. Head(wire) # NoData
    BY <2>2, ViewAssumption
  <2> QED
    BY <2>1, <2>2, <2>3
<1>9. CASE onCommitted
  <2>1. wire # <<>> /\ wire' = Tail(wire) /\ invalidateZones
        /\ UNCHANGED <<observed, unpublished, tab, link, overlay, missed, disordered>>
    BY <1>9 DEF onCommitted, apivars
  <2>2. wire' \in Seq(Reading \cup {Refresh}) /\ link # "down" /\ fetches # 0
    BY <2>1
  <2>3. /\ UNCHANGED <<cache, answer>> /\ failed' \in BOOLEAN
        /\ \/ fetch' = "asked" /\ fetches' = fetches + 1
           \/ UNCHANGED <<fetch, fetches, failed>>
    BY <2>1, Asking
  <2> QED
    BY <2>1, <2>2, <2>3
<1>10. CASE Collect \/ ZonesFail
  BY <1>10 DEF Collect, ZonesFail, apivars
<1>11. CASE listZones
  <2>1. answer' \in Reading \cup {NoReading}
    BY <1>11, LatestAre DEF listZones
  <2> QED
    BY <1>11, <2>1 DEF listZones, apivars
<1>12. CASE ApplyAnswer
  BY <1>12, ViewAssumption DEF ApplyAnswer, apivars
<1>13. CASE UNCHANGED lvars
  BY <1>13 DEF lvars, tabVars, apivars, queryvars
<1> QED
  BY <1>1, <1>2, <1>3, <1>4, <1>5, <1>6, <1>7, <1>8, <1>9, <1>10, <1>11, <1>12, <1>13 DEF ViewNext

(* The messages stay, or lose what is no status, and a query reads or       *)
(* brings what is newest.                                                   *)
LEMMA QueryKeepsView ==
    ASSUME ViewTypes, UnbrokenInv, UNCHANGED overlay,
           wire' = wire \/ (OnlyRefreshes /\ Len(wire') = 0),
           Published' = Published, observed \subseteq observed',
           fetch' = "idle" => \/ fetch = "idle" /\ UNCHANGED <<cache, failed>>
                              \/ fetch = "read" /\ cache' = answer
                              \/ failed' \/ cache' = NoData,
           fetch' = "read" => \/ fetch = "read" /\ answer' = answer
                              \/ observed' = observed /\ answer' \in latest(observed)
    PROVE  UnbrokenInv'
<1>1. LastIsNewest' /\ (OnlyRefreshes' => OnlyRefreshes)
  <2>1. CASE wire' = wire
    BY <2>1 DEF UnbrokenInv, LastIsNewest, OnlyRefreshes
  <2>2. CASE OnlyRefreshes /\ Len(wire') = 0
    <3>1. ~(\E i \in 1..Len(wire') : TRUE)
      BY <2>2
    <3> QED
      BY <2>2, <3>1 DEF LastIsNewest
  <2> QED
    BY <2>1, <2>2
<1>2. \A r : Knows(r) => \E S \in SUBSET observed' : Published' \subseteq S /\ r \in latest(S)
  BY DEF Knows
<1>3. fetch' = "idle" /\ ~failed' /\ cache' # NoData /\ OnlyRefreshes /\ overlay = NoReading
      => Knows(cache)'
  BY <1>2 DEF UnbrokenInv, Knows
<1>4. fetch' = "read" /\ OnlyRefreshes /\ overlay = NoReading => Knows(answer)'
  <2>1. CASE fetch' = "read" /\ fetch = "read" /\ answer' = answer
    BY <1>2, <2>1 DEF UnbrokenInv, Knows
  <2>2. CASE observed' = observed /\ answer' \in latest(observed)
    BY <2>2 DEF Knows, Published
  <2> QED
    BY <2>1, <2>2
<1> QED
  BY <1>1, <1>3, <1>4 DEF UnbrokenInv

LEMMA StepKeepsView == ViewInv /\ [ViewNext]_lvars => ViewInv'
<1> SUFFICES ASSUME ViewTypes, Unbroken => UnbrokenInv, [ViewNext]_lvars, Unbroken'
             PROVE  UnbrokenInv'
  BY StepKeepsViewTypes DEF ViewInv
<1>0. /\ ViewTypes' /\ observed \subseteq Reading /\ unpublished \subseteq observed
      /\ wire \in Seq(Reading \cup {Refresh}) /\ Len(wire) \in Nat
      /\ \A i \in 1..Len(wire) : wire[i] \in Reading \cup {Refresh}
      /\ fetches > 0 /\ ~missed /\ ~disordered => UnbrokenInv
      /\ fetches \in Nat
      /\ fetch \in {"idle", "asked", "read"}
      /\ fetches' > 0 /\ ~missed' /\ ~disordered'
  BY StepKeepsViewTypes DEF ViewTypes, Unbroken
<1>1. ASSUME NEW r \in Reading, Store(r) PROVE UnbrokenInv'
  <2>1. /\ r \notin observed /\ observed' = observed \cup {r} /\ unpublished' = unpublished \cup {r}
        /\ UNCHANGED <<wire, overlay, fetch, failed, cache, answer, fetches, missed, disordered>>
    BY <1>1 DEF Store, tabVars, queryvars
  <2>2. Published' = Published
    BY <1>0, <2>1 DEF Published
  <2> QED
    BY <1>0, <2>1, <2>2, QueryKeepsView
<1>2. ASSUME NEW r \in Reading, emitStatus(r) PROVE UnbrokenInv'
  <2>1. /\ r \in unpublished /\ unpublished' = unpublished \ {r}
        /\ UNCHANGED <<observed, overlay, cache, failed, fetch, answer, fetches, link>>
        /\ missed' = (missed \/ (link = "down" /\ fetches > 0))
        /\ disordered' = (disordered
                            \/ \E s \in observed \ unpublished : ObservedAt[s] > ObservedAt[r])
        /\ wire' = IF link = "up" THEN Append(wire, r) ELSE wire
    BY <1>2 DEF emitStatus, queryvars
  <2>2. link = "up" /\ wire' = Append(wire, r)
    BY <1>0, <2>1 DEF ViewTypes
  <2>3. /\ Len(wire') = Len(wire) + 1 /\ wire'[Len(wire')] = r
    BY <1>0, <2>2
  <2>4. Published' \in SUBSET Reading /\ r \in Published'
    BY <1>0, <2>1 DEF Published
  <2>5. \A s \in Published' : ObservedAt[s] <= ObservedAt[r]
    <3>1. \A s \in Published' : s = r \/ s \in observed \ unpublished
      BY <2>1 DEF Published
    <3>2. \A s \in Reading : ObservedAt[s] \in Int
      BY ViewAssumption
    <3>3. \A s \in observed \ unpublished : s \in Reading /\ ~(ObservedAt[s] > ObservedAt[r])
      BY <1>0, <2>1
    <3> QED
      BY <3>1, <3>2, <3>3
  <2>6. r \in latest(Published')
    BY <2>4, <2>5, LatestIs
  <2>7. Len(wire') \in 1..Len(wire') /\ r # Refresh
    BY <1>0, <2>3, ViewAssumption
  <2>8. ~OnlyRefreshes'
    BY <2>3, <2>7 DEF OnlyRefreshes
  <2>9. LastIsNewest'
    <3> SUFFICES ASSUME NEW i \in 1..Len(wire'), wire'[i] # Refresh,
                        \A j \in 1..Len(wire') : i < j => wire'[j] = Refresh
                 PROVE  wire'[i] \in latest(Published')
      BY DEF LastIsNewest
    <3>1. i = Len(wire')
      BY <1>0, <2>3, <2>7
    <3> QED
      BY <2>3, <2>6, <3>1
  <2> QED
    BY <2>8, <2>9 DEF UnbrokenInv
<1>3. CASE emitCommitted
  <2>1. /\ wire' = Append(wire, Refresh)
        /\ UNCHANGED <<observed, unpublished, overlay, cache, failed, fetch, answer, fetches, missed, disordered>>
    BY <1>3 DEF emitCommitted, apivars, queryvars
  <2>2. /\ Len(wire') = Len(wire) + 1 /\ wire'[Len(wire')] = Refresh
        /\ \A i \in 1..Len(wire) : i \in 1..Len(wire') /\ wire'[i] = wire[i]
        /\ \A i \in 1..Len(wire') : i = Len(wire') \/ i \in 1..Len(wire)
    BY <1>0, <2>1
  <2>3. Published' = Published /\ UnbrokenInv
    BY <1>0, <2>1 DEF Published
  <2>4. LastIsNewest'
    <3> SUFFICES ASSUME NEW i \in 1..Len(wire'), wire'[i] # Refresh,
                        \A j \in 1..Len(wire') : i < j => wire'[j] = Refresh
                 PROVE  wire'[i] \in latest(Published')
      BY DEF LastIsNewest
    <3>1. i \in 1..Len(wire) /\ wire[i] # Refresh
      BY <2>2
    <3>2. \A j \in 1..Len(wire) : i < j => wire[j] = Refresh
      BY <2>2
    <3> QED
      BY <2>2, <2>3, <3>1, <3>2 DEF UnbrokenInv, LastIsNewest
  <2>5. OnlyRefreshes' => OnlyRefreshes
    BY <2>2 DEF OnlyRefreshes
  <2>6. Knows(cache)' = Knows(cache) /\ Knows(answer)' = Knows(answer)
    BY <2>1, <2>3 DEF Knows
  <2> QED
    BY <2>1, <2>3, <2>4, <2>5, <2>6 DEF UnbrokenInv
<1>4. CASE OpenPage \/ FocusWindow \/ ConnectSocket \/ ConnectError
  <2>1. /\ UNCHANGED <<observed, unpublished, wire, overlay, missed, disordered>>
        /\ Fetch \/ (tab = "open" /\ (UNCHANGED queryvars \/ invalidateZones))
    BY <1>0, <1>4 DEF OpenPage, FocusWindow, ConnectSocket, ConnectError, apivars
  <2>2. Published' = Published
    BY <2>1 DEF Published
  <2>3. /\ UNCHANGED <<cache, answer>>
        /\ fetch' = "asked" \/ UNCHANGED <<fetch, failed>>
        /\ fetches = 0 => fetch' = "asked"
    BY <1>0, <2>1, Asking DEF queryvars, ViewTypes
  <2>4. CASE fetches > 0
    BY <1>0, <2>1, <2>2, <2>3, <2>4, QueryKeepsView
  <2>5. CASE fetches = 0
    <3>1. wire' = <<>> /\ overlay' = NoReading /\ fetch' = "asked"
      BY <2>1, <2>3, <2>5 DEF ViewTypes
    <3>2. LastIsNewest'
      BY <3>1 DEF LastIsNewest
    <3> QED
      BY <3>1, <3>2 DEF UnbrokenInv
  <2> QED
    BY <1>0, <2>4, <2>5
<1>5. CASE Disconnect \/ ClosePage
  <2>1. /\ UNCHANGED <<observed, unpublished, overlay, disordered>> /\ Dropped /\ wire' = <<>>
        /\ UNCHANGED queryvars \/ invalidateZones
        /\ fetches > 0
    BY <1>0, <1>5 DEF Disconnect, ClosePage, apivars, ViewTypes
  <2>2. Published' = Published /\ Len(wire') = 0
    BY <2>1 DEF Published
  <2>3. UnbrokenInv /\ OnlyRefreshes
    BY <1>0, <2>1 DEF Dropped, OnlyRefreshes
  <2>4. UNCHANGED <<cache, answer>> /\ (fetch' = "asked" \/ UNCHANGED <<fetch, failed>>)
    BY <1>0, <2>1, Asking DEF queryvars
  <2> QED
    BY <2>1, <2>2, <2>3, <2>4, QueryKeepsView
(* A message is handled. *)
<1>6. ASSUME wire # <<>>, wire' = Tail(wire)
      PROVE  /\ Len(wire') = Len(wire) - 1 /\ Head(wire) = wire[1] /\ 1 \in 1..Len(wire)
             /\ \A i \in 1..Len(wire') : i + 1 \in 1..Len(wire) /\ wire'[i] = wire[i + 1]
             /\ \A j \in 1..Len(wire) : j > 1 => j - 1 \in 1..Len(wire') /\ wire[j] = wire'[j - 1]
  <2>1. Len(wire) >= 1
    BY <1>0, <1>6
  <2>2. /\ Len(wire') = Len(wire) - 1 /\ Head(wire) = wire[1] 
        /\ \A i \in 1..Len(wire') : wire'[i] = wire[i + 1]
    BY <1>0, <1>6, <2>1
  <2>3. ASSUME NEW j \in 1..Len(wire), j > 1
        PROVE  j - 1 \in 1..Len(wire') /\ wire[j] = wire'[j - 1]
    <3>1. j - 1 \in 1..Len(wire') /\ (j - 1) + 1 = j
      BY <1>0, <2>2, <2>3
    <3>2. wire'[j - 1] = wire[(j - 1) + 1]
      BY <2>2, <3>1
    <3> QED
      BY <3>1, <3>2
  <2> QED
    BY <1>0, <2>1, <2>2, <2>3
<1>7. ASSUME wire # <<>>, wire' = Tail(wire), LastIsNewest, Published' = Published
      PROVE  LastIsNewest'
  <2> SUFFICES ASSUME NEW i \in 1..Len(wire'), wire'[i] # Refresh,
                      \A j \in 1..Len(wire') : i < j => wire'[j] = Refresh
               PROVE  wire'[i] \in latest(Published')
    BY DEF LastIsNewest
  <2>1. i + 1 \in 1..Len(wire) /\ wire[i + 1] = wire'[i]
    BY <1>6, <1>7
  <2>2. \A j \in 1..Len(wire) : i + 1 < j => wire[j] = Refresh
    <3> SUFFICES ASSUME NEW j \in 1..Len(wire), i + 1 < j PROVE wire[j] = Refresh
      OBVIOUS
    <3>1. j > 1 /\ i < j - 1
      BY <1>0
    <3>2. j - 1 \in 1..Len(wire') /\ wire[j] = wire'[j - 1]
      BY <1>6, <1>7, <3>1
    <3> QED
      BY <3>1, <3>2
  <2> QED
    BY <1>7, <2>1, <2>2 DEF LastIsNewest
<1>8. CASE onStatusChanged
  <2>1. /\ wire # <<>> /\ Head(wire) # Refresh /\ overlay' = Head(wire) /\ wire' = Tail(wire)
        /\ UNCHANGED <<observed, unpublished, fetches, missed, disordered>>
    BY <1>8 DEF onStatusChanged, apivars
  <2>2. Published' = Published /\ UnbrokenInv
    BY <1>0, <2>1 DEF Published
  <2>3. LastIsNewest'
    BY <1>7, <2>1, <2>2 DEF UnbrokenInv
  <2>4. wire[1] # Refresh /\ overlay' = wire[1] /\ overlay' # NoReading
    BY <1>0, <1>6, <2>1, ViewAssumption
  <2>5. ASSUME OnlyRefreshes' PROVE overlay' \in latest(Published')
    <3>1. \A j \in 1..Len(wire) : 1 < j => wire[j] = Refresh
      <4> SUFFICES ASSUME NEW j \in 1..Len(wire), 1 < j PROVE wire[j] = Refresh
        OBVIOUS
      <4>1. j - 1 \in 1..Len(wire') /\ wire[j] = wire'[j - 1]
        BY <1>6, <2>1
      <4> QED
        BY <2>5, <4>1 DEF OnlyRefreshes
    <3> QED
      BY <1>6, <2>1, <2>2, <2>4, <3>1 DEF UnbrokenInv, LastIsNewest
  <2> QED
    BY <2>3, <2>4, <2>5 DEF UnbrokenInv
<1>9. CASE onCommitted
  <2>0. /\ wire # <<>> /\ Head(wire) = Refresh /\ wire' = Tail(wire) /\ invalidateZones
        /\ UNCHANGED <<observed, unpublished, overlay, missed, disordered>>
    BY <1>9 DEF onCommitted, apivars
  <2>1. /\ wire # <<>> /\ Head(wire) = Refresh /\ wire' = Tail(wire)
        /\ fetch' = "asked" \/ UNCHANGED <<fetch, failed>>
        /\ UNCHANGED <<observed, unpublished, overlay, cache, answer, missed, disordered>>
        /\ fetches > 0
    BY <1>0, <2>0, Asking DEF ViewTypes
  <2>2. Published' = Published /\ UnbrokenInv
    BY <1>0, <2>1 DEF Published
  <2>3. LastIsNewest'
    BY <1>7, <2>1, <2>2 DEF UnbrokenInv
  <2>4. OnlyRefreshes' => OnlyRefreshes
    <3> SUFFICES ASSUME OnlyRefreshes', NEW j \in 1..Len(wire) PROVE wire[j] = Refresh
      BY DEF OnlyRefreshes
    <3>1. CASE j = 1
      BY <1>6, <2>1, <3>1
    <3>2. CASE j # 1
      <4>1. j > 1
        BY <1>0, <3>2
      <4>2. j - 1 \in 1..Len(wire') /\ wire[j] = wire'[j - 1]
        BY <1>6, <2>1, <4>1
      <4> QED
        BY <4>2 DEF OnlyRefreshes
    <3> QED
      BY <3>1, <3>2
  <2>5. Knows(cache)' = Knows(cache) /\ (fetch' = "read" => Knows(answer)' = Knows(answer))
    BY <2>1, <2>2 DEF Knows
  <2> QED
    BY <2>1, <2>2, <2>3, <2>4, <2>5 DEF UnbrokenInv
<1>10. CASE Collect \/ listZones \/ ApplyAnswer \/ ZonesFail \/ UNCHANGED lvars
  <2>1. /\ UNCHANGED <<observed, unpublished, wire, overlay, fetches, missed, disordered>>
        /\ \/ fetch' = "read" /\ answer' \in latest(observed)
           \/ fetch = "read" /\ fetch' = "idle" /\ cache' = answer
           \/ fetch' = "idle" /\ (failed' \/ cache' = NoData)
           \/ UNCHANGED <<fetch, cache, failed, answer>>
    BY <1>10 DEF Collect, listZones, ApplyAnswer, ZonesFail, lvars, tabVars, apivars, queryvars
  <2>2. Published' = Published
    BY <2>1 DEF Published
  <2> QED
    BY <1>0, <2>1, <2>2, QueryKeepsView
<1> QED
  BY <1>1, <1>2, <1>3, <1>4, <1>5, <1>8, <1>9, <1>10 DEF ViewNext

(* A tab that missed no status change, of a zone whose readings were        *)
(* emitted in the order they were observed, shows a newest status once      *)
(* nothing is under way, or says that it shows demo data: even when an      *)
(* answer the server read before a change arrives after it, and when the    *)
(* API fails and comes back (Dashboard.tsx and lib/realtime.ts).            *)
THEOREM UnbrokenViewIsCurrentProven == ViewSpec => []UnbrokenViewIsCurrent
<1>1. ViewInit => ViewInv
  <2> SUFFICES ASSUME ViewInit PROVE ViewTypes /\ ~Unbroken
    BY DEF ViewInv
  <2>1. /\ observed = {} /\ unpublished = {} /\ tab = "closed" /\ link = "down" /\ wire = <<>>
        /\ overlay = NoReading /\ answer = NoReading /\ failed = FALSE
        /\ fetch = "idle" /\ fetches = 0 /\ missed = FALSE /\ disordered = FALSE
    BY DEF ViewInit
  <2>2. wire \in Seq(Reading \cup {Refresh})
    BY <2>1, EmptySeq
  <2>3. ViewTypes
    BY <2>1, <2>2 DEF ViewTypes, Loaded
  <2> QED
    BY <2>1, <2>3 DEF Unbroken
<1>2. ViewInv /\ [ViewNext]_lvars => ViewInv'
  BY StepKeepsView
<1>3. ViewInv => UnbrokenViewIsCurrent
  <2> SUFFICES ASSUME ViewInv, Settled, ~missed, ~disordered, ~failed
               PROVE  ShowsNewest
    BY DEF UnbrokenViewIsCurrent, usingDemoFallback
  <2>1. /\ UnbrokenInv /\ fetch = "idle" /\ OnlyRefreshes /\ Published = observed
        /\ cache # NoData /\ overlay # NoData
    BY ViewAssumption DEF ViewInv, ViewTypes, Loaded, Unbroken, Settled, OnlyRefreshes, Published
  <2>2. shownReading # NoData /\ shownReading \in latest(observed)
    <3>1. CASE overlay # NoReading
      BY <2>1, <3>1 DEF UnbrokenInv, shownReading
    <3>2. CASE overlay = NoReading
      <4>1. PICK S \in SUBSET observed : Published \subseteq S /\ cache \in latest(S)
        BY <2>1, <3>2 DEF UnbrokenInv, Knows
      <4>2. S = observed
        BY <2>1, <4>1
      <4> QED
        BY <2>1, <3>2, <4>1, <4>2 DEF shownReading
    <3> QED
      BY <3>1, <3>2
  <2> QED
    BY <2>2 DEF ShowsNewest
<1> QED
  BY <1>1, <1>2, <1>3, PTL DEF ViewSpec

-----------------------------------------------------------------------------
(* The notification page *)

(* A row that leaves the list does not come back to it: it is older than   *)
(* the rows listNotifications returns, or it was queued and has settled.   *)
GoneForGood(i) ==
    \/ i <= Len(outbox) - ListLimit
    \/ deliveryFilter = "queued" /\ outbox[i].status # "queued"

WantedOrGone ==
    /\ wanted \subseteq 1..Len(outbox)
    /\ \A i \in wanted : i \in filteredNotifications \/ GoneForGood(i)

(* What was fetched is an earlier version of the row. *)
Fetched(old, new) ==
    /\ new.kind = old.kind /\ new.channel = old.channel
    /\ old.status # "queued" => new.status = old.status

ListIsOfBefore == \A i \in DOMAIN notifications : Fetched(notifications[i], outbox[i])

PagesTypes ==
    /\ outbox \in Seq(Notification)
    /\ notifications \in [DOMAIN notifications -> Notification]
    /\ DOMAIN notifications \subseteq 1..Len(outbox)
    /\ page \in Nat \ {0}
    /\ overtaken \in BOOLEAN

(* What the reviewer has not been shown is on the pages to come. *)
UnseenIsBehind ==
    ~overtaken => \A i \in (wanted \cap filteredNotifications) \ seen :
                     currentPage * PerPage < placeInList(i)

PagesInv == PagesTypes /\ ListIsOfBefore /\ WantedOrGone /\ UnseenIsBehind

LEMMA PagesCover ==
    ASSUME NEW n \in Nat, NEW p \in Nat \ {0}
    PROVE  /\ (n + p - 1) \div p \in Nat
           /\ n <= ((n + p - 1) \div p) * p
<1> DEFINE q == (n + p - 1) \div p
           m == q * p
<1>1. q \in Nat /\ n + p - 1 = p * q + ((n + p - 1) % p) /\ (n + p - 1) % p \in 0..(p - 1)
  OBVIOUS
<1>2. m \in Nat /\ m = p * q
  BY <1>1
<1> HIDE DEF m
<1>3. n <= m
  BY <1>1, <1>2
<1> QED
  BY <1>1, <1>3 DEF m

LEMMA PageTimesRows ==
    ASSUME NEW c \in Nat, NEW d \in Nat, c <= d, NEW p \in Nat
    PROVE  c * p \in Nat /\ d * p \in Nat /\ c * p <= d * p /\ (c - 1) * p = c * p - p
<1>1. PICK k \in Nat : d = c + k
  <2>1. d - c \in Nat /\ d = c + (d - c)
    OBVIOUS
  <2> QED BY <2>1
<1>2. k * p \in Nat /\ c * p \in Nat /\ (c + k) * p = c * p + k * p
  OBVIOUS
<1>3. (c - 1) * p = c * p - p
  OBVIOUS
<1> QED
  BY <1>1, <1>2, <1>3

(* The place of a row in a list, counted from the newest. *)
LEMMA PlaceBounds ==
    ASSUME NEW F, IsFiniteSet(F), F \subseteq Int, NEW i \in F
    PROVE  /\ Cardinality(F) \in Nat
           /\ Cardinality({j \in F : j >= i}) \in Nat
           /\ 1 <= Cardinality({j \in F : j >= i})
           /\ Cardinality({j \in F : j >= i}) <= Cardinality(F)
<1> DEFINE U == {j \in F : j >= i}
<1>1. U \subseteq F /\ i \in U
  OBVIOUS
<1> HIDE DEF U
<1>2. IsFiniteSet(U) /\ Cardinality(U) <= Cardinality(F)
  BY <1>1, FS_Subset
<1>3. Cardinality(U) \in Nat /\ Cardinality(F) \in Nat
  BY <1>2, FS_CardinalityType
<1>4. Cardinality(U) # 0
  BY <1>1, <1>2, FS_EmptySet
<1> QED
  BY <1>2, <1>3, <1>4 DEF U

(* A row moves up by no more places than rows leave the list. *)
LEMMA PlaceMoves ==
    ASSUME NEW F, IsFiniteSet(F), NEW G, IsFiniteSet(G), F \subseteq Int, G \subseteq Int,
           NEW i \in Int
    PROVE  Cardinality({j \in F : j >= i})
              <= Cardinality({j \in G : j >= i}) + Cardinality(F \ G)
<1> DEFINE U == {j \in F : j >= i}
           V == {j \in G : j >= i}
           W == F \ G
<1>1. U \subseteq V \cup W /\ V \subseteq G /\ W \subseteq F
  OBVIOUS
<1> HIDE DEF U, V, W
<1>2. IsFiniteSet(V) /\ IsFiniteSet(W)
  BY <1>1, FS_Subset
<1>3. /\ IsFiniteSet(V \cup W) /\ IsFiniteSet(V \cap W)
      /\ Cardinality(V \cup W) = Cardinality(V) + Cardinality(W) - Cardinality(V \cap W)
  BY <1>2, FS_Union, FS_Intersection
<1>4. Cardinality(U) <= Cardinality(V \cup W) /\ IsFiniteSet(U)
  BY <1>1, <1>3, FS_Subset
<1>5. /\ Cardinality(U) \in Nat /\ Cardinality(V) \in Nat /\ Cardinality(W) \in Nat
      /\ Cardinality(V \cap W) \in Nat
  BY <1>2, <1>3, <1>4, FS_CardinalityType
<1>6. Cardinality(U) <= Cardinality(V) + Cardinality(W)
  BY <1>3, <1>4, <1>5
<1> QED
  BY <1>6 DEF U, V, W

(* The page shown is one of the list's, and the last one reaches its end.  *)
PagesFit ==
    /\ IsFiniteSet(filteredNotifications) /\ filteredNotifications \subseteq Int
    /\ totalPages \in Nat \ {0} /\ page \in Nat \ {0}
    /\ currentPage \in Nat \ {0} /\ currentPage <= totalPages /\ currentPage <= page
    /\ currentPage # totalPages => currentPage = page
    /\ \A i \in filteredNotifications :
          /\ placeInList(i) \in Nat \ {0}
          /\ placeInList(i) <= totalPages * PerPage

LEMMA PagesAreFit == PagesTypes => PagesFit
<1> SUFFICES ASSUME PagesTypes PROVE PagesFit
  OBVIOUS
<1> DEFINE F == filteredNotifications
           n == Cardinality(F)
           q == (n + PerPage - 1) \div PerPage
<1>0. PerPage \in Nat \ {0}
  BY PagesAssumption
<1>1. F \subseteq 1..Len(outbox) /\ Len(outbox) \in Nat
  BY DEF PagesTypes, filteredNotifications
<1>2. totalPages = IF q = 0 THEN 1 ELSE q
  BY DEF totalPages
<1> HIDE DEF F
<1>3. IsFiniteSet(F) /\ F \subseteq Int
  <2>1. IsFiniteSet(1..Len(outbox)) /\ 1..Len(outbox) \subseteq Int
    BY <1>1, FS_Interval
  <2> HIDE DEF F
  <2> QED
    BY <1>1, <2>1, FS_Subset
<1>4. n \in Nat
  BY <1>3, FS_CardinalityType
<1> HIDE DEF n
<1>5. q \in Nat /\ n <= q * PerPage
  BY <1>0, <1>4, PagesCover
<1> HIDE DEF q
<1>6. totalPages \in Nat \ {0} /\ n <= totalPages * PerPage
  <2>1. CASE q = 0
    BY <1>0, <1>2, <1>4, <1>5, <2>1
  <2>2. CASE q # 0
    BY <1>2, <1>5, <2>2
  <2> QED BY <2>1, <2>2
<1>7. page \in Nat \ {0}
  BY DEF PagesTypes
<1>8. /\ currentPage \in Nat \ {0} /\ currentPage <= totalPages /\ currentPage <= page
      /\ currentPage # totalPages => currentPage = page
  BY <1>6, <1>7 DEF currentPage
<1>9. ASSUME NEW i \in F
      PROVE  placeInList(i) \in Nat \ {0} /\ placeInList(i) <= totalPages * PerPage
  <2>1. /\ placeInList(i) \in Nat /\ 1 <= placeInList(i) /\ placeInList(i) <= n
    BY <1>3, PlaceBounds DEF placeInList, F, n
  <2>2. totalPages * PerPage \in Nat
    BY <1>0, <1>6
  <2> QED
    BY <1>4, <1>6, <2>1, <2>2
<1> QED
  BY <1>3, <1>6, <1>7, <1>8, <1>9 DEF PagesFit, F

(* Of the rows not seen yet, none is on the pages up to the one shown next. *)
LEMMA RestIsBehind ==
    ASSUME NEW P \in Nat \ {0}, NEW c \in Nat \ {0}, NEW k \in Nat,
           (c - 1) * P < k, k \notin ((c - 1) * P + 1)..((c - 1) * P + P)
    PROVE  c * P < k
<1>1. (c - 1) * P = c * P - P /\ c * P \in Nat
  BY PageTimesRows
<1> DEFINE m == c * P
           l == (c - 1) * P
<1>2. m \in Nat /\ l = m - P /\ l < k /\ k \notin (l + 1)..(l + P)
  BY <1>1
<1> HIDE DEF m, l
<1>3. m < k
  BY <1>2
<1> QED
  BY <1>3 DEF m

(* The API's steps: the page keeps the list it has fetched. *)
LEMMA ApiKeepsPages ==
    ASSUME PagesInv,
           \/ \E new \in Arrivals : Arrive(new[1], new[2])
           \/ \E i \in DOMAIN outbox, status \in Outcomes : Settle(i, status)
    PROVE  PagesInv'
<1>1. UNCHANGED <<notifications, kindFilter, deliveryFilter, page, wanted, seen, overtaken>>
  BY DEF Arrive, Settle
<1>2. /\ filteredNotifications' = filteredNotifications
      /\ currentPage' = currentPage
      /\ \A i : placeInList(i)' = placeInList(i)
  BY <1>1 DEF filteredNotifications, currentPage, totalPages, placeInList
<1>3. UnseenIsBehind'
  BY <1>1, <1>2 DEF PagesInv, UnseenIsBehind
<1>4. /\ outbox' \in Seq(Notification) /\ Len(outbox') \in Nat /\ Len(outbox) \in Nat
      /\ Len(outbox) <= Len(outbox')
      /\ \A i \in 1..Len(outbox) : Fetched(outbox[i], outbox'[i])
  <2>1. CASE \E new \in Arrivals : Arrive(new[1], new[2])
    <3>1. PICK new \in Arrivals : Arrive(new[1], new[2])
      BY <2>1
    <3>2. new[1] \in NoticeKind /\ new[2] \in {"outbox", "webhook"}
      BY PagesAssumption
    <3> DEFINE fresh == [kind |-> new[1], channel |-> new[2], status |-> "queued"]
    <3>3. fresh \in Notification /\ outbox' = Append(outbox, fresh) /\ outbox \in Seq(Notification)
      BY <3>1, <3>2 DEF Arrive, PagesInv, PagesTypes, Notification
    <3> HIDE DEF fresh
    <3> QED
      BY <3>3 DEF Fetched
  <2>2. CASE \E i \in DOMAIN outbox, status \in Outcomes : Settle(i, status)
    <3>1. PICK i \in DOMAIN outbox, status \in Outcomes : Settle(i, status)
      BY <2>2
    <3>2. /\ outbox \in Seq(Notification) /\ outbox[i] \in Notification
          /\ outbox' = [outbox EXCEPT ![i].status = status] /\ outbox[i].status = "queued"
      BY <3>1 DEF Settle, PagesInv, PagesTypes
    <3>3. [outbox[i] EXCEPT !.status = status] \in Notification
      BY <3>1, <3>2 DEF Notification
    <3>4. outbox' \in Seq(Notification) /\ Len(outbox') = Len(outbox)
      BY <3>2, <3>3
    <3>5. \A j \in 1..Len(outbox) : Fetched(outbox[j], outbox'[j])
      BY <3>2 DEF Fetched, Notification
    <3> QED
      BY <3>4, <3>5
  <2> QED
    BY <2>1, <2>2
<1>5. PagesTypes'
  BY <1>1, <1>4 DEF PagesInv, PagesTypes
<1>6. ListIsOfBefore'
  BY <1>1, <1>4 DEF PagesInv, PagesTypes, ListIsOfBefore, Fetched
<1>7. WantedOrGone'
  <2>1. \A i \in wanted : GoneForGood(i) => GoneForGood(i)'
    <3>1. SUFFICES ASSUME NEW i \in wanted, GoneForGood(i) PROVE GoneForGood(i)'
      OBVIOUS
    <3>2. i \in 1..Len(outbox) /\ Fetched(outbox[i], outbox'[i])
      BY <1>4, <3>1 DEF PagesInv, WantedOrGone
    <3> QED
      BY <1>1, <1>4, <3>1, <3>2, PagesAssumption DEF GoneForGood, Fetched
  <2> QED
    BY <1>1, <1>2, <1>4, <2>1 DEF PagesInv, WantedOrGone
<1> QED
  BY <1>3, <1>5, <1>6, <1>7 DEF PagesInv

(* What a fetch brings: rows that went do not come back. *)
LEMMA RefetchKeepsGone ==
    ASSUME PagesInv, Refetch
    PROVE  /\ PagesTypes' /\ ListIsOfBefore' /\ WantedOrGone'
           /\ wanted \cap filteredNotifications' \subseteq filteredNotifications
<1>1. /\ outbox' = outbox /\ wanted' = wanted /\ page' = page
      /\ kindFilter' = kindFilter /\ deliveryFilter' = deliveryFilter
      /\ notifications' = listNotifications
  BY DEF Refetch
<1>2. overtaken' \in BOOLEAN
  BY DEF Refetch
<1> DEFINE New == {j \in DOMAIN outbox : j > Len(outbox) - ListLimit}
<1>3. /\ outbox \in Seq(Notification) /\ DOMAIN outbox = 1..Len(outbox)
      /\ DOMAIN notifications' = New
      /\ \A i \in New : notifications'[i] = outbox[i]
      /\ notifications' = [i \in New |-> outbox[i]]
  BY <1>1 DEF listNotifications, PagesInv, PagesTypes
<1>4. PagesTypes'
  BY <1>1, <1>2, <1>3 DEF PagesInv, PagesTypes
<1>5. ListIsOfBefore'
  BY <1>1, <1>3 DEF ListIsOfBefore, Fetched
<1>6. \A i : i \in filteredNotifications' <=>
               i \in New /\ matchesFilters(outbox[i], kindFilter, deliveryFilter)
  BY <1>1, <1>3 DEF filteredNotifications, matchesFilters
<1>7. ASSUME NEW i \in wanted
      PROVE  /\ i \in filteredNotifications' => i \in filteredNotifications
             /\ i \in filteredNotifications' \/ GoneForGood(i)
  <2>1. i \in 1..Len(outbox) /\ (i \in filteredNotifications \/ GoneForGood(i))
    BY DEF PagesInv, WantedOrGone
  <2>2. CASE GoneForGood(i)
    BY <1>3, <1>6, <2>1, <2>2, PagesAssumption DEF GoneForGood, matchesFilters
  <2>3. CASE i \in filteredNotifications
    <3>1. /\ i \in DOMAIN notifications
          /\ matchesFilters(notifications[i], kindFilter, deliveryFilter)
          /\ Fetched(notifications[i], outbox[i])
      BY <2>3 DEF filteredNotifications, PagesInv, ListIsOfBefore
    <3>2. matchesFilters(outbox[i], kindFilter, deliveryFilter)
          \/ (deliveryFilter = "queued" /\ outbox[i].status # "queued")
      BY <3>1 DEF matchesFilters, Fetched
    <3>3. i \in New \/ i <= Len(outbox) - ListLimit
      BY <1>3, <2>1, PagesAssumption
    <3> QED
      BY <1>6, <2>3, <3>2, <3>3 DEF GoneForGood
  <2> QED
    BY <2>1, <2>2, <2>3
<1>8. WantedOrGone'
  BY <1>1, <1>7 DEF PagesInv, WantedOrGone, GoneForGood
<1> QED
  BY <1>4, <1>5, <1>7, <1>8

LEMMA RefetchKeepsPages == ASSUME PagesInv, Refetch PROVE PagesInv'
<1>1. /\ PagesTypes' /\ ListIsOfBefore' /\ WantedOrGone'
      /\ wanted \cap filteredNotifications' \subseteq filteredNotifications
  BY RefetchKeepsGone
<1>2. PagesFit /\ PagesFit'
  <2>1. PagesTypes' => PagesFit'
    BY PagesAreFit, PTL
  <2> QED
    BY <1>1, <2>1, PagesAreFit DEF PagesInv
<1>3. /\ wanted' = wanted /\ page' = page /\ seen' = seen \cup visibleNotifications'
      /\ overtaken' = (\/ overtaken
                       \/ Cardinality(filteredNotifications \ filteredNotifications') > PerPage)
  BY DEF Refetch
<1>4. PerPage \in Nat \ {0}
  BY PagesAssumption
<1>5. ASSUME ~overtaken', NEW i \in (wanted' \cap filteredNotifications') \ seen'
      PROVE  currentPage' * PerPage < placeInList(i)'
  <2>1. /\ i \in filteredNotifications /\ i \in filteredNotifications' /\ i \notin seen
        /\ i \in wanted /\ ~overtaken /\ i \in Int /\ i \notin visibleNotifications'
    BY <1>1, <1>2, <1>3, <1>5 DEF PagesFit
  <2>2. currentPage * PerPage < placeInList(i)
    BY <2>1 DEF PagesInv, UnseenIsBehind
  <2>3. placeInList(i) \in Nat /\ placeInList(i)' \in Nat
    BY <1>2, <2>1 DEF PagesFit
  <2>4. currentPage = page
    <3>1. placeInList(i) <= totalPages * PerPage
      BY <1>2, <2>1 DEF PagesFit
    <3>2. CASE currentPage = totalPages
      <4> DEFINE m == totalPages * PerPage
      <4>1. m \in Nat /\ m < placeInList(i) /\ placeInList(i) <= m
        BY <1>2, <1>4, <2>2, <3>1, <3>2 DEF PagesFit
      <4> HIDE DEF m
      <4> QED
        BY <2>3, <4>1
    <3> QED
      BY <1>2, <3>2 DEF PagesFit
  <2>5. /\ Cardinality(filteredNotifications \ filteredNotifications') <= PerPage
        /\ Cardinality(filteredNotifications \ filteredNotifications') \in Nat
    <3>1. IsFiniteSet(filteredNotifications \ filteredNotifications')
      BY <1>2, FS_Subset DEF PagesFit
    <3>2. Cardinality(filteredNotifications \ filteredNotifications') \in Nat
      BY <3>1, FS_CardinalityType
    <3> QED
      BY <1>3, <1>4, <1>5, <3>2
  <2>6. placeInList(i) <= placeInList(i)' + PerPage
    <3>1. placeInList(i) <= placeInList(i)'
                            + Cardinality(filteredNotifications \ filteredNotifications')
      BY <1>2, <2>1, PlaceMoves DEF PagesFit, placeInList
    <3> QED
      BY <1>4, <2>3, <2>5, <3>1
  <2>7. /\ currentPage' \in Nat \ {0} /\ currentPage' <= currentPage
        /\ currentPage \in Nat \ {0}
    BY <1>2, <1>3, <2>4 DEF PagesFit
  <2>8. /\ currentPage' * PerPage \in Nat /\ currentPage * PerPage \in Nat
        /\ currentPage' * PerPage <= currentPage * PerPage
        /\ (currentPage' - 1) * PerPage = currentPage' * PerPage - PerPage
    BY <1>4, <2>7, PageTimesRows
  <2>9. (currentPage' - 1) * PerPage < placeInList(i)'
    <3> DEFINE a == currentPage' * PerPage
               b == currentPage * PerPage
               l == (currentPage' - 1) * PerPage
    <3>1. a \in Nat /\ b \in Nat /\ a <= b /\ l = a - PerPage /\ b < placeInList(i)
      BY <2>2, <2>8
    <3> HIDE DEF a, b, l
    <3>2. l < placeInList(i)'
      BY <1>4, <2>3, <2>6, <3>1
    <3> QED
      BY <3>2 DEF l
  <2>10. placeInList(i)' \notin ((currentPage' - 1) * PerPage + 1)
                                ..((currentPage' - 1) * PerPage + PerPage)
    BY <2>1 DEF visibleNotifications, pageStart
  <2> QED
    BY <1>4, <2>3, <2>7, <2>9, <2>10, RestIsBehind
<1> QED
  BY <1>1, <1>5 DEF PagesInv, UnseenIsBehind

LEMMA FiltersKeepPages ==
    ASSUME PagesInv, NEW kind, NEW delivery, SelectFilters(kind, delivery)
    PROVE  PagesInv'
<1>1. /\ UNCHANGED <<outbox, notifications>> /\ page' = 1 /\ overtaken' = FALSE
      /\ wanted' = filteredNotifications' /\ seen' = visibleNotifications'
  BY DEF SelectFilters
<1>2. PagesTypes'
  <2>1. overtaken' \in BOOLEAN
    BY <1>1
  <2>2. /\ outbox' = outbox /\ notifications' = notifications
        /\ DOMAIN notifications' = DOMAIN notifications
        /\ page' \in Nat \ {0}
    BY <1>1
  <2> QED
    BY <2>1, <2>2 DEF PagesInv, PagesTypes
<1>3. ListIsOfBefore'
  BY <1>1 DEF PagesInv, ListIsOfBefore
<1>4. WantedOrGone'
  BY <1>1 DEF PagesInv, PagesTypes, WantedOrGone, filteredNotifications
<1>5. PagesFit'
  <2>1. PagesTypes' => PagesFit'
    BY PagesAreFit, PTL
  <2> QED BY <1>2, <2>1
<1>6. PerPage \in Nat \ {0}
  BY PagesAssumption
<1>7. currentPage' = 1
  BY <1>1, <1>5 DEF PagesFit
<1>8. ASSUME NEW i \in filteredNotifications' \ visibleNotifications'
      PROVE  currentPage' * PerPage < placeInList(i)'
  <2>1. placeInList(i)' \in Nat \ {0}
    BY <1>5 DEF PagesFit
  <2>2. placeInList(i)' \notin ((currentPage' - 1) * PerPage + 1)
                               ..((currentPage' - 1) * PerPage + PerPage)
    BY DEF visibleNotifications, pageStart
  <2>3. (currentPage' - 1) * PerPage = 0
    BY <1>6, <1>7
  <2> QED
    BY <1>6, <1>7, <2>1, <2>2, <2>3
<1> QED
  BY <1>1, <1>2, <1>3, <1>4, <1>8 DEF PagesInv, UnseenIsBehind

(* Turning to the next page shows what follows; turning back shows nothing *)
(* that could have been missed.                                            *)
LEMMA TurnsKeepPages == ASSUME PagesInv, Previous \/ NextPage PROVE PagesInv'
<1>1. /\ UNCHANGED <<outbox, notifications, kindFilter, deliveryFilter, wanted, overtaken>>
      /\ seen' = seen \cup visibleNotifications'
      /\ \/ currentPage # 1 /\ page' = currentPage - 1
         \/ currentPage # totalPages /\ page' = currentPage + 1
  BY DEF Previous, NextPage, TurnTo
<1>2. /\ filteredNotifications' = filteredNotifications
      /\ totalPages' = totalPages
      /\ \A i : placeInList(i)' = placeInList(i)
  BY <1>1 DEF filteredNotifications, totalPages, placeInList
<1>3. PagesFit
  BY PagesAreFit DEF PagesInv
<1>4. page' \in Nat \ {0} /\ page' <= totalPages /\ page' <= currentPage + 1
  BY <1>1, <1>3 DEF PagesFit
<1>5. currentPage' = page'
  BY <1>2, <1>3, <1>4 DEF PagesFit, currentPage
<1>6. PagesTypes' /\ ListIsOfBefore'
  BY <1>1, <1>4 DEF PagesInv, PagesTypes, ListIsOfBefore
<1>7. WantedOrGone'
  BY <1>1, <1>2 DEF PagesInv, WantedOrGone, GoneForGood
<1>8. PerPage \in Nat \ {0}
  BY PagesAssumption
<1>9. ASSUME ~overtaken', NEW i \in (wanted' \cap filteredNotifications') \ seen'
      PROVE  page' * PerPage < placeInList(i)
  <2>1. /\ currentPage * PerPage < placeInList(i) /\ placeInList(i) \in Nat
        /\ i \notin visibleNotifications' /\ i \in filteredNotifications'
    BY <1>1, <1>2, <1>3, <1>9 DEF PagesInv, UnseenIsBehind, PagesFit
  <2>2. (page' - 1) * PerPage < placeInList(i)
    <3>0. currentPage \in Nat
      BY <1>3 DEF PagesFit
    <3>1. page' - 1 \in Nat /\ page' - 1 <= currentPage
      <4> DEFINE q == page'
                 d == currentPage
      <4>1. q \in Nat \ {0} /\ q <= d + 1 /\ d \in Nat
        BY <1>4, <3>0
      <4> HIDE DEF q, d
      <4>2. q - 1 \in Nat /\ q - 1 <= d
        BY <4>1
      <4> QED
        BY <4>2 DEF q, d
    <3> DEFINE a == (page' - 1) * PerPage
               b == currentPage * PerPage
    <3>2. a \in Nat /\ b \in Nat /\ a <= b /\ b < placeInList(i)
      BY <1>8, <2>1, <3>0, <3>1, PageTimesRows
    <3> HIDE DEF a, b
    <3>3. a < placeInList(i)
      BY <2>1, <3>2
    <3> QED
      BY <3>3 DEF a
  <2>3. placeInList(i) \notin ((page' - 1) * PerPage + 1)..((page' - 1) * PerPage + PerPage)
    BY <1>2, <1>5, <2>1 DEF visibleNotifications, pageStart
  <2> QED
    BY <1>4, <1>8, <2>1, <2>2, <2>3, RestIsBehind
<1>10. UnseenIsBehind'
  BY <1>2, <1>5, <1>9 DEF UnseenIsBehind
<1> QED
  BY <1>6, <1>7, <1>10 DEF PagesInv

(* A reviewer who pages to the end of a filtered list of any length misses *)
(* no row that matched and still does, whatever is stored, settles and is  *)
(* fetched meanwhile, unless a fetch takes more than a page of rows away   *)
(* (NotificationCenter.tsx).                                               *)
THEOREM PagingProven == PagesSpec => []PagingMissesNothing
<1>1. PagesInit => PagesInv
  <2> SUFFICES ASSUME PagesInit PROVE PagesInv
    OBVIOUS
  <2>1. /\ outbox = <<>> /\ notifications = <<>> /\ page = 1 /\ wanted = {}
        /\ overtaken = FALSE
    BY DEF PagesInit
  <2>2. DOMAIN notifications = {}
    BY <2>1
  <2>3. notifications \in [DOMAIN notifications -> Notification]
    BY <2>1, <2>2
  <2>4. page \in Nat \ {0}
    BY <2>1
  <2>5. overtaken \in BOOLEAN
    BY <2>1
  <2>6. outbox \in Seq(Notification)
    BY <2>1
  <2>7. PagesTypes
    BY <2>2, <2>3, <2>4, <2>5, <2>6 DEF PagesTypes
  <2> QED
    BY <2>1, <2>2, <2>7 DEF PagesInv, ListIsOfBefore, WantedOrGone, UnseenIsBehind
<1>2. PagesInv /\ [PagesNext]_pagevars => PagesInv'
  <2> SUFFICES ASSUME PagesInv, [PagesNext]_pagevars PROVE PagesInv'
    OBVIOUS
  <2>1. CASE UNCHANGED pagevars
    BY <2>1 DEF pagevars, PagesInv, PagesTypes, ListIsOfBefore, WantedOrGone, GoneForGood,
       UnseenIsBehind, filteredNotifications, currentPage, totalPages, placeInList
  <2> QED
    BY <2>1, ApiKeepsPages, RefetchKeepsPages, FiltersKeepPages, TurnsKeepPages DEF PagesNext
<1>3. PagesInv => PagingMissesNothing
  <2> SUFFICES ASSUME PagesInv, currentPage = totalPages, ~overtaken,
                      NEW i \in (wanted \cap filteredNotifications) \ seen
               PROVE  FALSE
    BY DEF PagingMissesNothing, AtTheEnd
  <2>1. PagesFit
    BY PagesAreFit DEF PagesInv
  <2>2. totalPages \in Nat /\ PerPage \in Nat
    BY <2>1, PagesAssumption DEF PagesFit
  <2> DEFINE m == totalPages * PerPage
  <2>3. m \in Nat
    BY <2>2
  <2>4. placeInList(i) \in Nat /\ placeInList(i) <= m
    BY <2>1 DEF PagesFit
  <2>5. m < placeInList(i)
    BY DEF PagesInv, UnseenIsBehind
  <2> HIDE DEF m
  <2> QED
    BY <2>3, <2>4, <2>5
<1> QED
  BY <1>1, <1>2, <1>3, PTL DEF PagesSpec

=============================================================================
