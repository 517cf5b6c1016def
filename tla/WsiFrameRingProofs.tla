------------------------- MODULE WsiFrameRingProofs -------------------------
(***************************************************************************)
(* The frame ring's safety for every number of slots and every bound of    *)
(* the sequence words: RingInv is inductive, and with it every step of the *)
(* ring is a step of FrameQueue.                                           *)
(***************************************************************************)
EXTENDS WsiFrameRing, SequenceTheorems, TLAPS

(***************************************************************************)
(* Facts about slot indices and about the queue's two operations.          *)
(***************************************************************************)

\* The ring's index arithmetic stays within the slots.
LEMMA SlotModulo == \A n \in Nat : n % SlotCount \in Slots
  BY SlotCountAssumption DEF Slots

\* What appending a slot to the queue does to its length and elements.
LEMMA AppendFacts ==
  ASSUME NEW q \in Seq(Slots), NEW s \in Slots
  PROVE  /\ Append(q, s) \in Seq(Slots)
         /\ Len(Append(q, s)) = Len(q) + 1
         /\ \A i \in 1 .. Len(q) : Append(q, s)[i] = q[i]
         /\ Append(q, s)[Len(q) + 1] = s
         /\ Append(q, s) # <<>>
         /\ Head(Append(q, s)) = Append(q, s)[1]
<1>1. Append(q, s) \in Seq(Slots) /\ Len(Append(q, s)) = Len(q) + 1
  OBVIOUS
<1>2. /\ Append(q, s)[Len(q) + 1] = s
      /\ \A i \in 1 .. Len(q) : Append(q, s)[i] = q[i]
  OBVIOUS
<1>3. Append(q, s) # <<>> /\ Head(Append(q, s)) = Append(q, s)[1]
  BY <1>1
<1> QED
  BY <1>1, <1>2, <1>3

\* What a non-empty queue's head and tail are.
LEMMA TailFacts ==
  ASSUME NEW q \in Seq(Slots), q # <<>>
  PROVE  /\ Len(q) \in Nat /\ Len(q) >= 1
         /\ Head(q) = q[1] /\ Head(q) \in Slots
         /\ Tail(q) \in Seq(Slots)
         /\ Len(Tail(q)) = Len(q) - 1
         /\ \A i \in 1 .. Len(q) - 1 : Tail(q)[i] = q[i + 1]
  BY HeadTailProperties, EmptySeq, LenProperties

(***************************************************************************)
(* What a scan of the consumer may conclude.                               *)
(***************************************************************************)

\* The oldest queued frame is the one the consumer waits for.
LEMMA HeadIsExpected ==
  ASSUME RingInv, queue # <<>>, transport # "cleared",
         cpc \notin {"rel_free", "rel_publish", "rel_wake"}
  PROVE  /\ Head(queue) \in Slots
         /\ slot_state[Head(queue)] = "PRESENTED"
         /\ slot_sequence[Head(queue)] = Expected
<1>1. queue \in Seq(Slots) /\ consumed \in Nat
  BY DEF RingInv, TypeOK, Sequence
<1>2. Len(queue) >= 1 /\ Len(queue) \in Nat
      /\ Head(queue) = queue[1] /\ Head(queue) \in Slots
  BY <1>1, TailFacts
<1>3. Freed = consumed
  BY DEF RingInv, ConsumerKnows, Freed
<1> QED
  BY <1>1, <1>2, <1>3 DEF RingInv, QueueInSlots, Expected

\* Conversely a slot that carries the expected number is the oldest frame.
LEMMA ExpectedIsHead ==
  ASSUME RingInv, transport # "cleared",
         cpc \notin {"rel_free", "rel_publish", "rel_wake"},
         NEW s \in Slots, slot_sequence[s] = Expected
  PROVE  queue # <<>> /\ s = Head(queue)
<1>1. queue \in Seq(Slots) /\ consumed \in Nat
  BY DEF RingInv, TypeOK, Sequence
<1>2. Freed = consumed
  BY DEF RingInv, ConsumerKnows, Freed
<1>3. InQueue(s)
  BY <1>1 DEF RingInv, QueueInSlots, Expected
<1>4. PICK i \in 1 .. Len(queue) : queue[i] = s
  BY <1>3 DEF InQueue
<1>5. i = 1
  BY <1>1, <1>2, <1>4 DEF RingInv, QueueInSlots, Expected
<1>6. queue # <<>>
  BY <1>1, <1>4
<1> QED
  BY <1>1, <1>4, <1>5, <1>6, TailFacts

(***************************************************************************)
(* The actions that change slot words or the queue, and those that scan.   *)
(***************************************************************************)

\* The acquire scan claims a slot that no frame occupies, or moves on.
LEMMA AcquireScanStep == ASSUME RingInv, AcquireScan PROVE RingInv'
<1> DEFINE c == (next_acquire + p_offset) % SlotCount
<1> USE SlotCountAssumption, MaxSequenceAssumption
    DEF RingInv, SlotStates, Sequence, ProducerLocations
<1>1. c \in Slots /\ (c + 1) % SlotCount \in Slots
  <2>1. next_acquire + p_offset \in Nat
    BY DEF TypeOK, Slots
  <2>2. c \in Slots
    BY <2>1, SlotModulo
  <2>3. c + 1 \in Nat
    BY <2>2 DEF Slots
  <2> QED
    BY <2>2, <2>3, SlotModulo
<1> HIDE DEF c
<1>2. CASE slot_state[c] = "AVAILABLE"
  <2>1. /\ slot_state' = [slot_state EXCEPT ![c] = "ACQUIRED"]
        /\ next_acquire' = (c + 1) % SlotCount
        /\ p_slot' = c /\ ppc' = "acq_submit" /\ ppc = "acq_scan"
        /\ UNCHANGED <<slot_sequence, producer_sequence, consumer_sequence,
                       producer_status, consumer_status, p_offset, p_observed,
                       p_wait, p_error, held, consumer, active, queue>>
    BY <1>2 DEF AcquireScan, c
  <2> USE DEF consumer
  <2>2. TypeOK'
    BY <1>1, <2>1 DEF TypeOK
  <2>3. QueueInSlots'
    BY <1>1, <1>2, <2>1, SMTT(30)
    DEF TypeOK, QueueInSlots, InQueue, Freed, Stamped
  <2>4. ImagesOwned' /\ ProducerKnows'
    BY <1>1, <1>2, <2>1 DEF TypeOK, ImagesOwned, ProducerKnows
  <2>5. ConsumerKnows' /\ NoProtocolError' /\ ConsumerNotStranded'
    BY <1>1, <1>2, <2>1
    DEF TypeOK, ConsumerKnows, QueueInSlots, NoProtocolError,
        ConsumerNotStranded, Reading, Expected
  <2> QED
    BY <2>2, <2>3, <2>4, <2>5
<1>3. CASE slot_state[c] # "AVAILABLE"
  <2>1. /\ ppc = "acq_scan" /\ ppc' \in {"acq_scan", "idle", "acq_observe"}
        /\ p_offset' \in Slots
        /\ UNCHANGED <<shared, next_acquire, p_slot, p_observed, p_wait,
                       p_error, held, consumer, active, queue>>
    BY <1>3 DEF AcquireScan, c, TypeOK, Slots, shared
  <2> QED
    BY <2>1
    DEF shared, consumer, TypeOK, QueueInSlots, InQueue, Freed, Stamped,
        ImagesOwned, ProducerKnows, ConsumerKnows, NoProtocolError,
        ConsumerNotStranded, Reading, Expected
<1> QED
  BY <1>2, <1>3

\* The stamp appends the slot to the queue with the next number.
LEMMA PresentStampStep == ASSUME RingInv, PresentStamp PROVE RingInv'
<1> USE MaxSequenceAssumption
    DEF RingInv, PresentStamp, consumer, Sequence, ProducerLocations
<1>1. p_slot \in Slots /\ queue \in Seq(Slots) /\ Len(queue) \in Nat
  BY DEF TypeOK
<1>2. /\ queue' \in Seq(Slots) /\ Len(queue') = Len(queue) + 1
      /\ \A i \in 1 .. Len(queue) : queue'[i] = queue[i]
      /\ queue'[Len(queue) + 1] = p_slot
      /\ queue' # <<>> /\ Head(queue') = queue'[1]
  BY <1>1, AppendFacts
<1>3. queue # <<>> => Head(queue) = queue[1] /\ Len(queue) >= 1
  BY <1>1, TailFacts
<1>4. TypeOK'
  BY <1>1, <1>2 DEF TypeOK, ProducerKnows
<1>5. QueueInSlots'
  <2>1. slot_state[p_slot] = "PRESENTED" /\ ~InQueue(p_slot)
    BY DEF ProducerKnows
  <2>2. Freed' = Freed /\ Stamped = producer_sequence
        /\ Stamped' = producer_sequence + 1
    BY DEF Freed, Stamped
  <2>3. /\ Freed \in Nat /\ producer_sequence = Freed + Len(queue)
        /\ Stamped' = Freed' + Len(queue')
    <3>1. Freed \in Nat /\ Stamped = Freed + Len(queue)
      BY DEF Freed, TypeOK, QueueInSlots
    <3> QED
      BY <1>1, <1>2, <2>2, <3>1
  <2>4. \A i, j \in 1 .. Len(queue') : queue'[i] = queue'[j] => i = j
    BY <1>1, <1>2, <2>1 DEF QueueInSlots, InQueue
  <2>5. \A i \in 1 .. Len(queue') :
          /\ slot_state'[queue'[i]] = "PRESENTED"
          /\ slot_sequence'[queue'[i]] =
               IF i = 1 /\ cpc' = "rel_free" THEN 0 ELSE Freed' + i
    <3> TAKE i \in 1 .. Len(queue')
    <3>1. CASE i \in 1 .. Len(queue)
      <4>1. queue'[i] = queue[i] /\ queue[i] # p_slot
        BY <1>2, <2>1, <3>1 DEF InQueue
      <4> QED
        BY <1>1, <2>2, <3>1, <4>1 DEF QueueInSlots, TypeOK
    <3>2. CASE i = Len(queue) + 1
      <4>1. queue'[i] = p_slot /\ slot_sequence'[p_slot] = Freed' + i
        BY <1>1, <1>2, <2>2, <2>3, <3>2 DEF TypeOK
      <4>2. cpc = "rel_free" => Len(queue) >= 1
        BY <1>3 DEF ConsumerKnows, Reading
      <4>3. ~(i = 1 /\ cpc = "rel_free")
        BY <1>1, <3>2, <4>2
      <4> QED
        BY <2>1, <4>1, <4>3
    <3> QED
      BY <1>1, <1>2, <3>1, <3>2
  <2>6. \A s \in Slots : ~InQueue(s)' =>
          /\ slot_sequence'[s] = 0
          /\ slot_state'[s] = "PRESENTED" => s = p_slot' /\ ppc' = "pres_stamp"
    <3> SUFFICES ASSUME NEW s \in Slots, ~InQueue(s)'
                 PROVE  slot_sequence'[s] = 0 /\ slot_state'[s] # "PRESENTED"
      OBVIOUS
    <3>1. s # p_slot /\ ~InQueue(s)
      BY <1>1, <1>2 DEF InQueue
    <3> QED
      BY <1>1, <3>1 DEF QueueInSlots, TypeOK
  <2> QED
    BY <2>3, <2>4, <2>5, <2>6 DEF QueueInSlots
<1>6. ImagesOwned' /\ ProducerKnows'
  BY <1>1 DEF ImagesOwned, ProducerKnows, TypeOK
<1>7. ConsumerKnows' /\ NoProtocolError' /\ ConsumerNotStranded'
  <2>1. queue # <<>> => Head(queue') = Head(queue)
    BY <1>1, <1>2, <1>3
  <2> QED
    BY <1>2, <2>1
    DEF ConsumerKnows, NoProtocolError, ConsumerNotStranded, Reading, Expected
<1> QED
  BY <1>4, <1>5, <1>6, <1>7

\* The release clears the number of the oldest frame, which stays PRESENTED.
LEMMA ReleaseClearStep == ASSUME RingInv, ReleaseClear PROVE RingInv'
<1> USE DEF RingInv
<1>1. /\ queue \in Seq(Slots) /\ queue # <<>> /\ c_slot = Head(queue)
      /\ cpc = "rel_clear" /\ cpc' = "rel_free"
      /\ slot_sequence' = [slot_sequence EXCEPT ![c_slot] = 0]
      /\ UNCHANGED <<slot_state, producer_sequence, consumer_sequence,
                     producer_status, consumer_status, producer, c_slot,
                     c_second, c_observed, c_error, consumed, transport,
                     active, queue>>
  BY DEF ReleaseClear, TypeOK, ConsumerKnows, Reading
<1>2. Len(queue) \in Nat /\ Len(queue) >= 1 /\ Head(queue) = queue[1]
  BY <1>1, TailFacts
<1>3. TypeOK'
  BY <1>1, MaxSequenceAssumption
  DEF TypeOK, ConsumerLocations, Sequence, producer
<1>4. QueueInSlots'
  <2>1. Freed' = Freed /\ Stamped' = Stamped
    BY <1>1 DEF Freed, Stamped, producer
  <2>2. \A i \in 1 .. Len(queue) : queue[i] = c_slot <=> i = 1
    BY <1>1, <1>2 DEF QueueInSlots
  <2>3. \A i \in 1 .. Len(queue) : slot_sequence'[queue[i]] =
          IF i = 1 /\ cpc' = "rel_free" THEN 0 ELSE Freed' + i
    <3> TAKE i \in 1 .. Len(queue)
    <3>1. queue[i] \in Slots
      BY <1>1
    <3> QED
      BY <1>1, <2>1, <2>2, <3>1 DEF QueueInSlots, TypeOK
  <2>4. \A s \in Slots : slot_sequence[s] = 0 => slot_sequence'[s] = 0
    BY <1>1 DEF TypeOK
  <2> QED
    BY <1>1, <2>1, <2>3, <2>4 DEF QueueInSlots, InQueue, producer
<1>5. ImagesOwned' /\ ProducerKnows'
  BY <1>1 DEF ImagesOwned, ProducerKnows, InQueue, producer
<1>6. ConsumerKnows' /\ NoProtocolError' /\ ConsumerNotStranded'
  BY <1>1
  DEF ConsumerKnows, NoProtocolError, ConsumerNotStranded, Reading, Expected,
      producer
<1> QED
  BY <1>3, <1>4, <1>5, <1>6

\* The release's exchange takes the oldest frame off the queue.
LEMMA ReleaseFreeStep == ASSUME RingInv, ReleaseFree PROVE RingInv'
<1> USE MaxSequenceAssumption DEF RingInv, producer, Sequence,
    ConsumerLocations, SlotStates
<1>1. /\ queue \in Seq(Slots) /\ queue # <<>> /\ c_slot = Head(queue)
      /\ consumer_sequence = consumed /\ transport # "cleared"
      /\ cpc = "rel_free" /\ consumed < MaxSequence
  BY DEF ReleaseFree, TypeOK, ConsumerKnows, Reading
<1>2. /\ Len(queue) \in Nat /\ Len(queue) >= 1 /\ Head(queue) = queue[1]
      /\ Tail(queue) \in Seq(Slots) /\ Len(Tail(queue)) = Len(queue) - 1
      /\ \A i \in 1 .. Len(queue) - 1 : Tail(queue)[i] = queue[i + 1]
  BY <1>1, TailFacts
<1>3. slot_state[c_slot] = "PRESENTED" /\ slot_sequence[c_slot] = 0
  BY <1>1, <1>2 DEF QueueInSlots
<1>4. /\ slot_state' = [slot_state EXCEPT ![c_slot] = "AVAILABLE"]
      /\ queue' = Tail(queue) /\ cpc' = "rel_publish"
      /\ UNCHANGED <<slot_sequence, producer_sequence, consumer_sequence,
                     producer_status, consumer_status, producer, c_slot,
                     c_second, c_observed, c_error, consumed, transport,
                     active>>
  BY <1>3 DEF ReleaseFree
<1>5. TypeOK'
  BY <1>2, <1>4 DEF TypeOK
<1>6. /\ Len(queue') = Len(queue) - 1
      /\ \A i \in 1 .. Len(queue') :
           i + 1 \in 2 .. Len(queue) /\ queue'[i] = queue[i + 1]
  BY <1>2, <1>4
<1>7. QueueInSlots'
  <2>1. /\ Freed = consumer_sequence /\ Freed' = consumer_sequence + 1
        /\ Stamped' = Stamped
    BY <1>1, <1>4 DEF Freed, Stamped
  <2>2. Stamped' = Freed' + Len(queue')
    BY <1>2, <1>6, <2>1 DEF QueueInSlots, TypeOK
  <2>3. \A i, j \in 1 .. Len(queue') : queue'[i] = queue'[j] => i = j
    BY <1>2, <1>6 DEF QueueInSlots
  <2>4. \A i \in 1 .. Len(queue') :
          /\ slot_state'[queue'[i]] = "PRESENTED"
          /\ slot_sequence'[queue'[i]] =
               IF i = 1 /\ cpc' = "rel_free" THEN 0 ELSE Freed' + i
    <3> TAKE i \in 1 .. Len(queue')
    <3>1. /\ i + 1 \in 1 .. Len(queue) /\ i + 1 # 1
          /\ queue'[i] = queue[i + 1] /\ queue[i + 1] # queue[1]
      BY <1>2, <1>6 DEF QueueInSlots
    <3>2. slot_state[queue[i + 1]] = "PRESENTED"
          /\ slot_sequence[queue[i + 1]] = Freed + (i + 1)
      BY <3>1 DEF QueueInSlots
    <3>3. Freed + (i + 1) = Freed' + i
      BY <1>2, <1>6, <2>1 DEF TypeOK
    <3> QED
      BY <1>1, <1>2, <1>4, <3>1, <3>2, <3>3 DEF TypeOK
  <2>5. \A s \in Slots : ~InQueue(s)' =>
          /\ slot_sequence'[s] = 0
          /\ slot_state'[s] = "PRESENTED" => s = p_slot' /\ ppc' = "pres_stamp"
    <3> SUFFICES ASSUME NEW s \in Slots, ~InQueue(s)', s # c_slot
                 PROVE  ~InQueue(s)
      BY <1>3, <1>4 DEF QueueInSlots, TypeOK
    <3> SUFFICES ASSUME NEW j \in 1 .. Len(queue), queue[j] = s
                 PROVE  FALSE
      BY DEF InQueue
    <3>1. j # 1
      BY <1>1, <1>2
    <3>2. j - 1 \in 1 .. Len(queue') /\ queue'[j - 1] = queue[j]
      BY <1>2, <1>6, <3>1
    <3> QED
      BY <3>2 DEF InQueue
  <2> QED
    BY <2>2, <2>3, <2>4, <2>5 DEF QueueInSlots
<1>8. ImagesOwned'
  BY <1>3, <1>4 DEF ImagesOwned, TypeOK
<1>9. ProducerKnows'
  <2>1. ppc = "acq_submit" => slot_state'[p_slot] = "ACQUIRED"
    BY <1>3, <1>4 DEF ProducerKnows, TypeOK
  <2>2. ASSUME ppc = "pres_stamp"
        PROVE  slot_state'[p_slot] = "PRESENTED" /\ ~InQueue(p_slot)'
    <3>1. ~InQueue(p_slot) /\ slot_state[p_slot] = "PRESENTED"
      BY <2>2 DEF ProducerKnows
    <3>2. p_slot # c_slot
      BY <1>1, <1>2, <3>1 DEF InQueue
    <3>3. ~InQueue(p_slot)'
      BY <1>2, <1>4, <1>6, <3>1 DEF InQueue
    <3> QED
      BY <1>4, <3>1, <3>2, <3>3 DEF TypeOK
  <2> QED
    BY <1>4, <2>1, <2>2 DEF ProducerKnows
<1>10. ConsumerKnows' /\ NoProtocolError' /\ ConsumerNotStranded'
  BY <1>1, <1>4
  DEF ConsumerKnows, NoProtocolError, ConsumerNotStranded, Reading, Expected
<1> QED
  BY <1>5, <1>7, <1>8, <1>9, <1>10

\* The stages in which the consumer looks at slots: a second scan always ends
\* at the frame it looks for, and no scan takes any other.
LEMMA ScanStep ==
  ASSUME RingInv, ScanState \/ ScanSequence
  PROVE  RingInv'
<1> USE SlotCountAssumption DEF RingInv
<1>1. /\ transport # "cleared" /\ c_slot \in Slots
      /\ cpc \in {"scan_state", "scan_sequence"} /\ consumed < MaxSequence
      /\ consumer_sequence = consumed
  BY DEF ScanState, ScanSequence, ConsumerKnows, TypeOK
<1>2. c_second => queue # <<>> /\ c_slot <= Head(queue) /\ Head(queue) \in Slots
  BY <1>1, HeadIsExpected DEF ConsumerKnows
<1>3. UNCHANGED <<shared, producer, c_second, c_observed, consumed, active,
                  queue>>
  BY DEF ScanState, ScanSequence
<1>4. \/ /\ cpc' = "scan_sequence" /\ slot_state[c_slot] = "PRESENTED"
         /\ UNCHANGED <<c_slot, c_error, transport>>
      \/ /\ cpc' = "found" /\ queue # <<>> /\ c_slot = Head(queue)
         /\ UNCHANGED <<c_slot, c_error, transport>>
      \/ (c_second => c_slot # Head(queue)) /\ ScanNext
  <2>1. CASE ScanState
    BY <1>1, <1>2, <2>1, HeadIsExpected DEF ScanState
  <2>2. CASE ScanSequence
    <3>1. CASE slot_sequence[c_slot] = Expected
      BY <1>1, <2>2, <3>1, ExpectedIsHead DEF ScanSequence
    <3>2. CASE slot_sequence[c_slot] # Expected
      BY <1>1, <1>2, <2>2, <3>2, HeadIsExpected DEF ScanSequence
    <3> QED
      BY <3>1, <3>2
  <2> QED
    BY <2>1, <2>2
<1>5. \/ /\ cpc' = "scan_sequence" /\ slot_state[c_slot] = "PRESENTED"
         /\ UNCHANGED c_slot
      \/ cpc' = "found" /\ queue # <<>> /\ c_slot = Head(queue)
         /\ UNCHANGED c_slot
      \/ /\ cpc' = "scan_state" /\ c_slot' \in Slots
         /\ c_second => c_slot' <= Head(queue)
      \/ cpc' = "wait_produced" /\ UNCHANGED c_slot
  <2>1. CASE (c_second => c_slot # Head(queue)) /\ ScanNext
    <3>1. c_second => c_slot < Head(queue) /\ c_slot + 1 < SlotCount
      BY <1>1, <1>2, <2>1 DEF Slots
    <3> QED
      BY <1>1, <1>2, <2>1, <3>1 DEF ScanNext, Slots
  <2> QED
    BY <1>4, <2>1
<1>6. UNCHANGED <<c_error, transport>>
  <2>1. CASE (c_second => c_slot # Head(queue)) /\ ScanNext
    <3>1. c_second => c_slot + 1 < SlotCount
      BY <1>1, <1>2, <2>1 DEF Slots
    <3> QED
      BY <2>1, <3>1 DEF ScanNext
  <2> QED
    BY <1>4, <2>1
<1> QED
  BY <1>1, <1>3, <1>5, <1>6
  DEF shared, producer, TypeOK, ConsumerLocations, QueueInSlots, InQueue,
      Freed, Stamped, ImagesOwned, ProducerKnows, ConsumerKnows,
      NoProtocolError, ConsumerNotStranded, Reading, Expected

\* After an unsuccessful first scan: a number that has been published is in
\* the queue.
LEMMA WaitProducedStep == ASSUME RingInv, WaitProduced PROVE RingInv'
<1> USE SlotCountAssumption
    DEF RingInv, WaitProduced, shared, producer, Expected
<1>1. /\ queue \in Seq(Slots) /\ Len(queue) \in Nat
      /\ transport # "cleared" /\ consumer_sequence = consumed
      /\ consumed < MaxSequence
      /\ consumed \in Nat /\ producer_sequence \in Nat
  BY DEF TypeOK, ConsumerKnows, Sequence
<1>2. producer_sequence >= consumed + 1 =>
        queue # <<>> /\ Head(queue) \in Slots
  <2> HAVE producer_sequence >= consumed + 1
  <2>1. Stamped >= producer_sequence /\ Freed = consumed
        /\ Stamped = Freed + Len(queue)
    BY <1>1 DEF Stamped, Freed, QueueInSlots
  <2>2. queue # <<>>
    BY <1>1, <2>1 DEF Stamped
  <2> QED
    BY <1>1, <2>2, HeadIsExpected
<1>3. /\ 0 \in Slots
      /\ \A s \in Slots : 0 <= s
  BY DEF Slots
<1>4. TypeOK'
  BY <1>3 DEF TypeOK, ConsumerLocations
<1>5. ConsumerKnows'
  BY <1>1, <1>2, <1>3 DEF ConsumerKnows, Reading
<1>6. QueueInSlots' /\ ImagesOwned' /\ ProducerKnows'
  BY DEF QueueInSlots, InQueue, Freed, Stamped, ImagesOwned,
         ProducerKnows
<1>7. NoProtocolError' /\ ConsumerNotStranded'
  BY DEF NoProtocolError, ConsumerNotStranded
<1> QED
  BY <1>4, <1>5, <1>6, <1>7

\* An image becomes the application's with its slot ACQUIRED.
LEMMA AcquireSubmitStep == ASSUME RingInv, AcquireSubmit PROVE RingInv'
<1> USE DEF RingInv, AcquireSubmit, shared, consumer
<1>1. TypeOK'
  BY DEF TypeOK, ProducerLocations, ProducerStatuses
<1>2. ImagesOwned' /\ ProducerKnows'
  BY DEF ImagesOwned, ProducerKnows
<1>3. QueueInSlots' /\ ConsumerKnows' /\ NoProtocolError'
      /\ ConsumerNotStranded'
  BY DEF QueueInSlots, InQueue, Freed, Stamped, ConsumerKnows, Reading,
         NoProtocolError, ConsumerNotStranded, Expected
<1> QED
  BY <1>1, <1>2, <1>3

\* Present's exchange takes the image from the application and changes no
\* slot that is in the queue.
LEMMA PresentClaimStep == ASSUME RingInv, PresentClaim PROVE RingInv'
<1> USE DEF RingInv, PresentClaim, consumer
<1>1. TypeOK'
  BY DEF TypeOK, ProducerLocations, ProducerStatuses, SlotStates
<1>2. ImagesOwned' /\ ProducerKnows'
  BY DEF ImagesOwned, ProducerKnows, QueueInSlots, InQueue, TypeOK
<1>3. QueueInSlots'
  BY DEF QueueInSlots, InQueue, Freed, Stamped, TypeOK
<1>4. ConsumerKnows' /\ NoProtocolError' /\ ConsumerNotStranded'
  BY DEF ConsumerKnows, NoProtocolError, ConsumerNotStranded, Reading,
         Expected, TypeOK
<1> QED
  BY <1>1, <1>2, <1>3, <1>4

\* The top of the wait starts a first scan, or reports a failure that is not
\* a protocol error.
LEMMA WaitCheckStep == ASSUME RingInv, WaitCheck PROVE RingInv'
<1> USE SlotCountAssumption DEF RingInv, WaitCheck, shared, producer
<1>1. PeerFailure \in Statuses \ {"EPROTO", "ESTALE"} /\ 0 \in Slots
  <2>1. consumer_status \in Statuses \ {"EPROTO", "ESTALE"}
    BY DEF NoProtocolError, TypeOK
  <2>2. producer_status \in Statuses \ {"EPROTO", "ESTALE"}
    BY DEF TypeOK, Statuses, ProducerStatuses
  <2> QED
    BY <2>1, <2>2 DEF PeerFailure, Slots
<1>2. \/ cpc' = "scan_state" /\ c_second' = FALSE /\ c_slot' = 0
         /\ UNCHANGED <<c_error, transport>>
      \/ /\ cpc' \in {"gate", "fail_store"}
         /\ c_error' \in {c_error, PeerFailure}
         /\ transport' \in {transport, "stopped"}
         /\ UNCHANGED <<c_slot, c_second>>
  BY DEF ConsumerStops
<1>3. transport # "cleared" /\ cpc = "wait_check" /\ consumed < MaxSequence
  BY DEF ConsumerKnows
<1> HIDE DEF WaitCheck
<1>4. UNCHANGED <<shared, producer, c_observed, consumed, active, queue>>
  BY DEF WaitCheck
<1>5. TypeOK'
  BY <1>1, <1>2, <1>4 DEF TypeOK, ConsumerLocations
<1>6. QueueInSlots' /\ ImagesOwned' /\ ProducerKnows'
  BY <1>2, <1>3, <1>4
  DEF QueueInSlots, InQueue, Freed, Stamped, ImagesOwned, ProducerKnows
<1>7. ConsumerKnows' /\ NoProtocolError' /\ ConsumerNotStranded'
  BY <1>1, <1>2, <1>3, <1>4
  DEF ConsumerKnows, Reading, Expected, NoProtocolError, ConsumerNotStranded
<1> QED
  BY <1>5, <1>6, <1>7

\* RingInv holds initially.
LEMMA RingInvInit == Init => RingInv
<1> SUFFICES ASSUME Init PROVE RingInv
  OBVIOUS
<1> USE SlotCountAssumption, MaxSequenceAssumption DEF Init
<1>1. TypeOK
  BY DEF TypeOK, Slots, SlotStates, Sequence, Statuses, ProducerStatuses,
         Waits, ProducerLocations, ConsumerLocations
<1>2. QueueInSlots
  BY DEF QueueInSlots, InQueue, Freed, Stamped
<1> QED
  BY <1>1, <1>2
  DEF RingInv, ImagesOwned, ProducerKnows, ConsumerKnows, Reading,
      NoProtocolError, ConsumerNotStranded, Expected

\* Every step preserves RingInv.
LEMMA RingInvStep == RingInv /\ [Next]_vars => RingInv'
<1> SUFFICES ASSUME RingInv, [Next]_vars PROVE RingInv'
  OBVIOUS
<1> USE SlotCountAssumption, MaxSequenceAssumption
    DEF RingInv, TypeOK, Slots, Sequence, Statuses, ProducerStatuses, Waits,
        ProducerLocations, ConsumerLocations, shared, producer, consumer,
        PeerFailure, AfterTimeout, WakeConsumer, WakeProducer, Expected,
        ConsumerStops, QueueInSlots, InQueue, Freed, Stamped, Reading,
        ImagesOwned, ProducerKnows, ConsumerKnows, NoProtocolError,
        ConsumerNotStranded
<1>1. CASE AcquireCheck
  BY <1>1, SMTT(30) DEF AcquireCheck
<1>2. CASE AcquireObserve
  BY <1>2, SMTT(30) DEF AcquireObserve
<1>3. CASE AcquireWait
  BY <1>3, SMTT(30) DEF AcquireWait
<1>4. CASE AcquireSleepEnds
  BY <1>4, SMTT(30) DEF AcquireSleepEnds
<1>5. CASE PresentSubmit
  BY <1>5, SMTT(30) DEF PresentSubmit
<1>6. CASE PresentCheck
  BY <1>6, SMTT(30) DEF PresentCheck
<1>7. CASE PresentPublish
  BY <1>7, SMTT(30) DEF PresentPublish
<1>8. CASE PresentWake
  BY <1>8, SMTT(30) DEF PresentWake
<1>9. CASE DestroySwapchain
  BY <1>9, SMTT(30) DEF DestroySwapchain
<1>10. CASE FailProducerStore
  BY <1>10, SMTT(30) DEF FailProducerStore
<1>11. CASE FailProducerWake
  BY <1>11, SMTT(30) DEF FailProducerWake
<1>12. CASE ConsumerEnter
  BY <1>12, SMTT(60) DEF ConsumerEnter
<1>13. CASE WaitCheck
  BY <1>13, WaitCheckStep
<1>14. CASE WaitFutex
  BY <1>14, SMTT(30) DEF WaitFutex
<1>15. CASE WaitSleepEnds
  BY <1>15, SMTT(30) DEF WaitSleepEnds
<1>16. CASE FrameFound
  BY <1>16, SMTT(30) DEF FrameFound
<1>17. CASE CopyFrame
  BY <1>17, SMTT(30) DEF CopyFrame
<1>18. CASE ReleaseCheck
  BY <1>18, SMTT(60) DEF ReleaseCheck
<1>19. CASE ReleaseClear
  BY <1>19, ReleaseClearStep
<1>20. CASE ReleasePublish
  BY <1>20, SMTT(30) DEF ReleasePublish
<1>21. CASE ReleaseWake
  BY <1>21, SMTT(30) DEF ReleaseWake
<1>22. CASE FailConsumerStore
  BY <1>22, SMTT(30) DEF FailConsumerStore
<1>23. CASE FailConsumerWake
  BY <1>23, SMTT(30) DEF FailConsumerWake
<1>24. CASE ToggleActivity
  BY <1>24, SMTT(30) DEF ToggleActivity
<1>25. CASE ImportTransport
  BY <1>25, SMTT(30) DEF ImportTransport
<1>26. CASE ClearTransport
  BY <1>26, SMTT(30) DEF ClearTransport
<1>27. ASSUME NEW w \in Waits, AcquireBegin(w) PROVE RingInv'
  BY <1>27, SMTT(30) DEF AcquireBegin
<1>28. ASSUME NEW s \in Slots, PresentBegin(s) PROVE RingInv'
  BY <1>28, SMTT(30) DEF PresentBegin
<1>29. CASE UNCHANGED vars
  BY <1>29, SMTT(30) DEF vars
<1> QED
  BY AcquireScanStep, AcquireSubmitStep, PresentClaimStep, PresentStampStep,
     ScanStep, WaitProducedStep, ReleaseFreeStep, <1>1, <1>2, <1>3, <1>4,
     <1>5, <1>6, <1>7, <1>8, <1>9, <1>10, <1>11, <1>12, <1>13, <1>14, <1>15,
     <1>16, <1>17, <1>18, <1>19, <1>20, <1>21, <1>22, <1>23, <1>24, <1>25,
     <1>26, <1>27, <1>28, <1>29
  DEF Next, ProducerStep, Application, ConsumerStep, Platform, Deadline

-----------------------------------------------------------------------------
\* The invariant of the ring.
THEOREM RingInvariant == Spec => []RingInv
  BY RingInvInit, RingInvStep, PTL DEF Spec

\* Every shared word and every local keeps its type; in particular no
\* sequence word passes UINT32_MAX.
THEOREM TypeCorrect == Spec => []TypeOK
<1>1. RingInv => TypeOK
  BY DEF RingInv
<1> QED
  BY <1>1, RingInvariant, PTL

\* The Activity copies only the oldest frame, and its image is not the game's.
THEOREM ReadsOldest == Spec => []ReadsOldestFrame
<1>1. RingInv => ReadsOldestFrame
  <2> SUFFICES ASSUME RingInv, Reading PROVE
        /\ queue # <<>> /\ c_slot = Head(queue)
        /\ c_slot \notin held /\ slot_state[c_slot] = "PRESENTED"
    BY DEF ReadsOldestFrame
  <2>1. queue \in Seq(Slots) /\ queue # <<>> /\ c_slot = Head(queue)
    BY DEF RingInv, TypeOK, ConsumerKnows
  <2>2. 1 \in 1 .. Len(queue) /\ c_slot = queue[1]
    BY <2>1, TailFacts
  <2>3. slot_state[c_slot] = "PRESENTED"
    BY <2>2 DEF RingInv, QueueInSlots
  <2>4. c_slot \notin held
    BY <2>3 DEF RingInv, ImagesOwned
  <2> QED
    BY <2>1, <2>3, <2>4
<1> QED
  BY <1>1, RingInvariant, PTL

\* -EPROTO and -ESTALE are unreachable.
THEOREM NoProtocolErrors == Spec => []NoProtocolError
<1>1. RingInv => NoProtocolError
  BY DEF RingInv
<1> QED
  BY <1>1, RingInvariant, PTL

\* While the producer has not failed the ring, every image is free, or the
\* application's and presentable, or in the queue: none is lost, however the
\* calls of the two sides interleave and whichever of them fails.
THEOREM NoImageIsLost == Spec => []NoImageLost
<1>1. RingInv => NoImageLost
  <2> SUFFICES ASSUME RingInv, producer_status = "OK", NEW s \in Slots
               PROVE
        \/ slot_state[s] = "AVAILABLE" /\ s \notin held /\ ~InQueue(s)
        \/ /\ slot_state[s] = "ACQUIRED" /\ ~InQueue(s)
           /\ s \in held \/ (s = p_slot /\ ppc \in {"acq_submit", "fail_store"})
        \/ /\ slot_state[s] = "PRESENTED" /\ s \notin held
           /\ InQueue(s) \/ (s = p_slot /\ ppc = "pres_stamp")
    BY DEF NoImageLost
  <2>1. slot_state[s] \in {"AVAILABLE", "ACQUIRED", "PRESENTED"}
    BY DEF RingInv, TypeOK, SlotStates
  <2>2. InQueue(s) => slot_state[s] = "PRESENTED"
    BY DEF RingInv, QueueInSlots, InQueue
  <2>3. /\ s \in held => slot_state[s] = "ACQUIRED"
        /\ slot_state[s] = "ACQUIRED" /\ s \notin held =>
             s = p_slot /\ ppc \in {"acq_submit", "fail_store"}
    BY DEF RingInv, ImagesOwned
  <2>4. slot_state[s] = "PRESENTED" /\ ~InQueue(s) =>
          s = p_slot /\ ppc = "pres_stamp"
    BY DEF RingInv, QueueInSlots
  <2> QED
    BY <2>1, <2>2, <2>3, <2>4
<1> QED
  BY <1>1, RingInvariant, PTL

\* A sleeping consumer with a published frame is about to be woken.
THEOREM ConsumerIsWoken == Spec => []ConsumerNotStranded
<1>1. RingInv => ConsumerNotStranded
  BY DEF RingInv
<1> QED
  BY <1>1, RingInvariant, PTL

-----------------------------------------------------------------------------
(***************************************************************************)
(* Refinement.  Four actions of the ring are steps of the frame queue that *)
(* move an image (AcquireScan, PresentStamp, FrameFound, ReleaseFree), two *)
(* may abandon a reading, and every other step is invisible in it.         *)
(***************************************************************************)
\* A step that leaves the slot states, the queue and the reader's place alone.
LEMMA InvisibleStep ==
  ASSUME UNCHANGED <<slot_state, queue>>,
         Reading' = Reading, Reading => UNCHANGED c_slot
  PROVE  UNCHANGED Frames!queueVars
  BY DEF Frames!queueVars

\* Claiming a slot in the scan is the queue's Acquire.
LEMMA AcquireRefines ==
  ASSUME RingInv, AcquireScan
  PROVE  [Frames!Next]_(Frames!queueVars)
<1> DEFINE c == (next_acquire + p_offset) % SlotCount
<1>1. UNCHANGED queue /\ Reading' = Reading /\ UNCHANGED c_slot
  BY DEF AcquireScan, consumer, Reading
<1>2. c \in Slots
  <2>1. next_acquire + p_offset \in Nat
    BY SlotCountAssumption DEF RingInv, TypeOK, Slots
  <2> QED
    BY <2>1, SlotModulo
<1>3. CASE slot_state[c] = "AVAILABLE"
  <2>1. slot_state' = [slot_state EXCEPT ![c] = "ACQUIRED"]
    BY <1>3 DEF AcquireScan
  <2> HIDE DEF c
  <2>2. slot_state \in [Slots -> SlotStates]
    BY DEF RingInv, TypeOK
  <2>3. Frames!Acquire(c)
    BY <1>1, <1>2, <1>3, <2>1, <2>2 DEF Frames!Acquire
  <2>4. \E i \in Slots : Frames!Acquire(i)
    BY <1>2, <2>3 DEF Frames!Acquire
  <2> QED
    BY <2>4 DEF Frames!Next
<1>4. CASE slot_state[c] # "AVAILABLE"
  <2>1. UNCHANGED slot_state
    BY <1>4 DEF AcquireScan
  <2> QED
    BY <1>1, <2>1, InvisibleStep
<1> QED
  BY <1>3, <1>4

\* The stamp is the queue's Present.
LEMMA PresentRefines ==
  ASSUME RingInv, PresentStamp
  PROVE  Frames!Present(p_slot)
<1>1. /\ p_slot \in Slots /\ queue' = Append(queue, p_slot)
      /\ UNCHANGED slot_state /\ Reading' = Reading /\ UNCHANGED c_slot
  BY DEF PresentStamp, RingInv, TypeOK, consumer, Reading
<1>2. /\ slot_state[p_slot] = "PRESENTED"
      /\ \A i \in 1 .. Len(queue) : queue[i] # p_slot
  BY DEF PresentStamp, RingInv, ProducerKnows, InQueue
<1> QED
  BY <1>1, <1>2 DEF Frames!Present, Frames!Waiting

\* The release's exchange is the queue's FinishReading.
LEMMA ReleaseRefines ==
  ASSUME RingInv, ReleaseFree
  PROVE  Frames!FinishReading
<1>1. /\ queue \in Seq(Slots) /\ queue # <<>> /\ c_slot = Head(queue)
      /\ Reading /\ slot_state \in [Slots -> SlotStates]
  BY DEF ReleaseFree, RingInv, TypeOK, ConsumerKnows, Reading
<1>2. Len(queue) >= 1 /\ Len(queue) \in Nat /\ c_slot = queue[1]
      /\ c_slot \in Slots
  BY <1>1, TailFacts
<1>3. slot_state[c_slot] = "PRESENTED"
  BY <1>2 DEF RingInv, QueueInSlots
<1>4. /\ slot_state' = [slot_state EXCEPT ![c_slot] = "AVAILABLE"]
      /\ queue' = Tail(queue) /\ ~Reading'
  BY <1>3 DEF ReleaseFree, Reading
<1> QED
  BY <1>1, <1>2, <1>4 DEF Frames!FinishReading

\* The steps of the consumer that begin or abandon a copy.
LEMMA ReaderRefines ==
  ASSUME RingInv, FrameFound \/ CopyFrame \/ ReleaseCheck
  PROVE  [Frames!Next]_(Frames!queueVars)
<1>1. UNCHANGED <<slot_state, queue, c_slot>>
  BY DEF FrameFound, CopyFrame, ReleaseCheck, shared
<1>2. CASE FrameFound
  <2>1. ~Reading /\ queue # <<>> /\ c_slot = Head(queue)
    BY <1>2 DEF FrameFound, Reading, RingInv, ConsumerKnows
  <2>2. CASE Reading'
    BY <1>1, <2>1, <2>2 DEF Frames!Next, Frames!StartReading
  <2>3. CASE ~Reading'
    BY <1>1, <2>1, <2>3, InvisibleStep DEF Reading
  <2> QED
    BY <2>2, <2>3
<1>3. CASE CopyFrame \/ ReleaseCheck
  <2>1. Reading
    BY <1>3 DEF CopyFrame, ReleaseCheck, Reading
  <2>2. CASE Reading'
    BY <1>1, <2>1, <2>2, InvisibleStep
  <2>3. CASE ~Reading'
    BY <1>1, <2>3 DEF Frames!Next, Frames!AbandonReading
  <2> QED
    BY <2>2, <2>3
<1> QED
  BY <1>2, <1>3

\* PresentClaim changes a slot state, but not whether the slot is free.
LEMMA PresentClaimRefines ==
  ASSUME RingInv, PresentClaim
  PROVE  UNCHANGED Frames!queueVars
<1>1. UNCHANGED <<queue, c_slot>> /\ Reading' = Reading
  BY DEF PresentClaim, consumer, Reading
<1>2. slot_state \in [Slots -> SlotStates] /\ p_slot \in Slots
  BY DEF RingInv, TypeOK
<1>3. \A s \in Slots :
        (slot_state'[s] = "AVAILABLE") <=> (slot_state[s] = "AVAILABLE")
  BY <1>2 DEF PresentClaim
<1> QED
  BY <1>1, <1>3 DEF Frames!queueVars

\* Every step of the ring is a step of the frame queue, or invisible in it.
LEMMA NextRefines ==
  RingInv /\ [Next]_vars => [Frames!Next]_(Frames!queueVars)
<1> SUFFICES ASSUME RingInv, [Next]_vars
             PROVE  [Frames!Next]_(Frames!queueVars)
  OBVIOUS
<1> USE DEF shared, producer, consumer, Reading
<1>1. ASSUME AcquireCheck \/ AcquireObserve \/ AcquireWait \/ AcquireSleepEnds
             \/ AcquireSubmit \/ PresentSubmit \/ PresentCheck
             \/ PresentPublish \/ PresentWake \/ DestroySwapchain
             \/ FailProducerStore \/ FailProducerWake
      PROVE  UNCHANGED Frames!queueVars
  BY <1>1, InvisibleStep
  DEF AcquireCheck, AcquireObserve, AcquireWait, AcquireSleepEnds,
      AcquireSubmit, PresentSubmit, PresentCheck, PresentPublish,
      PresentWake, DestroySwapchain, FailProducerStore, FailProducerWake,
      WakeConsumer
<1>2. ASSUME ConsumerEnter \/ WaitCheck \/ ScanState \/ ScanSequence
             \/ WaitProduced \/ WaitFutex \/ WaitSleepEnds \/ ReleaseClear
             \/ ReleasePublish \/ ReleaseWake \/ FailConsumerStore
             \/ FailConsumerWake \/ ToggleActivity \/ ImportTransport
             \/ ClearTransport
      PROVE  UNCHANGED Frames!queueVars
  BY <1>2, InvisibleStep
  DEF ConsumerEnter, WaitCheck, ScanState, ScanSequence, WaitProduced,
      WaitFutex, WaitSleepEnds, ReleaseClear, ReleasePublish, ReleaseWake,
      FailConsumerStore, FailConsumerWake, ToggleActivity, ImportTransport,
      ClearTransport, ConsumerStops, ScanNext
<1>3. ASSUME NEW w \in Waits, AcquireBegin(w)
      PROVE  UNCHANGED Frames!queueVars
  BY <1>3, InvisibleStep DEF AcquireBegin
<1>4. ASSUME NEW s \in Slots, PresentBegin(s)
      PROVE  UNCHANGED Frames!queueVars
  BY <1>4, InvisibleStep DEF PresentBegin
<1>5. CASE UNCHANGED vars
  BY <1>5, InvisibleStep DEF vars
<1>6. ASSUME PresentStamp PROVE Frames!Next
  BY <1>6, PresentRefines DEF Frames!Next, RingInv, TypeOK
<1>7. ASSUME ReleaseFree PROVE Frames!Next
  BY <1>7, ReleaseRefines DEF Frames!Next
<1> QED
  BY <1>1, <1>2, <1>3, <1>4, <1>5, <1>6, <1>7, AcquireRefines,
     PresentClaimRefines, ReaderRefines
  DEF Next, ProducerStep, Application, ConsumerStep, Platform, Deadline

\* The ring implements the ordered frame queue.
THEOREM RefinesFrameQueue == Spec => ImplementsFrameQueue
<1>1. Init => Frames!Init
  BY DEF Init, Frames!Init, Reading
<1> QED
  BY <1>1, NextRefines, RingInvariant, PTL
  DEF Spec, ImplementsFrameQueue, Frames!Spec
=============================================================================
