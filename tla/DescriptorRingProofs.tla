------------------------ MODULE DescriptorRingProofs ------------------------
(***************************************************************************)
(* The descriptor transaction ring's safety for every number of slots,     *)
(* every set of requests and every bound of the sequence words:            *)
(* TransactionInv is inductive.                                            *)
(***************************************************************************)
EXTENDS DescriptorRing, TLAPS

(***************************************************************************)
(* Facts about the operators of the model.                                 *)
(***************************************************************************)

\* The ring's index arithmetic stays within the slots.
LEMMA SlotOfFacts == \A n \in Nat \ {0} : SlotOf(n) \in Slots
  BY SlotCountAssumption DEF SlotOf, Slots

\* Counting on stays a 32-bit number, and is exact below the last one.
LEMMA CountFacts ==
  ASSUME NEW n \in Sequence
  PROVE  /\ (n + 1) % (MaxSequence + 1) \in Sequence
         /\ n # MaxSequence => (n + 1) % (MaxSequence + 1) = n + 1
  BY MaxSequenceAssumption DEF Sequence

\* What a slot may hold.
SlotType ==
  [state : {"AVAILABLE", "REQUESTED", "COMPLETED"}, sequence : Sequence,
   status : {"OK", "ERROR"}, request : Requests \cup {None},
   response : Requests \cup {None}]

\* A free slot is a slot.
LEMMA EmptySlotFacts == EmptySlot \in SlotType /\ EmptySlot.state = "AVAILABLE"
  BY MaxSequenceAssumption DEF EmptySlot, SlotType, Sequence

\* The steps of a wait of the caller: where they lead, and what they conclude.
LEMMA ClientWaitFacts ==
  ASSUME TransactionInv, ClientWait!WaitStep
  PROVE  /\ c_wait \in {"spin", "recheck", "load", "futex", "asleep"}
         /\ c_wait' \in {"recheck", "load", "futex", "asleep", "done"}
         /\ completion_wait_state' =
              IF c_wait' = "done" THEN "IDLE" ELSE "SLEEPING"
         /\ c_wait' = "futex" =>
              c_observed' = completion_sequence /\ c_observed' < c_sequence
         /\ c_wait' # "futex" => c_observed' = c_observed
         /\ c_result' \in ClientWait!WaitResults
         /\ c_wait' = "done" /\ c_result' = "OK" =>
              completion_sequence >= c_sequence
         /\ c_wait' = "asleep" => completion_sequence < c_sequence
<1>1. /\ c_wait \in {"recheck", "load", "futex", "asleep"} =>
           completion_wait_state = "SLEEPING"
      /\ c_wait = "futex" => c_observed < c_sequence
      /\ c_wait = "out" => FALSE
      /\ c_result \in ClientWait!WaitResults
  BY DEF TransactionInv, WaitsKnow, TypeOK, WordsOK, ClientWait!WaitStep,
     ClientWait!SpinFails, ClientWait!SpinSees, ClientWait!SpinExpires,
     ClientWait!Recheck, ClientWait!Load, ClientWait!Futex,
     ClientWait!SleepEnds
<1> QED
  BY <1>1
  DEF ClientWait!WaitStep, ClientWait!SpinFails, ClientWait!SpinSees,
      ClientWait!SpinExpires, ClientWait!Recheck, ClientWait!Load,
      ClientWait!Futex, ClientWait!SleepEnds, ClientWait!Return,
      ClientWait!WaitResults

\* The steps of a wait of the worker, likewise.
LEMMA WorkerWaitFacts ==
  ASSUME TransactionInv, WorkerWait!WaitStep
  PROVE  /\ w_wait \in {"spin", "recheck", "load", "futex", "asleep"}
         /\ w_wait' \in {"recheck", "load", "futex", "asleep", "done"}
         /\ request_wait_state' =
              IF w_wait' = "done" THEN "IDLE" ELSE "SLEEPING"
         /\ w_wait' = "futex" =>
              w_observed' = request_sequence /\ w_observed' < after + 1
         /\ w_wait' # "futex" => w_observed' = w_observed
         /\ w_result' \in ClientWait!WaitResults
         /\ w_wait' = "done" /\ w_result' = "OK" =>
              request_sequence >= after + 1
         /\ w_wait' = "asleep" => request_sequence < after + 1
<1>1. /\ w_wait \in {"recheck", "load", "futex", "asleep"} =>
           request_wait_state = "SLEEPING"
      /\ w_wait = "futex" => w_observed < after + 1
      /\ w_wait = "out" => FALSE
      /\ w_result \in ClientWait!WaitResults
  BY DEF TransactionInv, WaitsKnow, TypeOK, WordsOK, WorkerWait!WaitStep,
     WorkerWait!SpinFails, WorkerWait!SpinSees, WorkerWait!SpinExpires,
     WorkerWait!Recheck, WorkerWait!Load, WorkerWait!Futex,
     WorkerWait!SleepEnds
<1> QED
  BY <1>1
  DEF WorkerWait!WaitStep, WorkerWait!SpinFails, WorkerWait!SpinSees,
      WorkerWait!SpinExpires, WorkerWait!Recheck, WorkerWait!Load,
      WorkerWait!Futex, WorkerWait!SleepEnds, WorkerWait!Return,
      ClientWait!WaitResults

(***************************************************************************)
(* The invariant, action by action.                                        *)
(***************************************************************************)

\* The invariant holds of a new ring.
LEMMA TransactionInvInit == Init => TransactionInv
<1> SUFFICES ASSUME Init PROVE TransactionInv
  OBVIOUS
<1>1. TypeOK
  <2>1. slot \in [Slots -> SlotType]
    BY EmptySlotFacts DEF Init
  <2>2. 0 \in Sequence /\ 1 \in Sequence
    BY MaxSequenceAssumption DEF Sequence
  <2>3. <<>> \in Seq(Requests)
    OBVIOUS
  <2> QED
    BY <2>1, <2>2, <2>3, Zenon
    DEF Init, TypeOK, WordsOK, FlagsOK, SlotType, ClientWait!WaitStates,
        ClientWait!WaitLocations, ClientWait!WaitResults
<1>2. SequencesAgree /\ RequestInSlot /\ HistoriesAgree
  BY DEF Init, SequencesAgree, RequestInSlot, HistoriesAgree, Outstanding,
         Preparing, Asked, Serving
<1>3. OthersAvailable
  BY EmptySlotFacts DEF Init, OthersAvailable
<1>4. WaitsKnow /\ in_order /\ AnswersOwnRequest /\ NoBrokenRing
      /\ NoLostHandoff
  BY DEF Init, WaitsKnow, AnswersOwnRequest, NoBrokenRing, NoLostHandoff
<1> QED
  BY <1>1, <1>2, <1>3, <1>4 DEF TransactionInv

\* A call begins.
LEMMA CallBeginStep ==
  ASSUME TransactionInv, NEW r \in Requests, CallBegin(r)
  PROVE  TransactionInv'
<1> USE DEF TransactionInv, shared, clientWait, workerWait, worker, stopper,
            CallBegin, CallFails
<1>1. ~Outstanding /\ ~Serving /\ c_wait = "out" /\ cpc' \in {"fill", "fail_store"}
      /\ c_sequence = request_sequence + 1
  BY DEF SequencesAgree, Preparing, WaitsKnow
<1>2. TypeOK'
  <2>1. FlagsOK'
    BY DEF TypeOK, FlagsOK
  <2>2. WordsOK'
    BY DEF TypeOK, WordsOK, ClientWait!WaitStates, ClientWait!WaitLocations,
           ClientWait!WaitResults
  <2> QED
    BY <2>1, <2>2 DEF TypeOK
<1>3. SequencesAgree' /\ RequestInSlot' /\ HistoriesAgree'
  BY <1>1 DEF SequencesAgree, RequestInSlot, HistoriesAgree, Outstanding,
              Preparing, Asked, Serving
<1>4. OthersAvailable'
  BY DEF OthersAvailable, Preparing, Asked
<1>5. /\ WaitsKnow' /\ in_order' /\ AnswersOwnRequest' /\ NoBrokenRing'
      /\ NoLostHandoff'
  BY <1>1 DEF WaitsKnow, AnswersOwnRequest, NoBrokenRing, NoLostHandoff,
              Outstanding, SequencesAgree, TypeOK, WordsOK, Sequence
<1> QED
  BY <1>2, <1>3, <1>4, <1>5

\* The caller stores the request number.
LEMMA CallPublishStep ==
  ASSUME TransactionInv, CallPublish
  PROVE  TransactionInv'
<1> USE DEF TransactionInv, shared, clientWait, workerWait, client, worker,
            stopper, history, CallPublish
<1>1. /\ cpc \in {"publish", "publish_late"} /\ cpc' \in {"peek", "wake"}
      /\ c_sequence = request_sequence + 1 /\ ~Outstanding /\ ~Serving
      /\ request_sequence = completion_sequence /\ c_wait = "out"
      /\ unserved = <<>> /\ c_request \in Requests
      /\ completion_sequence = IF wpc \in {"peek", "wake"} THEN after + 1 ELSE after
      /\ request_sequence \in Nat /\ completion_sequence \in Nat
      /\ c_sequence \in Nat /\ after \in Nat
  BY DEF SequencesAgree, Preparing, Asked, Serving, WaitsKnow, TypeOK, WordsOK,
         Sequence, Outstanding, HistoriesAgree, RequestInSlot
<1>2. unserved' = <<c_request>> /\ unserved' \in Seq(Requests)
  BY <1>1
<1>3. TypeOK'
  <2>1. FlagsOK'
    BY DEF TypeOK, FlagsOK
  <2>2. WordsOK'
    BY <1>1, <1>2 DEF TypeOK, WordsOK, ClientWait!WaitStates, ClientWait!WaitLocations,
           ClientWait!WaitResults
  <2> QED
    BY <2>1, <2>2 DEF TypeOK
<1>4. SequencesAgree' /\ RequestInSlot' /\ HistoriesAgree'
  BY <1>1, <1>2
  DEF SequencesAgree, RequestInSlot, HistoriesAgree, Outstanding, Preparing,
      Asked, Serving
<1>5. OthersAvailable'
  BY <1>1 DEF OthersAvailable, Preparing, Asked
<1>6. /\ WaitsKnow' /\ in_order' /\ AnswersOwnRequest' /\ NoBrokenRing'
      /\ NoLostHandoff'
  BY <1>1
  DEF WaitsKnow, AnswersOwnRequest, NoBrokenRing, NoLostHandoff, Outstanding,
      HistoriesAgree
<1> QED
  BY <1>3, <1>4, <1>5, <1>6

\* The caller loads the worker's announcement.
LEMMA CallPeekStep ==
  ASSUME TransactionInv, CallPeek
  PROVE  TransactionInv'
<1> USE DEF TransactionInv, shared, clientWait, workerWait, client, worker,
            stopper, history, CallPeek
<1>1. /\ cpc \in {"publish", "peek"} /\ c_wait = "out"
      /\ cpc' = IF cpc = "peek" THEN "wake" ELSE "publish_late"
      /\ request_sequence \in Nat /\ completion_sequence \in Nat
      /\ c_sequence \in Nat /\ after \in Nat
  BY DEF SequencesAgree, Preparing, Asked, Serving, WaitsKnow, TypeOK, WordsOK,
         Sequence, Outstanding
<1>2. TypeOK'
  <2>1. FlagsOK'
    BY DEF TypeOK, FlagsOK
  <2>2. WordsOK'
    BY <1>1 DEF TypeOK, WordsOK, ClientWait!WaitStates, ClientWait!WaitLocations,
           ClientWait!WaitResults
  <2> QED
    BY <2>1, <2>2 DEF TypeOK
<1>3. SequencesAgree' /\ RequestInSlot' /\ HistoriesAgree'
  BY <1>1
  DEF SequencesAgree, RequestInSlot, HistoriesAgree, Outstanding, Preparing,
      Asked, Serving
<1>4. OthersAvailable'
  BY <1>1 DEF OthersAvailable, Preparing, Asked
<1>5. /\ WaitsKnow' /\ in_order' /\ AnswersOwnRequest' /\ NoBrokenRing'
      /\ NoLostHandoff'
  BY <1>1
  DEF WaitsKnow, AnswersOwnRequest, NoBrokenRing, NoLostHandoff, Outstanding
<1> QED
  BY <1>2, <1>3, <1>4, <1>5

\* The caller wakes the worker and begins to wait.
LEMMA CallWakeStep ==
  ASSUME TransactionInv, CallWake
  PROVE  TransactionInv'
<1> USE DEF TransactionInv, shared, clientWait, workerWait, client, worker,
            stopper, history, CallWake, WorkerWait!Woken, ClientWait!Begin
<1>1. /\ cpc = "wake" /\ cpc' = "wait" /\ c_wait = "out" /\ c_wait' = "spin"
      /\ w_wait' \in {w_wait, "recheck"}
      /\ w_wait' # w_wait => w_wait = "asleep" /\ w_wait' = "recheck"
      /\ request_sequence \in Nat /\ completion_sequence \in Nat
      /\ c_sequence \in Nat /\ after \in Nat
  BY DEF SequencesAgree, Preparing, Asked, Serving, WaitsKnow, TypeOK, WordsOK,
         Sequence, Outstanding
<1>2. TypeOK'
  <2>1. FlagsOK'
    BY DEF TypeOK, FlagsOK
  <2>2. WordsOK'
    BY <1>1 DEF TypeOK, WordsOK, ClientWait!WaitStates, ClientWait!WaitLocations,
           ClientWait!WaitResults
  <2> QED
    BY <2>1, <2>2 DEF TypeOK
<1>3. SequencesAgree' /\ RequestInSlot' /\ HistoriesAgree'
  BY <1>1
  DEF SequencesAgree, RequestInSlot, HistoriesAgree, Outstanding, Preparing,
      Asked, Serving
<1>4. OthersAvailable'
  BY <1>1 DEF OthersAvailable, Preparing, Asked
<1>5. /\ WaitsKnow' /\ in_order' /\ AnswersOwnRequest' /\ NoBrokenRing'
      /\ NoLostHandoff'
  BY <1>1
  DEF WaitsKnow, AnswersOwnRequest, NoBrokenRing, NoLostHandoff, Outstanding
<1> QED
  BY <1>2, <1>3, <1>4, <1>5

\* A step of the caller's wait.
LEMMA CallWaitStep ==
  ASSUME TransactionInv, CallWait
  PROVE  TransactionInv'
<1> USE DEF TransactionInv, shared, clientWait, workerWait, client, worker,
            stopper, history, CallWait
<1>1. /\ cpc = "wait" /\ c_sequence = request_sequence /\ c_sequence >= 1
      /\ request_sequence \in Nat /\ completion_sequence \in Nat
      /\ c_sequence \in Nat /\ after \in Nat
  BY DEF SequencesAgree, Preparing, Asked, Serving, WaitsKnow, TypeOK, WordsOK,
         Sequence, Outstanding
<1>2. TypeOK'
  <2>1. FlagsOK'
    BY DEF TypeOK, FlagsOK
  <2>2. WordsOK'
    BY <1>1, ClientWaitFacts DEF TypeOK, WordsOK, ClientWait!WaitStates, ClientWait!WaitLocations,
           ClientWait!WaitResults, Sequence
  <2> QED
    BY <2>1, <2>2 DEF TypeOK
<1>3. SequencesAgree' /\ RequestInSlot' /\ HistoriesAgree'
  BY <1>1
  DEF SequencesAgree, RequestInSlot, HistoriesAgree, Outstanding, Preparing,
      Asked, Serving
<1>4. OthersAvailable'
  BY <1>1 DEF OthersAvailable, Preparing, Asked
<1>5. /\ WaitsKnow' /\ in_order' /\ AnswersOwnRequest' /\ NoBrokenRing'
      /\ NoLostHandoff'
  BY <1>1, ClientWaitFacts
  DEF WaitsKnow, AnswersOwnRequest, NoBrokenRing, NoLostHandoff, Outstanding, SequencesAgree
<1> QED
  BY <1>2, <1>3, <1>4, <1>5

\* The worker starts a wait, or ends.
LEMMA WorkerLoopStep ==
  ASSUME TransactionInv, WorkerLoop
  PROVE  TransactionInv'
<1> USE DEF TransactionInv, shared, clientWait, workerWait, client, worker,
            stopper, history, WorkerLoop, WorkerEnds, WorkerWait!Begin
<1>1. /\ wpc = "loop" /\ wpc' \in {"wait", "ended"} /\ w_wait = "out"
      /\ w_wait' \in {"out", "spin"}
      /\ request_sequence \in Nat /\ completion_sequence \in Nat
      /\ c_sequence \in Nat /\ after \in Nat
  BY DEF SequencesAgree, Preparing, Asked, Serving, WaitsKnow, TypeOK, WordsOK,
         Sequence, Outstanding
<1>2. TypeOK'
  <2>1. FlagsOK'
    BY DEF TypeOK, FlagsOK
  <2>2. WordsOK'
    BY <1>1 DEF TypeOK, WordsOK, ClientWait!WaitStates, ClientWait!WaitLocations,
           ClientWait!WaitResults
  <2> QED
    BY <2>1, <2>2 DEF TypeOK
<1>3. SequencesAgree' /\ RequestInSlot' /\ HistoriesAgree'
  BY <1>1
  DEF SequencesAgree, RequestInSlot, HistoriesAgree, Outstanding, Preparing,
      Asked, Serving
<1>4. OthersAvailable'
  BY <1>1 DEF OthersAvailable, Preparing, Asked
<1>5. /\ WaitsKnow' /\ in_order' /\ AnswersOwnRequest' /\ NoBrokenRing'
      /\ NoLostHandoff'
  BY <1>1
  DEF WaitsKnow, AnswersOwnRequest, NoBrokenRing, NoLostHandoff, Outstanding
<1> QED
  BY <1>2, <1>3, <1>4, <1>5

\* A step of the worker's wait.
LEMMA WorkerWaitsStep ==
  ASSUME TransactionInv, WorkerWaits
  PROVE  TransactionInv'
<1> USE DEF TransactionInv, shared, clientWait, workerWait, client, worker,
            stopper, history, WorkerWaits
<1>1. /\ wpc = "wait" /\ completion_sequence = after
      /\ request_sequence \in Nat /\ completion_sequence \in Nat
      /\ c_sequence \in Nat /\ after \in Nat
  BY DEF SequencesAgree, Preparing, Asked, Serving, WaitsKnow, TypeOK, WordsOK,
         Sequence, Outstanding
<1>2. TypeOK'
  <2>1. FlagsOK'
    BY DEF TypeOK, FlagsOK
  <2>2. WordsOK'
    BY <1>1, WorkerWaitFacts DEF TypeOK, WordsOK, ClientWait!WaitStates, ClientWait!WaitLocations,
           ClientWait!WaitResults, Sequence
  <2> QED
    BY <2>1, <2>2 DEF TypeOK
<1>3. SequencesAgree' /\ RequestInSlot' /\ HistoriesAgree'
  BY <1>1
  DEF SequencesAgree, RequestInSlot, HistoriesAgree, Outstanding, Preparing,
      Asked, Serving
<1>4. OthersAvailable'
  BY <1>1 DEF OthersAvailable, Preparing, Asked
<1>5. /\ WaitsKnow' /\ in_order' /\ AnswersOwnRequest' /\ NoBrokenRing'
      /\ NoLostHandoff'
  BY <1>1, WorkerWaitFacts
  DEF WaitsKnow, AnswersOwnRequest, NoBrokenRing, NoLostHandoff, Outstanding, SequencesAgree
<1> QED
  BY <1>2, <1>3, <1>4, <1>5

\* The worker publishes the completion.
LEMMA WorkerPublishStep ==
  ASSUME TransactionInv, WorkerPublish
  PROVE  TransactionInv'
<1> USE DEF TransactionInv, shared, clientWait, workerWait, client, worker,
            stopper, history, WorkerPublish
<1>1. /\ wpc \in {"publish", "publish_late"} /\ wpc' \in {"peek", "wake"}
      /\ Outstanding /\ completion_sequence = after /\ w_wait = "out"
      /\ request_sequence = after + 1 /\ ~Outstanding' /\ ~Preparing
      /\ completion_sequence' \in Sequence
      /\ request_sequence \in Nat /\ completion_sequence \in Nat
      /\ c_sequence \in Nat /\ after \in Nat
  BY DEF SequencesAgree, Preparing, Asked, Serving, WaitsKnow, TypeOK, WordsOK,
         Sequence, Outstanding
<1>2. TypeOK'
  <2>1. FlagsOK'
    BY DEF TypeOK, FlagsOK
  <2>2. WordsOK'
    BY <1>1 DEF TypeOK, WordsOK, ClientWait!WaitStates, ClientWait!WaitLocations,
           ClientWait!WaitResults
  <2> QED
    BY <2>1, <2>2 DEF TypeOK
<1>3. SequencesAgree' /\ RequestInSlot' /\ HistoriesAgree'
  BY <1>1
  DEF SequencesAgree, RequestInSlot, HistoriesAgree, Outstanding, Preparing,
      Asked, Serving
<1>4. OthersAvailable'
  BY <1>1 DEF OthersAvailable, Preparing, Asked
<1>5. /\ WaitsKnow' /\ in_order' /\ AnswersOwnRequest' /\ NoBrokenRing'
      /\ NoLostHandoff'
  BY <1>1
  DEF WaitsKnow, AnswersOwnRequest, NoBrokenRing, NoLostHandoff, Outstanding,
      HistoriesAgree
<1> QED
  BY <1>2, <1>3, <1>4, <1>5

\* The worker loads the caller's announcement.
LEMMA WorkerPeekStep ==
  ASSUME TransactionInv, WorkerPeek
  PROVE  TransactionInv'
<1> USE DEF TransactionInv, shared, clientWait, workerWait, client, worker,
            stopper, history, WorkerPeek
<1>1. /\ wpc \in {"publish", "peek"} /\ w_wait = "out"
      /\ wpc' = IF wpc = "peek" THEN "wake" ELSE "publish_late"
      /\ request_sequence \in Nat /\ completion_sequence \in Nat
      /\ c_sequence \in Nat /\ after \in Nat
  BY DEF SequencesAgree, Preparing, Asked, Serving, WaitsKnow, TypeOK, WordsOK,
         Sequence, Outstanding
<1>2. TypeOK'
  <2>1. FlagsOK'
    BY DEF TypeOK, FlagsOK
  <2>2. WordsOK'
    BY <1>1 DEF TypeOK, WordsOK, ClientWait!WaitStates, ClientWait!WaitLocations,
           ClientWait!WaitResults
  <2> QED
    BY <2>1, <2>2 DEF TypeOK
<1>3. SequencesAgree' /\ RequestInSlot' /\ HistoriesAgree'
  BY <1>1
  DEF SequencesAgree, RequestInSlot, HistoriesAgree, Outstanding, Preparing,
      Asked, Serving
<1>4. OthersAvailable'
  BY <1>1 DEF OthersAvailable, Preparing, Asked
<1>5. /\ WaitsKnow' /\ in_order' /\ AnswersOwnRequest' /\ NoBrokenRing'
      /\ NoLostHandoff'
  BY <1>1
  DEF WaitsKnow, AnswersOwnRequest, NoBrokenRing, NoLostHandoff, Outstanding
<1> QED
  BY <1>2, <1>3, <1>4, <1>5

\* The worker wakes the caller and goes on to the next number.
LEMMA WorkerWakeStep ==
  ASSUME TransactionInv, WorkerWake
  PROVE  TransactionInv'
<1> USE DEF TransactionInv, shared, clientWait, workerWait, client, worker,
            stopper, history, WorkerWake, ClientWait!Woken
<1>1. /\ wpc = "wake" /\ wpc' = "loop" /\ w_wait = "out"
      /\ c_wait' \in {c_wait, "recheck"}
      /\ c_wait' # c_wait => c_wait = "asleep" /\ c_wait' = "recheck"
      /\ completion_sequence = after + 1 /\ after' \in Sequence
      /\ request_sequence \in Nat /\ completion_sequence \in Nat
      /\ c_sequence \in Nat /\ after \in Nat
  BY DEF SequencesAgree, Preparing, Asked, Serving, WaitsKnow, TypeOK, WordsOK,
         Sequence, Outstanding
<1>2. TypeOK'
  <2>1. FlagsOK'
    BY DEF TypeOK, FlagsOK
  <2>2. WordsOK'
    BY <1>1 DEF TypeOK, WordsOK, ClientWait!WaitStates, ClientWait!WaitLocations,
           ClientWait!WaitResults
  <2> QED
    BY <2>1, <2>2 DEF TypeOK
<1>3. SequencesAgree' /\ RequestInSlot' /\ HistoriesAgree'
  BY <1>1
  DEF SequencesAgree, RequestInSlot, HistoriesAgree, Outstanding, Preparing,
      Asked, Serving
<1>4. OthersAvailable'
  BY <1>1 DEF OthersAvailable, Preparing, Asked
<1>5. /\ WaitsKnow' /\ in_order' /\ AnswersOwnRequest' /\ NoBrokenRing'
      /\ NoLostHandoff'
  BY <1>1
  DEF WaitsKnow, AnswersOwnRequest, NoBrokenRing, NoLostHandoff, Outstanding
<1> QED
  BY <1>2, <1>3, <1>4, <1>5

\* The caller fills its slot, which is free.
LEMMA CallFillStep == ASSUME TransactionInv, CallFill PROVE TransactionInv'
<1> USE DEF TransactionInv, shared, clientWait, workerWait, client, worker,
            stopper, history
<1> DEFINE s == SlotOf(c_sequence)
           new == [EmptySlot EXCEPT !.state = "REQUESTED",
                                    !.sequence = c_sequence,
                                    !.request = c_request]
<1>1. /\ cpc = "fill" /\ c_wait = "out" /\ ~Outstanding /\ ~Serving
      /\ c_sequence = request_sequence + 1 /\ c_request \in Requests
      /\ request_sequence \in Nat /\ completion_sequence \in Nat
      /\ c_sequence \in Nat \ {0} /\ after \in Nat /\ c_sequence \in Sequence
  BY DEF CallFill, SequencesAgree, Preparing, WaitsKnow, TypeOK, WordsOK,
         Sequence, RequestInSlot
<1>2. s \in Slots /\ slot[s].state = "AVAILABLE"
  BY <1>1, SlotOfFacts DEF OthersAvailable
<1>3. /\ slot' = [slot EXCEPT ![s] = new] /\ cpc' = "publish"
      /\ UNCHANGED <<c_error, request_sequence, completion_sequence,
                     client_status, service_status, clientWait, workerWait,
                     c_sequence, c_request, c_wakes, returned, worker, stopper,
                     history>>
  BY <1>2 DEF CallFill
<1>4. /\ new \in SlotType /\ new.state = "REQUESTED"
      /\ new.sequence = c_sequence /\ new.request = c_request
  BY <1>1, EmptySlotFacts DEF EmptySlot, SlotType
<1>5. /\ slot \in [Slots -> SlotType] /\ slot' \in [Slots -> SlotType]
      /\ slot'[s] = new /\ \A t \in Slots : t # s => slot'[t] = slot[t]
  BY <1>2, <1>3, <1>4 DEF TypeOK, WordsOK, SlotType
<1> HIDE DEF s, new
<1>6. TypeOK'
  <2>1. FlagsOK'
    BY <1>3 DEF TypeOK, FlagsOK
  <2>2. WordsOK'
    BY <1>3, <1>5 DEF TypeOK, WordsOK, SlotType, ClientWait!WaitStates,
                      ClientWait!WaitLocations, ClientWait!WaitResults
  <2> QED
    BY <2>1, <2>2 DEF TypeOK
<1>7. SequencesAgree' /\ HistoriesAgree'
  BY <1>1, <1>3 DEF SequencesAgree, HistoriesAgree, Outstanding, Preparing,
                    Asked, Serving
<1>8. RequestInSlot' /\ OthersAvailable'
  BY <1>1, <1>3, <1>4, <1>5
  DEF RequestInSlot, OthersAvailable, Outstanding, Preparing, Asked, Serving, s
<1>9. /\ WaitsKnow' /\ in_order' /\ AnswersOwnRequest' /\ NoBrokenRing'
      /\ NoLostHandoff'
  BY <1>1, <1>3
  DEF WaitsKnow, AnswersOwnRequest, NoBrokenRing, NoLostHandoff, Outstanding
<1> QED
  BY <1>6, <1>7, <1>8, <1>9

\* The call ends: with the error of its wait or of the worker, or with the
\* answer, and then the slot is free again.
LEMMA CallFinishStep == ASSUME TransactionInv, CallFinish PROVE TransactionInv'
<1> USE DEF TransactionInv, shared, clientWait, workerWait, client, worker,
            stopper, history
<1> DEFINE s == SlotOf(c_sequence)
<1>1. /\ cpc = "wait" /\ c_wait = "done" /\ c_wait' = "out"
      /\ c_sequence = request_sequence /\ c_sequence \in Nat \ {0}
      /\ c_sequence \in Sequence
      /\ request_sequence \in Nat /\ completion_sequence \in Nat /\ after \in Nat
      /\ UNCHANGED <<request_sequence, completion_sequence, client_status,
                     service_status, completion_wait_state, c_observed,
                     c_result, workerWait, c_request, c_wakes, worker, stopper,
                     history>>
  BY DEF CallFinish, SequencesAgree, Asked, TypeOK, WordsOK, Sequence
<1>2. s \in Slots
  BY <1>1, SlotOfFacts
<1>3. c_result = "OK" =>
        /\ ~Outstanding /\ slot[s].sequence = c_sequence
        /\ slot[s].state = "COMPLETED"
        /\ slot[s].status = "OK" => slot[s].response = c_request
  BY <1>1 DEF WaitsKnow, RequestInSlot, Asked
<1>4. \/ /\ CallFails(c_result) \/ CallFails("STATUS")
         /\ c_error' # "OK" /\ UNCHANGED <<slot, c_sequence, returned>>
      \/ /\ c_result = "OK" /\ slot[s].status = "OK"
         /\ slot' = [slot EXCEPT ![s] = EmptySlot]
         /\ c_sequence' = (c_sequence + 1) % (MaxSequence + 1)
         /\ \/ /\ c_sequence = MaxSequence
               /\ CallFails("EOVERFLOW") /\ UNCHANGED returned
            \/ /\ c_sequence # MaxSequence
               /\ returned' = <<c_request, slot[s].response>>
               /\ cpc' = "idle" /\ UNCHANGED c_error
  <2>1. CASE c_result # "OK"
    BY <2>1 DEF CallFinish, CallFails
  <2>2. CASE c_result = "OK" /\ slot[s].status # "OK"
    BY <1>3, <2>2 DEF CallFinish, CallFails
  <2>3. CASE c_result = "OK" /\ slot[s].status = "OK"
    BY <1>3, <2>3 DEF CallFinish, CallFails
  <2> QED
    BY <2>1, <2>2, <2>3
<1>5. slot[s] \in SlotType /\ slot \in [Slots -> SlotType]
      /\ c_result \in {"OK", "PEER", "ETIMEDOUT"}
  BY <1>2 DEF TypeOK, WordsOK, SlotType, ClientWait!WaitResults
<1> HIDE DEF s
<1>6. FlagsOK'
  BY <1>1 DEF TypeOK, FlagsOK
<1>7. CASE /\ CallFails(c_result) \/ CallFails("STATUS")
           /\ c_error' # "OK" /\ UNCHANGED <<slot, c_sequence, returned>>
  <2>1. cpc' = "fail_store" /\ c_error' \in {"PEER", "ETIMEDOUT", "STATUS"}
    BY <1>5, <1>7 DEF CallFails
  <2>2. WordsOK'
    BY <1>1, <1>7, <2>1
    DEF TypeOK, WordsOK, ClientWait!WaitStates, ClientWait!WaitLocations,
        ClientWait!WaitResults
  <2>3. SequencesAgree' /\ HistoriesAgree' /\ RequestInSlot' /\ OthersAvailable'
    BY <1>1, <1>7, <2>1
    DEF SequencesAgree, HistoriesAgree, RequestInSlot, OthersAvailable,
        Outstanding, Preparing, Asked, Serving
  <2>4. /\ WaitsKnow' /\ in_order' /\ AnswersOwnRequest' /\ NoBrokenRing'
        /\ NoLostHandoff'
    BY <1>1, <1>7, <2>1
    DEF WaitsKnow, AnswersOwnRequest, NoBrokenRing, NoLostHandoff, Outstanding
  <2> QED
    BY <1>6, <2>2, <2>3, <2>4 DEF TypeOK
<1>8. CASE /\ c_result = "OK" /\ slot[s].status = "OK"
           /\ slot' = [slot EXCEPT ![s] = EmptySlot]
           /\ c_sequence' = (c_sequence + 1) % (MaxSequence + 1)
           /\ \/ /\ c_sequence = MaxSequence
                 /\ CallFails("EOVERFLOW") /\ UNCHANGED returned
              \/ /\ c_sequence # MaxSequence
                 /\ returned' = <<c_request, slot[s].response>>
                 /\ cpc' = "idle" /\ UNCHANGED c_error
  <2>1. /\ c_sequence' \in Sequence
        /\ c_sequence # MaxSequence => c_sequence' = c_sequence + 1
    BY <1>1, <1>8, CountFacts
  <2>2. /\ cpc' \in {"idle", "fail_store"} /\ c_error' \in {c_error, "EOVERFLOW"}
        /\ cpc' = "idle" => c_sequence' = c_sequence + 1
    BY <1>8, <2>1 DEF CallFails
  <2>3. /\ returned' \in (Requests \cup {None}) \X (Requests \cup {None})
        /\ returned'[1] = returned'[2]
    BY <1>3, <1>5, <1>8
    DEF AnswersOwnRequest, TypeOK, WordsOK, CallFails, SlotType
  <2>4. /\ slot' \in [Slots -> SlotType] /\ slot'[s].state = "AVAILABLE"
        /\ \A t \in Slots : t # s => slot'[t] = slot[t]
    BY <1>2, <1>5, <1>8, EmptySlotFacts
  <2>5. WordsOK'
    BY <1>1, <2>1, <2>2, <2>3, <2>4
    DEF TypeOK, WordsOK, SlotType, ClientWait!WaitStates,
        ClientWait!WaitLocations, ClientWait!WaitResults
  <2>6. SequencesAgree' /\ HistoriesAgree' /\ RequestInSlot'
    BY <1>1, <1>3, <1>8, <2>2
    DEF SequencesAgree, HistoriesAgree, RequestInSlot, Outstanding, Preparing,
        Asked, Serving
  <2>7. OthersAvailable'
    BY <1>1, <2>2, <2>4 DEF OthersAvailable, Preparing, Asked, s
  <2>8. /\ WaitsKnow' /\ in_order' /\ AnswersOwnRequest' /\ NoBrokenRing'
        /\ NoLostHandoff'
    BY <1>1, <2>2, <2>3
    DEF WaitsKnow, AnswersOwnRequest, NoBrokenRing, NoLostHandoff, Outstanding
  <2> QED
    BY <1>6, <2>5, <2>6, <2>7, <2>8 DEF TypeOK
<1> QED
  BY <1>4, <1>7, <1>8

\* The steps that fail the ring, on either side, and the service's stop: they
\* change no slot and no sequence, and wake whoever sleeps.
LEMMA FailureStep ==
  ASSUME TransactionInv,
         FailClientStore \/ FailClientWake \/ StopBegin \/ FailServiceStore
         \/ FailServiceWake \/ StopJoin
  PROVE  TransactionInv'
<1> USE DEF TransactionInv, shared, clientWait, workerWait, client, worker,
            stopper, history, FailClientStore, FailClientWake, StopBegin,
            FailServiceStore, FailServiceWake, StopJoin, WorkerWait!Woken,
            ClientWait!Woken
<1>1. /\ UNCHANGED <<request_sequence, completion_sequence, slot,
                     completion_wait_state, c_observed, c_result,
                     request_wait_state, w_observed, w_result, c_sequence,
                     c_request, c_error, c_wakes, returned, worker, history>>
      /\ \/ cpc' = cpc
         \/ /\ cpc \in {"fail_store", "fail_wake"}
            /\ cpc' \in {"fail_wake", "poisoned"}
      /\ c_wait' = c_wait \/ (c_wait = "asleep" /\ c_wait' = "recheck")
      /\ w_wait' = w_wait \/ (w_wait = "asleep" /\ w_wait' = "recheck")
  OBVIOUS
<1>2. TypeOK'
  <2>1. FlagsOK'
    BY <1>1, Zenon DEF TypeOK, FlagsOK
  <2>2. WordsOK'
    BY <1>1
    DEF TypeOK, WordsOK, ClientWait!WaitStates, ClientWait!WaitLocations,
        ClientWait!WaitResults
  <2> QED
    BY <2>1, <2>2 DEF TypeOK
<1>3. SequencesAgree' /\ HistoriesAgree' /\ RequestInSlot' /\ OthersAvailable'
  BY <1>1
  DEF SequencesAgree, HistoriesAgree, RequestInSlot, OthersAvailable,
      Outstanding, Preparing, Asked, Serving
<1>4. /\ WaitsKnow' /\ in_order' /\ AnswersOwnRequest' /\ NoBrokenRing'
      /\ NoLostHandoff'
  BY <1>1
  DEF WaitsKnow, AnswersOwnRequest, NoBrokenRing, NoLostHandoff, Outstanding
<1> QED
  BY <1>2, <1>3, <1>4

\* The worker's wait is over: it copies the request out of its slot.
LEMMA WorkerTakeStep == ASSUME TransactionInv, WorkerTake PROVE TransactionInv'
<1> USE DEF TransactionInv, shared, clientWait, workerWait, client, worker,
            stopper, history
<1>1. /\ wpc = "wait" /\ w_wait = "done" /\ w_wait' = "out"
      /\ completion_sequence = after
      /\ request_sequence \in Nat /\ completion_sequence \in Nat /\ after \in Nat
      /\ UNCHANGED <<shared, clientWait, request_wait_state, w_observed,
                     w_result, client, after, w_status, w_wakes, stopper,
                     history>>
  BY DEF WorkerTake, SequencesAgree, TypeOK, WordsOK, Sequence
<1>2. w_result = "OK" =>
        /\ Outstanding /\ request_sequence = after + 1
        /\ LET s == slot[SlotOf(after + 1)] IN
           /\ s.sequence = after + 1 /\ s.state = "REQUESTED"
           /\ s.request = c_request /\ c_request \in Requests
  BY <1>1 DEF WaitsKnow, RequestInSlot, Outstanding
<1>3. \/ /\ wpc' = "execute" /\ w_request' = c_request /\ Outstanding
         /\ c_request \in Requests /\ UNCHANGED w_error
      \/ /\ wpc' \in {"loop", "ended"} /\ UNCHANGED w_request
         /\ w_error' \in {w_error, "PEER"}
  <2>1. CASE w_result = "OK"
    BY <1>2, <2>1 DEF WorkerTake, WorkerEnds
  <2>2. CASE w_result # "OK"
    BY <2>2 DEF WorkerTake, WorkerEnds
  <2> QED
    BY <2>1, <2>2
<1>4. TypeOK'
  <2>1. FlagsOK'
    BY <1>1 DEF TypeOK, FlagsOK
  <2>2. WordsOK'
    BY <1>1, <1>3
    DEF TypeOK, WordsOK, ClientWait!WaitStates, ClientWait!WaitLocations,
        ClientWait!WaitResults
  <2> QED
    BY <2>1, <2>2 DEF TypeOK
<1>5. SequencesAgree' /\ HistoriesAgree' /\ RequestInSlot' /\ OthersAvailable'
  BY <1>1, <1>3
  DEF SequencesAgree, HistoriesAgree, RequestInSlot, OthersAvailable,
      Outstanding, Preparing, Asked, Serving
<1>6. /\ WaitsKnow' /\ in_order' /\ AnswersOwnRequest' /\ NoBrokenRing'
      /\ NoLostHandoff'
  BY <1>1, <1>3
  DEF WaitsKnow, AnswersOwnRequest, NoBrokenRing, NoLostHandoff, Outstanding
<1> QED
  BY <1>4, <1>5, <1>6

\* The worker executes the request, the oldest one published.
LEMMA WorkerExecuteStep ==
  ASSUME TransactionInv, WorkerExecute
  PROVE  TransactionInv'
<1> USE DEF TransactionInv, shared, clientWait, workerWait, client, worker,
            stopper, history
<1>1. /\ wpc = "execute" /\ wpc' = "complete" /\ w_wait = "out"
      /\ Outstanding /\ ~Preparing /\ w_request = c_request
      /\ unserved = <<c_request>> /\ c_request \in Requests
      /\ UNCHANGED <<shared, clientWait, workerWait, client, after, w_request,
                     w_error, w_wakes, stopper, w_overtook>>
      /\ w_status' \in {"OK", "ERROR"} /\ c_overtook' = FALSE
  BY DEF WorkerExecute, SequencesAgree, HistoriesAgree, RequestInSlot, Serving,
         WaitsKnow
<1>2. unserved' = <<>> /\ in_order'
  <2>1. unserved # <<>> /\ Head(unserved) = c_request /\ Tail(unserved) = <<>>
    BY <1>1
  <2>2. in_order' = (in_order /\ unserved # <<>> /\ w_request = Head(unserved))
        /\ unserved' = Tail(unserved)
    BY <2>1 DEF WorkerExecute
  <2> QED
    BY <1>1, <2>1, <2>2
<1>3. TypeOK'
  <2>1. FlagsOK'
    BY <1>1, <1>2 DEF TypeOK, FlagsOK
  <2>2. WordsOK'
    BY <1>1, <1>2
    DEF TypeOK, WordsOK, ClientWait!WaitStates, ClientWait!WaitLocations,
        ClientWait!WaitResults
  <2> QED
    BY <2>1, <2>2 DEF TypeOK
<1>4. SequencesAgree' /\ HistoriesAgree' /\ RequestInSlot' /\ OthersAvailable'
  BY <1>1, <1>2
  DEF SequencesAgree, HistoriesAgree, RequestInSlot, OthersAvailable,
      Outstanding, Preparing, Asked, Serving
<1>5. WaitsKnow' /\ AnswersOwnRequest' /\ NoBrokenRing' /\ NoLostHandoff'
  BY <1>1
  DEF WaitsKnow, AnswersOwnRequest, NoBrokenRing, NoLostHandoff, Outstanding
<1> QED
  BY <1>2, <1>3, <1>4, <1>5

\* The worker fills the slot, which still holds the request.
LEMMA WorkerCompleteStep ==
  ASSUME TransactionInv, WorkerComplete
  PROVE  TransactionInv'
<1> USE DEF TransactionInv, shared, clientWait, workerWait, client, worker,
            stopper, history
<1> DEFINE s == SlotOf(request_sequence)
           response == IF w_status = "OK" THEN w_request ELSE None
<1>1. /\ wpc = "complete" /\ w_wait = "out" /\ completion_sequence = after
      /\ Outstanding /\ ~Preparing /\ w_request = c_request
      /\ request_sequence = after + 1 /\ request_sequence \in Nat \ {0}
      /\ after \in Nat
  BY DEF WorkerComplete, SequencesAgree, RequestInSlot, Serving, Outstanding,
         WaitsKnow, TypeOK, WordsOK, Sequence
<1>2. /\ s \in Slots /\ slot[s].sequence = after + 1
      /\ slot[s].state = "REQUESTED" /\ slot[s].request = c_request
  BY <1>1, SlotOfFacts DEF RequestInSlot
<1>3. /\ slot' = [slot EXCEPT ![s].state = "COMPLETED", ![s].status = w_status,
                              ![s].response = response]
      /\ wpc' = "publish"
      /\ UNCHANGED <<w_error, request_sequence, completion_sequence,
                     client_status, service_status, clientWait, workerWait,
                     client, after, w_request, w_status, w_wakes, stopper,
                     history>>
  BY <1>1, <1>2 DEF WorkerComplete
<1>4. /\ slot \in [Slots -> SlotType] /\ w_status \in {"OK", "ERROR"}
      /\ response \in Requests \cup {None}
  BY DEF TypeOK, WordsOK, SlotType
<1> HIDE DEF s, response
<1>5. /\ slot' \in [Slots -> SlotType]
      /\ slot'[s].state = "COMPLETED" /\ slot'[s].status = w_status
      /\ slot'[s].response = response /\ slot'[s].sequence = after + 1
      /\ slot'[s].request = c_request
      /\ \A t \in Slots : t # s => slot'[t] = slot[t]
  BY <1>2, <1>3, <1>4 DEF SlotType
<1>6. TypeOK'
  <2>1. FlagsOK'
    BY <1>3 DEF TypeOK, FlagsOK
  <2>2. WordsOK'
    BY <1>3, <1>5
    DEF TypeOK, WordsOK, SlotType, ClientWait!WaitStates,
        ClientWait!WaitLocations, ClientWait!WaitResults
  <2> QED
    BY <2>1, <2>2 DEF TypeOK
<1>7. SequencesAgree' /\ HistoriesAgree'
  BY <1>1, <1>3 DEF SequencesAgree, HistoriesAgree, Outstanding, Preparing,
                    Asked, Serving
<1>8. RequestInSlot'
  BY <1>1, <1>3, <1>5
  DEF RequestInSlot, Outstanding, Preparing, Asked, Serving, s, response
<1>9. OthersAvailable'
  <2>1. Asked => c_sequence = request_sequence
    BY DEF SequencesAgree
  <2> QED
    BY <1>1, <1>3, <1>5, <2>1 DEF OthersAvailable, Preparing, Asked, s
<1>10. /\ WaitsKnow' /\ in_order' /\ AnswersOwnRequest' /\ NoBrokenRing'
       /\ NoLostHandoff'
  BY <1>1, <1>3
  DEF WaitsKnow, AnswersOwnRequest, NoBrokenRing, NoLostHandoff, Outstanding
<1> QED
  BY <1>6, <1>7, <1>8, <1>9, <1>10

\* Every step preserves the invariant.
LEMMA TransactionInvStep == TransactionInv /\ [Next]_vars => TransactionInv'
<1> SUFFICES ASSUME TransactionInv, [Next]_vars PROVE TransactionInv'
  OBVIOUS
<1>1. CASE UNCHANGED vars
  <2> USE <1>1 DEF TransactionInv, vars, shared, clientWait, workerWait, client,
                   worker, stopper, history
  <2>1. FlagsOK'
    BY DEF TypeOK, FlagsOK
  <2>2. WordsOK'
    BY DEF TypeOK, WordsOK, ClientWait!WaitStates, ClientWait!WaitLocations,
           ClientWait!WaitResults
  <2>3. SequencesAgree' /\ HistoriesAgree' /\ RequestInSlot' /\ OthersAvailable'
    BY DEF SequencesAgree, HistoriesAgree, RequestInSlot, OthersAvailable,
           Outstanding, Preparing, Asked, Serving
  <2>4. /\ WaitsKnow' /\ in_order' /\ AnswersOwnRequest' /\ NoBrokenRing'
        /\ NoLostHandoff'
    BY DEF WaitsKnow, AnswersOwnRequest, NoBrokenRing, NoLostHandoff,
           Outstanding
  <2> QED
    BY <2>1, <2>2, <2>3, <2>4 DEF TypeOK
<1> QED
  BY <1>1, CallBeginStep, CallFillStep, CallPublishStep, CallPeekStep,
     CallWakeStep, CallWaitStep, CallFinishStep, FailureStep, WorkerLoopStep,
     WorkerWaitsStep, WorkerTakeStep, WorkerExecuteStep, WorkerCompleteStep,
     WorkerPublishStep, WorkerPeekStep, WorkerWakeStep
  DEF Next, ClientStep, WorkerStep, StopStep

-----------------------------------------------------------------------------
\* The invariant of the transaction ring.
THEOREM TransactionInvariant == Spec => []TransactionInv
  BY TransactionInvInit, TransactionInvStep, PTL DEF Spec

\* Every word and every local keeps its type; in particular no sequence word
\* passes UINT32_MAX, because a call that would need the next number fails.
THEOREM TypeCorrect == Spec => []TypeOK
<1>1. TransactionInv => TypeOK
  BY DEF TransactionInv
<1> QED
  BY <1>1, TransactionInvariant, PTL

\* A call that succeeds returns the answer to its own request.
THEOREM AlwaysOwnAnswer == Spec => []AnswersOwnRequest
<1>1. TransactionInv => AnswersOwnRequest
  BY DEF TransactionInv
<1> QED
  BY <1>1, TransactionInvariant, PTL

\* The worker executes what was asked, in order and at most once.
THEOREM AlwaysInOrder == Spec => []ExecutesInOrder
<1>1. TransactionInv => ExecutesInOrder
  BY DEF TransactionInv, ExecutesInOrder, HistoriesAgree, SequencesAgree,
         Preparing
<1> QED
  BY <1>1, TransactionInvariant, PTL

\* Neither side ever calls the ring broken.
THEOREM NeverBroken == Spec => []NoBrokenRing
<1>1. TransactionInv => NoBrokenRing
  BY DEF TransactionInv
<1> QED
  BY <1>1, TransactionInvariant, PTL

\* Nobody is left asleep on a word that has reached the number awaited, unless
\* the publisher's load of the announcement overtook its store.
THEOREM HandoffNeverLost == Spec => []NoLostHandoff
<1>1. TransactionInv => NoLostHandoff
  BY DEF TransactionInv
<1> QED
  BY <1>1, TransactionInvariant, PTL
=============================================================================
